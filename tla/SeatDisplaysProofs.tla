------------------------- MODULE SeatDisplaysProofs -------------------------
(***************************************************************************)
(* Theorems about the displays of a seat (SeatDisplays), for any names of  *)
(* displays, users and number of terminals.  What they rest on is what the *)
(* list and the displays are after each operator on a state: Sound is the  *)
(* type of a state in which the list may be empty for a moment.            *)
(***************************************************************************)
EXTENDS SeatDisplays, SequenceTheorems, WellFoundedInduction, TLAPS

States == [displays: Seq(Ids), disp: [Ids -> Displays], active: Vts]

\* A state between two calls: a display is listed once, and one that is not
\* listed is nothing.
Sound(s) ==
    /\ s \in States /\ IsInjective(s.displays)
    /\ \A d \in Ids \ Range(s.displays) : s.disp[d] = Gone

-----------------------------------------------------------------------------
(***************************************************************************)
(* Lists and terminals                                                    *)
(***************************************************************************)

\* A set of numbers that is not empty has a least one.
LEMMA Least ==
    ASSUME NEW T, T \subseteq Nat, T # {}
    PROVE  \E v \in T : \A w \in T : v <= w
<1> DEFINE R == {ss \in Nat \X Nat : ss[1] < ss[2]}
<1>1. IsWellFoundedOn(R, Nat)
    BY NatLessThanWellFounded DEF OpToRel
<1> HIDE DEF R
<1>2. PICK v \in T : \A w \in T : ~(<<w, v>> \in R)
    BY <1>1, WFMin
<1>3. \A w \in T : ~(w < v)
    BY <1>2 DEF R
<1> QED
    BY <1>3

\* Taking a display out leaves a list of the others.
LEMMA Removed ==
    ASSUME NEW q \in Seq(Ids), IsInjective(q), NEW d \in Ids
    PROVE  /\ Without(q, d) \in Seq(Ids) /\ IsInjective(Without(q, d))
           /\ Range(Without(q, d)) = Range(q) \ {d}
<1>1. CASE d \notin Range(q)
    BY <1>1 DEF Without
<1>2. CASE d \in Range(q)
    <2> DEFINE k == CHOOSE i \in DOMAIN q : q[i] = d
               m == Len(q)
               r == Without(q, d)
    <2>1. m \in Nat /\ DOMAIN q = 1..m /\ \A i \in 1..m : q[i] \in Ids
        OBVIOUS
    <2>2. k \in 1..m /\ q[k] = d
        <3>1. \E i \in DOMAIN q : q[i] = d
            BY <1>2 DEF Range
        <3> QED
            BY <2>1, <3>1
    <2>3. r = [i \in 1..(m - 1) |-> q[IF i < k THEN i ELSE i + 1]]
        BY <1>2 DEF Without
    <2> HIDE DEF k, r
    <2>4. \A i \in 1..(m - 1) : (IF i < k THEN i ELSE i + 1) \in 1..m
        BY <2>1, <2>2
    <2>5. r \in [1..(m - 1) -> Ids] /\ m - 1 \in Nat
        BY <2>1, <2>2, <2>3, <2>4
    <2>6. r \in Seq(Ids) /\ DOMAIN r = 1..(m - 1)
        BY <2>5
    <2>7. \A i \in 1..(m - 1) : r[i] = IF i < k THEN q[i] ELSE q[i + 1]
        BY <2>3
    <2>8. \A i, j \in 1..m : q[i] = q[j] => i = j
        BY <2>1 DEF IsInjective
    <2>9. IsInjective(r)
        BY <2>1, <2>2, <2>6, <2>7, <2>8 DEF IsInjective
    <2>10. Range(r) \subseteq Range(q) \ {d}
        BY <2>1, <2>2, <2>6, <2>7, <2>8 DEF Range
    <2>11. Range(q) \ {d} \subseteq Range(r)
        <3> SUFFICES ASSUME NEW i \in 1..m, q[i] # d
                     PROVE  \E j \in 1..(m - 1) : r[j] = q[i]
            BY <2>1, <2>6 DEF Range
        <3>1. CASE i < k
            <4>1. i \in 1..(m - 1) /\ r[i] = q[i]
                BY <2>1, <2>2, <2>7, <3>1
            <4> QED
                BY <4>1
        <3>2. CASE ~(i < k)
            <4>1. i - 1 \in 1..(m - 1) /\ ~(i - 1 < k)
                BY <2>1, <2>2, <3>2
            <4>2. r[i - 1] = q[i]
                BY <2>1, <2>7, <4>1
            <4> QED
                BY <4>1, <4>2
        <3> QED
            BY <3>1, <3>2
    <2> QED
        BY <2>6, <2>9, <2>10, <2>11 DEF r
<1> QED
    BY <1>1, <1>2

LEMMA Appended ==
    ASSUME NEW q \in Seq(Ids), IsInjective(q), NEW d \in Ids, d \notin Range(q)
    PROVE  /\ Append(q, d) \in Seq(Ids) /\ IsInjective(Append(q, d))
           /\ Range(Append(q, d)) = Range(q) \cup {d}
           /\ Last(Append(q, d)) = d /\ Append(q, d) # <<>>
<1> DEFINE m == Len(q)
           r == Append(q, d)
<1>1. m \in Nat /\ DOMAIN q = 1..m /\ \A i \in 1..m : q[i] \in Range(q)
    BY DEF Range
<1>2. r \in Seq(Ids) /\ Len(r) = m + 1 /\ DOMAIN r = 1..(m + 1)
    OBVIOUS
<1>3. r[m + 1] = d /\ \A i \in 1..m : r[i] = q[i]
    OBVIOUS
<1> HIDE DEF r
<1>4. IsInjective(r)
    BY <1>1, <1>2, <1>3 DEF IsInjective
<1>5. Range(r) = Range(q) \cup {d}
    <2>1. \A i \in 1..(m + 1) : i \in 1..m \/ i = m + 1
        BY <1>1
    <2>2. 1..m \subseteq 1..(m + 1) /\ m + 1 \in 1..(m + 1)
        BY <1>1
    <2> HIDE DEF m
    <2> QED
        BY <1>1, <1>2, <1>3, <2>1, <2>2 DEF Range
<1>6. Last(r) = d /\ r # <<>>
    BY <1>1, <1>2, <1>3 DEF Last
<1> QED
    BY <1>2, <1>4, <1>5, <1>6 DEF r

LEMMA NewVt ==
    ASSUME NEW s, s.active \in Vts
    PROVE  SetUpNewVt(s) \in Vts
<1> DEFINE free == {v \in Vts : ~Taken(s, v)}
           least == CHOOSE v \in free : \A w \in free : v <= w
<1>1. CASE free = {}
    BY <1>1 DEF SetUpNewVt
<1>2. CASE free # {}
    <2>1. free \subseteq Nat
        BY ConstantsAssumption DEF Vts
    <2> HIDE DEF free
    <2>2. \E v \in free : \A w \in free : v <= w
        BY <1>2, <2>1, Least
    <2>3. least \in free
        BY <2>2
    <2> HIDE DEF least
    <2>4. SetUpNewVt(s) = least
        BY <1>2 DEF SetUpNewVt, free, least
    <2> QED
        BY <2>3, <2>4 DEF free
<1> QED
    BY <1>1, <1>2

LEMMA AvailableVt ==
    ASSUME NEW s, s.active \in Vts
    PROVE  FetchAvailableVt(s) \in Vts
<1>1. InitialVt \in Vts
    BY ConstantsAssumption DEF InitialVt, Vts
<1> QED
    BY <1>1, NewVt DEF FetchAvailableVt

LEMMA GoneType == Gone \in Displays
<1>1. InitialVt \in Vts
    BY ConstantsAssumption DEF InitialVt, Vts
<1> QED
    BY <1>1 DEF Gone, Displays

LEMMA NewDisplayType ==
    ASSUME NEW vt \in Vts, NEW u \in Users \cup {Nobody}
    PROVE  NewDisplay(vt, u) \in Displays
    BY GoneType DEF NewDisplay, Displays

\* A display that waits for somebody to log in only has its greeter starting.
LEMMA GreeterDisplay ==
    ASSUME NEW vt
    PROVE  /\ NewDisplay(vt, Nobody).greeter = "starting"
           /\ NewDisplay(vt, Nobody).auth = "none"
    BY DEF NewDisplay, Gone

-----------------------------------------------------------------------------
(***************************************************************************)
(* The seat's operators                                                   *)
(***************************************************************************)

LEMMA SoundParts ==
    ASSUME NEW s, Sound(s)
    PROVE  /\ s.displays \in Seq(Ids) /\ IsInjective(s.displays) /\ s.active \in Vts
           /\ s.disp \in [Ids -> Displays]
           /\ \A d \in Ids \ Range(s.displays) : s.disp[d] = Gone
    BY DEF Sound, States

LEMMA WithSound ==
    ASSUME NEW s, Sound(s), NEW d \in Range(s.displays), NEW r \in Displays
    PROVE  LET t == [s EXCEPT !.disp[d] = r]
           IN /\ Sound(t) /\ t.displays = s.displays /\ t.active = s.active
              /\ t.disp = [s.disp EXCEPT ![d] = r]
<1> DEFINE t == [s EXCEPT !.disp[d] = r]
<1>1. s \in States /\ s.disp \in [Ids -> Displays] /\ s.displays \in Seq(Ids)
    BY DEF Sound, States
<1>2. d \in Ids
    BY <1>1 DEF Range
<1>3. /\ t.displays = s.displays /\ t.active = s.active
      /\ t.disp = [s.disp EXCEPT ![d] = r]
    BY <1>1 DEF States
<1>4. [s.disp EXCEPT ![d] = r] \in [Ids -> Displays]
    BY <1>1, <1>2
<1>5. t \in States
    BY <1>1, <1>4 DEF States
<1> HIDE DEF t
<1>6. \A e \in Ids \ Range(t.displays) : t.disp[e] = Gone
    BY <1>1, <1>3, SoundParts
<1>7. Sound(t)
    BY <1>3, <1>5, <1>6 DEF Sound
<1> QED
    BY <1>3, <1>7 DEF t

LEMMA JumpSound ==
    ASSUME NEW s, Sound(s), NEW v \in Vts \cup {0}
    PROVE  LET t == JumpToVt(s, v)
           IN /\ Sound(t) /\ t.displays = s.displays /\ t.disp = s.disp
              /\ t.active = IF v = 0 THEN s.active ELSE v
<1>1. CASE v = 0
    BY <1>1 DEF JumpToVt
<1>2. CASE v # 0
    <2> DEFINE t == [s EXCEPT !.active = v]
    <2>1. t = JumpToVt(s, v)
        BY <1>2 DEF JumpToVt
    <2>2. s \in States
        BY DEF Sound
    <2>3. t \in States /\ t.displays = s.displays /\ t.disp = s.disp /\ t.active = v
        BY <1>2, <2>2 DEF States
    <2> HIDE DEF t
    <2> QED
        BY <1>2, <2>1, <2>3 DEF Sound
<1> QED
    BY <1>1, <1>2

\* Also of a display that is listed no more.
LEMMA RemoveSound ==
    ASSUME NEW s, Sound(s), NEW d \in Ids
    PROVE  LET t == RemoveDisplay(s, d)
           IN /\ Sound(t) /\ Range(t.displays) = Range(s.displays) \ {d}
              /\ d \notin Range(s.displays) => t.displays = s.displays
              /\ t.disp = [s.disp EXCEPT ![d] = Gone] /\ t.active = s.active
<1> DEFINE q == Without(s.displays, d)
           f == [s.disp EXCEPT ![d] = Gone]
           t == RemoveDisplay(s, d)
<1>1. s \in States /\ s.displays \in Seq(Ids) /\ IsInjective(s.displays)
      /\ s.disp \in [Ids -> Displays]
    BY DEF Sound, States
<1>2. q \in Seq(Ids) /\ IsInjective(q) /\ Range(q) = Range(s.displays) \ {d}
    BY <1>1, Removed
<1>3. d \notin Range(s.displays) => q = s.displays
    BY DEF Without
<1>4. f \in [Ids -> Displays]
    BY <1>1, GoneType
<1> HIDE DEF q
<1>5. t \in States /\ t.displays = q /\ t.disp = f /\ t.active = s.active
    <2>1. t = [[s EXCEPT !.displays = q] EXCEPT !.disp = f]
        BY <1>1 DEF RemoveDisplay, q, States
    <2> HIDE DEF t, f
    <2> QED
        BY <1>1, <1>2, <1>4, <2>1 DEF States
<1> HIDE DEF t
<1>6. \A e \in Ids \ Range(t.displays) : t.disp[e] = Gone
    BY <1>1, <1>2, <1>5, SoundParts
<1>7. Sound(t)
    BY <1>2, <1>5, <1>6 DEF Sound
<1> QED
    BY <1>2, <1>3, <1>5, <1>7 DEF t

\* Display d is new and its greeter is starting; the others stay.
CreatedFrom(s, d, t) ==
    /\ Sound(t) /\ d \notin Range(s.displays) /\ t.displays # <<>>
    /\ Range(t.displays) = Range(s.displays) \cup {d} /\ Last(t.displays) = d
    /\ t.disp[d].greeter = "starting" /\ t.disp[d].auth = "none"
    /\ \A e \in Ids \ {d} : t.disp[e] = s.disp[e]
    /\ t.active = s.active

\* A display is made as long as there is a name for it.
LEMMA CreateSound ==
    ASSUME NEW s, Sound(s), NEW leaving, \E n \in Ids \ leaving : n \notin Range(s.displays)
    PROVE  \E d \in Ids \ leaving : CreatedFrom(s, d, CreateDisplay(s, leaving))
<1> DEFINE d == CHOOSE n \in Ids \ leaving : n \notin Range(s.displays)
           vt == FetchAvailableVt(s)
           r == NewDisplay(vt, Nobody)
           q == Append(s.displays, d)
           f == [s.disp EXCEPT ![d] = r]
           t == CreateDisplay(s, leaving)
<1>1. s \in States /\ s.displays \in Seq(Ids) /\ IsInjective(s.displays)
      /\ s.disp \in [Ids -> Displays] /\ s.active \in Vts
    BY DEF Sound, States
<1>2. d \in Ids \ leaving /\ d \notin Range(s.displays)
    OBVIOUS
<1>3. t = [[s EXCEPT !.displays = Append(s.displays, d)] EXCEPT !.disp = f]
    BY <1>1 DEF CreateDisplay, States
<1>4. vt \in Vts
    BY <1>1, AvailableVt
<1> HIDE DEF d, vt, t
<1>5. r \in Displays /\ r.greeter = "starting" /\ r.auth = "none"
    BY <1>4, NewDisplayType, GreeterDisplay
<1> HIDE DEF r
<1>6. /\ q \in Seq(Ids) /\ IsInjective(q) /\ Range(q) = Range(s.displays) \cup {d}
      /\ Last(q) = d /\ q # <<>>
    BY <1>1, <1>2, Appended
<1>7. f \in [Ids -> Displays] /\ f[d] = r /\ \A e \in Ids \ {d} : f[e] = s.disp[e]
    BY <1>1, <1>2, <1>5
<1> HIDE DEF q, f
<1>8. t \in States /\ t.displays = q /\ t.disp = f /\ t.active = s.active
    BY <1>1, <1>3, <1>6, <1>7 DEF States, q
<1>9. \A e \in Ids \ Range(t.displays) : t.disp[e] = Gone
    BY <1>2, <1>6, <1>7, <1>8, SoundParts
<1>10. Sound(t)
    BY <1>6, <1>8, <1>9 DEF Sound
<1> QED
    BY <1>2, <1>5, <1>6, <1>7, <1>8, <1>10 DEF t, CreatedFrom

\* What a state shows when the last display listed is shown.
LastShown(t) ==
    LET last == t.disp[Last(t.displays)]
    IN /\ last.auth = "session" => t.active = last.sessionVt
       /\ last.auth = "none" /\ last.greeter = "up" => t.active = last.vt

\* Without display d: the others stay, there is a display, and what is shown is
\* the session reused, or else the last display.
StoppedFrom(s, d, reused, t) ==
    /\ Sound(t) /\ t.displays # <<>> /\ d \notin Range(t.displays)
    /\ \A e \in Range(s.displays) \ {d} : e \in Range(t.displays) /\ t.disp[e] = s.disp[e]
    /\ reused \in Ids \ {d} /\ HasSession(s.disp[reused]) =>
         t.active = s.disp[reused].sessionVt
    /\ reused = NoReuse => LastShown(t)

LEMMA SessionVtType ==
    ASSUME NEW s, Sound(s), NEW r
    PROVE  SessionVt(s, r) \in Vts \cup {0}
<1>1. CASE r \in Ids /\ HasSession(s.disp[r])
    <2>1. s.disp[r] \in Displays
        BY <1>1, SoundParts
    <2> QED
        BY <1>1, <2>1 DEF SessionVt, Displays
<1>2. CASE ~(r \in Ids /\ HasSession(s.disp[r]))
    BY <1>2 DEF SessionVt
<1> QED
    BY <1>1, <1>2

LEMMA LastListed ==
    ASSUME NEW s, Sound(s), s.displays # <<>>
    PROVE  Last(s.displays) \in Range(s.displays) /\ Last(s.displays) \in Ids
<1>1. s.displays \in Seq(Ids)
    BY SoundParts
<1>2. Len(s.displays) \in 1..Len(s.displays)
    BY <1>1
<1> QED
    BY <1>1, <1>2 DEF Last, Range

LEMMA StoppedOnce ==
    ASSUME NEW s, Sound(s), NEW d \in Ids, NEW reused
    PROVE  StoppedFrom(s, d, reused, DisplayStopped(s, d, reused))
<1> DEFINE left == RemoveDisplay(s, d)
           made == CreateDisplay(left, {d})
           next == IF left.displays = <<>> THEN made ELSE left
           vt == SessionVt(s, reused)
           t == DisplayStopped(s, d, reused)
<1>1. t = IF reused # NoReuse THEN JumpToVt(next, vt)
          ELSE IF left.displays = <<>> THEN next
          ELSE JumpToVt(left, TerminalId(left.disp[Last(left.displays)]))
    BY DEF DisplayStopped
<1> HIDE DEF t
<1>2. /\ Sound(left) /\ Range(left.displays) = Range(s.displays) \ {d}
      /\ left.disp = [s.disp EXCEPT ![d] = Gone] /\ left.active = s.active
    BY RemoveSound
<1> HIDE DEF left
<1>3. s.disp \in [Ids -> Displays] /\ s.displays \in Seq(Ids)
    BY SoundParts
<1>4. \A e \in Range(s.displays) \ {d} : left.disp[e] = s.disp[e]
    BY <1>2, <1>3 DEF Range
<1>5. vt \in Vts \cup {0}
    BY SessionVtType
<1>6. reused \in Ids /\ HasSession(s.disp[reused]) => vt = s.disp[reused].sessionVt /\ vt \in Vts
    BY <1>3 DEF SessionVt, Displays
<1> HIDE DEF vt
<1>7. 0 \notin Vts /\ NoReuse \notin Ids
    BY ConstantsAssumption DEF Vts
<1>8. CASE left.displays = <<>>
    <2>1. Range(left.displays) = {}
        BY <1>8 DEF Range
    <2>2. \E n \in Ids \ {d} : n \notin Range(left.displays)
        BY <2>1, ConstantsAssumption
    <2>3. PICK n \in Ids \ {d} : CreatedFrom(left, n, made)
        BY <1>2, <2>2, CreateSound
    <2> HIDE DEF made
    <2>4. LastShown(made) /\ d \notin Range(made.displays)
        BY <2>1, <2>3 DEF LastShown, CreatedFrom
    <2>5. Range(s.displays) \ {d} = {}
        BY <1>2, <2>1
    <2>6. CASE reused # NoReuse
        <3>1. t = JumpToVt(made, vt)
            BY <1>1, <1>8, <2>6
        <3>2. /\ Sound(t) /\ t.displays = made.displays
              /\ t.active = IF vt = 0 THEN made.active ELSE vt
            BY <1>5, <2>3, <3>1, JumpSound DEF CreatedFrom
        <3> QED
            BY <1>6, <1>7, <2>3, <2>4, <2>5, <2>6, <3>2 DEF StoppedFrom, CreatedFrom, t
    <2>7. CASE reused = NoReuse
        <3>1. t = made
            BY <1>1, <1>8, <2>7
        <3> QED
            BY <1>7, <2>3, <2>4, <2>5, <2>7, <3>1 DEF StoppedFrom, CreatedFrom, t
    <2> QED
        BY <2>6, <2>7
<1>9. CASE left.displays # <<>>
    <2>1. CASE reused # NoReuse
        <3>1. t = JumpToVt(left, vt)
            BY <1>1, <1>9, <2>1
        <3>2. /\ Sound(t) /\ t.displays = left.displays /\ t.disp = left.disp
              /\ t.active = IF vt = 0 THEN left.active ELSE vt
            BY <1>2, <1>5, <3>1, JumpSound
        <3> QED
            BY <1>2, <1>4, <1>6, <1>7, <1>9, <2>1, <3>2 DEF StoppedFrom, t
    <2>2. CASE reused = NoReuse
        <3> DEFINE last == left.disp[Last(left.displays)]
        <3>1. t = JumpToVt(left, TerminalId(last))
            BY <1>1, <1>9, <2>2
        <3>2. last \in Displays
            BY <1>2, <1>9, LastListed, SoundParts
        <3> HIDE DEF last
        <3>3. TerminalId(last) \in Vts
            BY <3>2 DEF TerminalId, Displays
        <3>4. /\ Sound(t) /\ t.displays = left.displays /\ t.disp = left.disp
              /\ t.active = TerminalId(last)
            BY <1>2, <1>7, <3>1, <3>3, JumpSound
        <3>5. LastShown(t)
            BY <3>4 DEF LastShown, TerminalId, last
        <3> QED
            BY <1>2, <1>4, <1>7, <1>9, <2>2, <3>4, <3>5 DEF StoppedFrom, t
    <2> QED
        BY <2>1, <2>2
<1> QED
    BY <1>8, <1>9

\* stopped emitted twice shows what it showed the first time, or the display
\* made then.
LEMMA StopSound ==
    ASSUME NEW s, Sound(s), NEW d \in Ids
    PROVE  StoppedFrom(s, d, s.disp[d].reuse, Stop(s, d))
<1> DEFINE reused == s.disp[d].reuse
           once == DisplayStopped(s, d, reused)
           twice == DisplayStopped(once, d, reused)
<1>1. Stop(s, d) = IF s.disp[d].auth = "none" THEN once ELSE twice
    BY DEF Stop
<1>2. StoppedFrom(s, d, reused, once)
    BY StoppedOnce
<1> HIDE DEF once
<1>3. Sound(once)
    BY <1>2 DEF StoppedFrom
<1>4. StoppedFrom(once, d, reused, twice)
    BY <1>3, StoppedOnce
<1> HIDE DEF twice
<1>5. CASE s.disp[d].auth = "none"
    BY <1>1, <1>2, <1>5
<1>6. CASE s.disp[d].auth # "none"
    <2>1. \A e \in Range(s.displays) \ {d} :
            /\ e \in Range(once.displays) /\ once.disp[e] = s.disp[e]
            /\ e \in Range(twice.displays) /\ twice.disp[e] = once.disp[e]
        BY <1>2, <1>4 DEF StoppedFrom
    <2>2. reused \in Ids \ {d} /\ HasSession(s.disp[reused]) =>
            once.disp[reused] = s.disp[reused]
        <3>1. Gone.auth = "none"
            BY DEF Gone
        <3>2. reused \in Ids /\ HasSession(s.disp[reused]) => reused \in Range(s.displays)
            BY <3>1, SoundParts DEF HasSession
        <3> QED
            BY <2>1, <3>2
    <2>3. StoppedFrom(s, d, reused, twice)
        BY <1>4, <2>1, <2>2 DEF StoppedFrom
    <2> QED
        BY <1>1, <1>6, <2>3
<1> QED
    BY <1>5, <1>6

-----------------------------------------------------------------------------
(***************************************************************************)
(* Steps.  No display goes in a step, or one does and what is shown        *)
(* afterwards follows from it.                                            *)
(***************************************************************************)

StepKeeps == TypeOK' /\ Range(displays) \subseteq Range(displays')

StepStops(d) ==
    /\ TypeOK' /\ d \notin Range(displays') /\ Range(displays) \ {d} \subseteq Range(displays')
    /\ LET r == disp[d].reuse
       IN r \in Ids \ {d} /\ disp[r].auth = "session" => active' = disp[r].sessionVt
    /\ LET last == disp'[Last(displays')]
       IN disp[d].reuse = NoReuse =>
            /\ last.auth = "session" => active' = last.sessionVt
            /\ last.auth = "none" /\ last.greeter = "up" => active' = last.vt

LEMMA StateSound ==
    ASSUME TypeOK
    PROVE  /\ Sound(State) /\ State.displays = displays /\ State.disp = disp
           /\ State.active = active /\ displays # <<>>
    BY DEF TypeOK, Sound, State, States

\* What runs runs for a display that is listed.
LEMMA LiveListed ==
    ASSUME TypeOK, NEW d \in Ids, disp[d].greeter # "off" \/ disp[d].auth # "none"
    PROVE  d \in Range(displays) /\ disp[d] \in Displays
<1>1. Gone.greeter = "off" /\ Gone.auth = "none"
    BY DEF Gone
<1> QED
    BY <1>1 DEF TypeOK

\* Settling forgets sessions that have ended, and nothing else.
LEMMA Settled ==
    ASSUME NEW s, Sound(s), s.displays # <<>>, Settles(s), quietEnds' \in 0..MaxQuietEnds
    PROVE  /\ TypeOK' /\ displays' = s.displays /\ active' = s.active
           /\ \A d \in Ids : /\ disp'[d].auth = s.disp[d].auth
                             /\ disp'[d].greeter = s.disp[d].greeter
                             /\ disp'[d].vt = s.disp[d].vt
                             /\ disp'[d].sessionVt = s.disp[d].sessionVt
<1>1. /\ displays' = s.displays /\ active' = s.active
      /\ disp' = [d \in Ids |->
                    [s.disp[d] EXCEPT
                       !.reuse = IF @ \in Ids /\ ~HasSession(s.disp[@]) THEN LostSession
                                 ELSE @]]
    BY DEF Settles
<1>2. ASSUME NEW d \in Ids
      PROVE  /\ disp'[d] \in Displays /\ disp'[d].auth = s.disp[d].auth
             /\ disp'[d].greeter = s.disp[d].greeter /\ disp'[d].vt = s.disp[d].vt
             /\ disp'[d].sessionVt = s.disp[d].sessionVt
             /\ s.disp[d] = Gone => disp'[d] = Gone
    <2> DEFINE r == IF s.disp[d].reuse \in Ids /\ ~HasSession(s.disp[s.disp[d].reuse])
                    THEN LostSession ELSE s.disp[d].reuse
    <2>1. disp'[d] = [s.disp[d] EXCEPT !.reuse = r]
        BY <1>1
    <2>2. s.disp[d] \in Displays
        BY SoundParts
    <2>3. r \in {NoReuse, LostSession} \cup Ids
        BY <2>2 DEF Displays
    <2>4. Gone.reuse = NoReuse /\ NoReuse \notin Ids
        BY ConstantsAssumption DEF Gone
    <2>5. s.disp[d] = Gone => r = s.disp[d].reuse
        BY <2>4
    <2> HIDE DEF r
    <2>6. s.disp[d] = Gone => disp'[d] = Gone
        BY <2>1, <2>2, <2>5 DEF Displays
    <2> QED
        BY <2>1, <2>2, <2>3, <2>6 DEF Displays
<1>3. disp' \in [Ids -> Displays]
    <2>1. disp' = [d \in Ids |-> disp'[d]]
        BY <1>1, Zenon
    <2> QED
        BY <1>2, <2>1, Zenon
<1>4. TypeOK'
    <2>1. displays' \in Seq(Ids) \ {<<>>} /\ IsInjective(displays')
        BY <1>1, SoundParts
    <2>2. ASSUME NEW d \in Ids \ Range(displays')
          PROVE  disp'[d] = Gone
        <3>1. d \in Ids \ Range(s.displays)
            BY <1>1 DEF Range
        <3>2. s.disp[d] = Gone
            BY <3>1, SoundParts
        <3> QED
            BY <1>2, <3>2
    <2>3. active' \in Vts
        BY <1>1, SoundParts
    <2> QED
        BY <1>3, <2>1, <2>2, <2>3 DEF TypeOK
<1> QED
    BY <1>1, <1>2, <1>4

LEMMA KeepStep ==
    ASSUME TypeOK, NEW s, Sound(s), s.displays # <<>>,
           Range(displays) \subseteq Range(s.displays),
           Settles(s), quietEnds' \in 0..MaxQuietEnds
    PROVE  StepKeeps
    BY Settled DEF StepKeeps

LEMMA StopStep ==
    ASSUME TypeOK, NEW d \in Range(displays), NEW s, Sound(s), s.displays = displays,
           \A e \in Ids \ {d} : s.disp[e] = disp[e], s.disp[d].reuse = disp[d].reuse,
           Settles(Stop(s, d)), quietEnds' \in 0..MaxQuietEnds
    PROVE  StepStops(d)
<1> DEFINE t == Stop(s, d)
           r == disp[d].reuse
<1>1. d \in Ids
    BY DEF TypeOK, Range
<1>2. StoppedFrom(s, d, r, t)
    BY <1>1, StopSound
<1>3. Settles(t)
    OBVIOUS
<1> HIDE DEF t
<1>4. Sound(t) /\ t.displays # <<>>
    BY <1>2 DEF StoppedFrom
<1>5. /\ TypeOK' /\ displays' = t.displays /\ active' = t.active
      /\ \A e \in Ids : /\ disp'[e].auth = t.disp[e].auth
                        /\ disp'[e].greeter = t.disp[e].greeter
                        /\ disp'[e].vt = t.disp[e].vt
                        /\ disp'[e].sessionVt = t.disp[e].sessionVt
    BY <1>3, <1>4, Settled
<1>6. r \in Ids \ {d} /\ disp[r].auth = "session" => active' = disp[r].sessionVt
    BY <1>2, <1>5 DEF StoppedFrom, HasSession
<1>7. Last(t.displays) \in Ids
    BY <1>4, LastListed
<1>8. r = NoReuse => LastShown(t)
    BY <1>2 DEF StoppedFrom
<1>9. Range(displays) \ {d} \subseteq Range(displays') /\ d \notin Range(displays')
    BY <1>2, <1>5 DEF StoppedFrom
<1> QED
    BY <1>5, <1>6, <1>7, <1>8, <1>9 DEF StepStops, LastShown

\* A display that changes in place.
LEMMA WithState ==
    ASSUME TypeOK, NEW d \in Range(displays), NEW r \in Displays
    PROVE  /\ Sound(With(d, r)) /\ With(d, r).displays = displays
           /\ With(d, r).active = active /\ With(d, r).disp = [disp EXCEPT ![d] = r]
<1>1. Sound(State) /\ State.displays = displays /\ State.disp = disp /\ State.active = active
    BY StateSound
<1>2. d \in Range(State.displays)
    BY <1>1
<1>3. With(d, r) = [State EXCEPT !.disp[d] = r]
    BY DEF With
<1> QED
    BY <1>1, <1>2, <1>3, WithSound

\* ... in a step that is only that, and may show a terminal.
LEMMA WithStep ==
    ASSUME TypeOK, NEW d \in Range(displays), NEW r \in Displays, NEW v \in Vts,
           \/ Settles(With(d, r))
           \/ Settles(JumpToVt(With(d, r), v)),
           quietEnds' \in 0..MaxQuietEnds
    PROVE  StepKeeps
<1>1. Sound(With(d, r)) /\ With(d, r).displays = displays /\ displays # <<>>
    BY WithState, StateSound
<1>2. CASE Settles(With(d, r))
    BY <1>1, <1>2, KeepStep
<1>3. CASE Settles(JumpToVt(With(d, r), v))
    <2>1. /\ Sound(JumpToVt(With(d, r), v))
          /\ JumpToVt(With(d, r), v).displays = displays
        BY <1>1, JumpSound
    <2> QED
        BY <1>1, <1>3, <2>1, KeepStep
<1> QED
    BY <1>2, <1>3

\* ... and one that stops it.
LEMMA WithStop ==
    ASSUME TypeOK, NEW d \in Range(displays), NEW r \in Displays, r.reuse = disp[d].reuse,
           NEW v \in Vts,
           \/ Settles(Stop(With(d, r), d))
           \/ Settles(Stop(JumpToVt(With(d, r), v), d)),
           quietEnds' \in 0..MaxQuietEnds
    PROVE  StepStops(d)
<1> DEFINE s == With(d, r)
           t == JumpToVt(s, v)
<1>1. Sound(s) /\ s.displays = displays /\ s.disp = [disp EXCEPT ![d] = r]
    BY WithState
<1>2. d \in Ids /\ disp \in [Ids -> Displays]
    BY DEF TypeOK, Range
<1>3. (\A e \in Ids \ {d} : s.disp[e] = disp[e]) /\ s.disp[d].reuse = disp[d].reuse
    BY <1>1, <1>2
<1>4. CASE Settles(Stop(s, d))
    <2> HIDE DEF s
    <2> QED
        BY <1>1, <1>3, <1>4, StopStep
<1>5. CASE Settles(Stop(t, d))
    <2> HIDE DEF s
    <2>1. Sound(t) /\ t.displays = s.displays /\ t.disp = s.disp
        BY <1>1, JumpSound
    <2> HIDE DEF t
    <2> QED
        BY <1>1, <1>3, <1>5, <2>1, StopStep
<1> QED
    BY <1>4, <1>5

LEMMA QuietType ==
    ASSUME TypeOK, NEW s, Becomes(s) \/ BecomesQuietly(s)
    PROVE  Settles(s) /\ quietEnds' \in 0..MaxQuietEnds
    BY ConstantsAssumption DEF TypeOK, Becomes, BecomesQuietly

LEMMA VtTypes ==
    ASSUME TypeOK, NEW d \in Ids
    PROVE  disp[d] \in Displays /\ disp[d].vt \in Vts /\ disp[d].sessionVt \in Vts
    BY DEF TypeOK, Displays

\* A display whose login is over is one without a login.
LEMMA OverType ==
    ASSUME NEW r \in Displays
    PROVE  Over(r) \in Displays /\ Over(r).reuse = r.reuse
    BY DEF Over, Displays

LEMMA SwitchToGreeterStep ==
    ASSUME TypeOK, SwitchToGreeter
    PROVE  StepKeeps
<1>1. /\ Sound(State) /\ State.displays = displays /\ State.disp = disp /\ displays # <<>>
      /\ displays \in Seq(Ids)
    BY StateSound DEF TypeOK
<1>2. CASE \E d \in Ids : HasGreeter(disp[d]) /\ Becomes(JumpToVt(State, disp[d].vt))
    <2>1. PICK d \in Ids : Becomes(JumpToVt(State, disp[d].vt))
        BY <1>2
    <2> DEFINE t == JumpToVt(State, disp[d].vt)
    <2>2. disp[d].vt \in Vts
        BY VtTypes
    <2>3. Sound(t) /\ t.displays = displays
        BY <1>1, <2>2, JumpSound
    <2>4. Settles(t) /\ quietEnds' \in 0..MaxQuietEnds
        BY <2>1, QuietType
    <2> HIDE DEF t
    <2> QED
        BY <1>1, <2>3, <2>4, KeepStep
<1>3. CASE Ids \ Range(displays) # {} /\ Becomes(CreateDisplay(State, {}))
    <2> DEFINE t == CreateDisplay(State, {})
    <2>1. \E n \in Ids \ {} : n \notin Range(State.displays)
        BY <1>1, <1>3
    <2>2. PICK d \in Ids \ {} : CreatedFrom(State, d, t)
        BY <1>1, <2>1, CreateSound
    <2>3. Settles(t) /\ quietEnds' \in 0..MaxQuietEnds
        BY <1>3, QuietType
    <2> HIDE DEF t
    <2>4. Sound(t) /\ t.displays # <<>> /\ Range(displays) \subseteq Range(t.displays)
        BY <1>1, <2>2 DEF CreatedFrom
    <2> QED
        BY <2>3, <2>4, KeepStep
<1> QED
    BY <1>2, <1>3 DEF SwitchToGreeter

LEMMA UserSwitchesStep ==
    ASSUME TypeOK, UserSwitches
    PROVE  StepKeeps
<1>1. TypeOK'
    BY DEF TypeOK, UserSwitches
<1>2. displays' = displays
    BY DEF UserSwitches
<1> QED
    BY <1>1, <1>2 DEF StepKeeps

LEMMA GreeterSteps ==
    ASSUME TypeOK, NEW d \in Ids, GreeterOpens(d) \/ GreeterTakesVt(d) \/ StopGreeter(d)
    PROVE  StepKeeps
<1>1. /\ d \in Range(displays) /\ disp[d] \in Displays /\ disp[d].vt \in Vts
    BY LiveListed, VtTypes DEF GreeterOpens, GreeterTakesVt, StopGreeter
<1> DEFINE R(g) == [disp[d] EXCEPT !.greeter = g]
<1>2. R("opened") \in Displays /\ R("up") \in Displays /\ R("off") \in Displays
    BY <1>1 DEF Displays
<1>3. CASE GreeterOpens(d)
    <2>1. Settles(With(d, R("opened"))) /\ quietEnds' \in 0..MaxQuietEnds
        BY <1>3, QuietType DEF GreeterOpens
    <2> HIDE DEF R
    <2> QED
        BY <1>1, <1>2, <2>1, WithStep
<1>4. CASE GreeterTakesVt(d)
    <2>1. Settles(JumpToVt(With(d, R("up")), disp[d].vt)) /\ quietEnds' \in 0..MaxQuietEnds
        BY <1>4, QuietType DEF GreeterTakesVt
    <2> HIDE DEF R
    <2> QED
        BY <1>1, <1>2, <2>1, WithStep
<1>5. CASE StopGreeter(d)
    <2>1. Settles(With(d, R("off"))) /\ quietEnds' \in 0..MaxQuietEnds
        BY <1>5, QuietType DEF StopGreeter
    <2> HIDE DEF R
    <2> QED
        BY <1>1, <1>2, <2>1, WithStep
<1> QED
    BY <1>3, <1>4, <1>5

LEMMA GreeterEndSteps ==
    ASSUME TypeOK, NEW d \in Ids, GreeterTtyFails(d) \/ GreeterEnds(d)
    PROVE  StepKeeps \/ StepStops(d)
<1> DEFINE r == [disp[d] EXCEPT !.greeter = "off"]
<1>1. /\ d \in Range(displays) /\ disp[d] \in Displays /\ InitialVt \in Vts
    BY LiveListed, ConstantsAssumption DEF GreeterTtyFails, GreeterEnds, InitialVt, Vts
<1>2. r \in Displays /\ r.reuse = disp[d].reuse
    BY <1>1 DEF Displays
<1>3. CASE GreeterTtyFails(d)
    <2>1. Settles(Stop(JumpToVt(With(d, r), InitialVt), d)) /\ quietEnds' \in 0..MaxQuietEnds
        BY <1>3, QuietType DEF GreeterTtyFails
    <2> HIDE DEF r
    <2> QED
        BY <1>1, <1>2, <2>1, WithStop
<1>4. CASE GreeterEnds(d)
    <2>1. Becomes(Stop(With(d, r), d)) \/ BecomesQuietly(With(d, r))
        BY <1>4 DEF GreeterEnds
    <2> HIDE DEF r
    <2>2. CASE Becomes(Stop(With(d, r), d))
        <3>1. Settles(Stop(With(d, r), d)) /\ quietEnds' \in 0..MaxQuietEnds
            BY <2>2, QuietType
        <3> QED
            BY <1>1, <1>2, <3>1, WithStop
    <2>3. CASE BecomesQuietly(With(d, r))
        <3>1. Settles(With(d, r)) /\ quietEnds' \in 0..MaxQuietEnds
            BY <2>3, QuietType
        <3> QED
            BY <1>1, <1>2, <3>1, WithStep
    <2> QED
        BY <2>1, <2>2, <2>3
<1> QED
    BY <1>3, <1>4

LEMMA LoginStep ==
    ASSUME TypeOK, NEW d \in Ids, NEW u \in Users, Login(d, u)
    PROVE  StepKeeps
<1>1. PICK o \in IF Online(u) = {} THEN {NoReuse} ELSE Online(u) :
        Becomes(With(d, [disp[d] EXCEPT !.auth = "pam", !.user = u, !.reuse = o,
                                        !.path = @ \/ o = NoReuse,
                                        !.sessionVt = SetUpNewVt(State)]))
    BY DEF Login
<1> DEFINE r == [disp[d] EXCEPT !.auth = "pam", !.user = u, !.reuse = o,
                                !.path = @ \/ o = NoReuse,
                                !.sessionVt = SetUpNewVt(State)]
<1>2. d \in Range(displays) /\ disp[d] \in Displays /\ InitialVt \in Vts
    BY LiveListed, ConstantsAssumption DEF Login, InitialVt, Vts
<1>3. o \in {NoReuse, LostSession} \cup Ids
    BY DEF Online
<1>4. SetUpNewVt(State) \in Vts
    BY StateSound, SoundParts, NewVt
<1>5. r \in Displays
    BY <1>2, <1>3, <1>4 DEF Displays
<1>6. Settles(With(d, r)) /\ quietEnds' \in 0..MaxQuietEnds
    BY <1>1, QuietType
<1> HIDE DEF r
<1> QED
    BY <1>2, <1>5, <1>6, WithStep

LEMMA PamRejectsStep ==
    ASSUME TypeOK, NEW d \in Ids, PamRejects(d)
    PROVE  StepKeeps
<1> DEFINE r == [Over(disp[d]) EXCEPT
                    !.autologin = FALSE,
                    !.greeter = IF disp[d].autologin THEN "starting" ELSE @]
<1>1. d \in Range(displays) /\ disp[d] \in Displays /\ InitialVt \in Vts
    BY LiveListed, ConstantsAssumption DEF PamRejects, InitialVt, Vts
<1>2. r \in Displays
    BY <1>1, OverType DEF Displays
<1>3. Settles(With(d, r)) /\ quietEnds' \in 0..MaxQuietEnds
    BY QuietType DEF PamRejects
<1> HIDE DEF r
<1> QED
    BY <1>1, <1>2, <1>3, WithStep

\* The session to reuse is shown at once, and with none to start the display
\* goes.
LEMMA PamAcceptsStep ==
    ASSUME TypeOK, NEW d \in Ids, PamAccepts(d)
    PROVE  StepKeeps \/ StepStops(d)
<1> DEFINE shown == JumpToVt(State, SessionVt(State, disp[d].reuse))
           s == [shown EXCEPT !.disp[d].auth = "opened"]
           t == [shown EXCEPT !.disp[d] = Over(@)]
           r == [disp[d] EXCEPT !.auth = "opened"]
           o == Over(disp[d])
<1>1. d \in Range(displays) /\ disp[d] \in Displays
    BY LiveListed DEF PamAccepts
<1>2. Sound(State) /\ State.displays = displays /\ State.disp = disp /\ displays # <<>>
    BY StateSound
<1>3. Becomes(s) \/ Becomes(Stop(t, d))
    BY DEF PamAccepts
<1>4. Sound(shown) /\ shown.displays = displays /\ shown.disp = disp
    BY <1>2, SessionVtType, JumpSound
<1> HIDE DEF shown
<1>5. s = [shown EXCEPT !.disp[d] = r] /\ t = [shown EXCEPT !.disp[d] = o]
    BY <1>4
<1> HIDE DEF s, t
<1>6. r \in Displays /\ o \in Displays /\ o.reuse = disp[d].reuse
    BY <1>1, OverType DEF Displays
<1> HIDE DEF r, o
<1>7. Sound(s) /\ s.displays = displays /\ Sound(t) /\ t.displays = displays
      /\ t.disp = [disp EXCEPT ![d] = o]
    BY <1>1, <1>4, <1>5, <1>6, WithSound
<1>8. CASE Becomes(s)
    <2>1. Settles(s) /\ quietEnds' \in 0..MaxQuietEnds
        BY <1>8, QuietType
    <2> QED
        BY <1>2, <1>7, <2>1, KeepStep
<1>9. CASE Becomes(Stop(t, d))
    <2>1. Settles(Stop(t, d)) /\ quietEnds' \in 0..MaxQuietEnds
        BY <1>9, QuietType
    <2>2. (\A e \in Ids \ {d} : t.disp[e] = disp[e]) /\ t.disp[d].reuse = disp[d].reuse
        BY <1>2, <1>6, <1>7, SoundParts
    <2> QED
        BY <1>1, <1>7, <2>1, <2>2, StopStep
<1> QED
    BY <1>3, <1>8, <1>9

LEMMA SessionTakesVtStep ==
    ASSUME TypeOK, NEW d \in Ids, SessionTakesVt(d)
    PROVE  StepKeeps
<1> DEFINE r == [disp[d] EXCEPT !.auth = "session"]
<1>1. d \in Range(displays) /\ disp[d] \in Displays /\ disp[d].sessionVt \in Vts
    BY LiveListed, VtTypes DEF SessionTakesVt
<1>2. r \in Displays
    BY <1>1 DEF Displays
<1>3. Settles(JumpToVt(With(d, r), disp[d].sessionVt)) /\ quietEnds' \in 0..MaxQuietEnds
    BY QuietType DEF SessionTakesVt
<1> HIDE DEF r
<1> QED
    BY <1>1, <1>2, <1>3, WithStep

LEMMA SessionEndSteps ==
    ASSUME TypeOK, NEW d \in Ids, SessionTtyFails(d) \/ HelperEnds(d)
    PROVE  StepKeeps \/ StepStops(d)
<1> DEFINE r == Over(disp[d])
<1>1. /\ d \in Range(displays) /\ disp[d] \in Displays /\ InitialVt \in Vts
    BY LiveListed, ConstantsAssumption
       DEF SessionTtyFails, HelperEnds, HasSession, InitialVt, Vts
<1>2. r \in Displays /\ r.reuse = disp[d].reuse
    BY <1>1, OverType
<1>3. Becomes(Stop(With(d, r), d)) \/ BecomesQuietly(With(d, r))
    BY DEF SessionTtyFails, HelperEnds, Ended
<1> HIDE DEF r
<1>4. CASE Becomes(Stop(With(d, r), d))
    <2>1. Settles(Stop(With(d, r), d)) /\ quietEnds' \in 0..MaxQuietEnds
        BY <1>4, QuietType
    <2> QED
        BY <1>1, <1>2, <2>1, WithStop
<1>5. CASE BecomesQuietly(With(d, r))
    <2>1. Settles(With(d, r)) /\ quietEnds' \in 0..MaxQuietEnds
        BY <1>5, QuietType
    <2> QED
        BY <1>1, <1>2, <2>1, WithStep
<1> QED
    BY <1>3, <1>4, <1>5

LEMMA InitType ==
    ASSUME Init
    PROVE  TypeOK
<1>1. PICK first \in Ids, u \in Users \cup {Nobody} :
        /\ displays = <<first>>
        /\ disp = [d \in Ids |-> IF d = first THEN NewDisplay(InitialVt, u) ELSE Gone]
    BY DEF Init
<1>2. InitialVt \in Vts
    BY ConstantsAssumption DEF InitialVt, Vts
<1>3. disp \in [Ids -> Displays]
    BY <1>1, <1>2, GoneType, NewDisplayType
<1>4. displays \in Seq(Ids) \ {<<>>} /\ DOMAIN displays = {1} /\ displays[1] = first
    BY <1>1
<1>5. IsInjective(displays) /\ Range(displays) = {first}
    BY <1>4 DEF IsInjective, Range
<1>6. \A d \in Ids \ Range(displays) : disp[d] = Gone
    BY <1>1, <1>5
<1> QED
    BY <1>2, <1>3, <1>4, <1>5, <1>6, ConstantsAssumption DEF Init, TypeOK

\* What every step does.
LEMMA Steps ==
    ASSUME TypeOK, [Next]_vars
    PROVE  StepKeeps \/ \E d \in Ids : StepStops(d)
<1>1. CASE SwitchToGreeter \/ UserSwitches
    BY <1>1, SwitchToGreeterStep, UserSwitchesStep
<1>2. ASSUME NEW d \in Ids,
             \/ GreeterOpens(d) \/ GreeterTakesVt(d) \/ StopGreeter(d)
             \/ PamRejects(d) \/ SessionTakesVt(d)
             \/ \E u \in Users : Login(d, u)
      PROVE  StepKeeps
    BY <1>2, GreeterSteps, PamRejectsStep, SessionTakesVtStep, LoginStep, Zenon
<1>3. ASSUME NEW d \in Ids,
             \/ GreeterTtyFails(d) \/ GreeterEnds(d) \/ PamAccepts(d)
             \/ SessionTtyFails(d) \/ HelperEnds(d)
      PROVE  StepKeeps \/ StepStops(d)
    BY <1>3, GreeterEndSteps, PamAcceptsStep, SessionEndSteps, Zenon
<1>4. CASE UNCHANGED vars
    <2>1. TypeOK'
        BY <1>4 DEF TypeOK, vars
    <2>2. displays' = displays
        BY <1>4 DEF vars
    <2> QED
        BY <2>1, <2>2 DEF StepKeeps
<1> QED
    BY <1>1, <1>2, <1>3, <1>4, Zenon DEF Next

-----------------------------------------------------------------------------
(***************************************************************************)
(* Theorems                                                               *)
(***************************************************************************)

\* The seat always has a display, a display is listed once, and nothing runs for
\* a display that is not listed (m_displays).
THEOREM TypeCorrect == Spec => []TypeOK
<1>1. Init => TypeOK
    BY InitType
<1>2. TypeOK /\ [Next]_vars => TypeOK'
    BY Steps DEF StepKeeps, StepStops
<1> QED
    BY <1>1, <1>2, PTL DEF Spec

\* When a display goes that unlocked a running session, that session is in the
\* foreground (Seat::displayStopped, also when it is called twice).
THEOREM ReusedShown == Spec => ReturnsToReused
<1> DEFINE Returns ==
      \A d \in Range(displays) :
         LET r == disp[d].reuse
         IN /\ d \notin Range(displays')
            /\ r \in Ids \ {d} /\ disp[r].auth = "session" /\ disp'[r].auth = "session"
            => active' = disp[r].sessionVt
<1>1. TypeOK /\ [Next]_vars => Returns
    <2> SUFFICES ASSUME TypeOK, [Next]_vars, NEW d \in Range(displays),
                        d \notin Range(displays'), disp[d].reuse \in Ids \ {d},
                        disp[disp[d].reuse].auth = "session"
                 PROVE  active' = disp[disp[d].reuse].sessionVt
        OBVIOUS
    <2>1. StepStops(d)
        BY Steps DEF StepKeeps, StepStops
    <2> QED
        BY <2>1 DEF StepStops
<1>2. [Next]_vars /\ TypeOK => [Returns]_displays
    BY <1>1
<1> QED
    BY <1>2, TypeCorrect, PTL DEF Spec, ReturnsToReused

\* When any other display goes, the last one listed is shown, its session before
\* its greeter (Seat::displayStopped, Display::terminalId).  A last display with a
\* login at PAM, whose terminal nobody has opened yet, is left out.
THEOREM LastIsShown == Spec => FollowsLast
<1> DEFINE Follows ==
      \A d \in Range(displays) \ Range(displays') :
         LET last == disp'[Last(displays')]
         IN disp[d].reuse = NoReuse =>
              /\ last.auth = "session" => active' = last.sessionVt
              /\ last.auth = "none" /\ last.greeter = "up" => active' = last.vt
<1>1. TypeOK /\ [Next]_vars => Follows
    <2> SUFFICES ASSUME TypeOK, [Next]_vars, NEW d \in Range(displays) \ Range(displays')
                 PROVE  LET last == disp'[Last(displays')]
                        IN disp[d].reuse = NoReuse =>
                             /\ last.auth = "session" => active' = last.sessionVt
                             /\ last.auth = "none" /\ last.greeter = "up" =>
                                  active' = last.vt
        OBVIOUS
    <2>1. StepStops(d)
        BY Steps DEF StepKeeps, StepStops
    <2> QED
        BY <2>1 DEF StepStops
<1>2. [Next]_vars /\ TypeOK => [Follows]_displays
    BY <1>1
<1> QED
    BY <1>2, TypeCorrect, PTL DEF Spec, FollowsLast

=============================================================================
