-------------------------- MODULE GreeterUiProofs --------------------------
(***************************************************************************)
(* Theorems about the greeter's windows (GreeterUi), for any screens and   *)
(* any users.  The copies of the shared state are only right together      *)
(* with what the screens and prompts that are not shown hold: Hidden says  *)
(* they hold no password.  ListedOwn says whose password the list holds,   *)
(* before it is submitted.                                                 *)
(***************************************************************************)
EXTENDS GreeterUi, TLAPS

Pairs == [s: Shareds, w: [Screens -> WindowStates]]

\* What a change of the copies of the name, or of the windows, leaves alone.
SameShared(s, t) ==
    /\ t.beyondUserLimit = s.beyondUserLimit /\ t.loginState = s.loginState
    /\ t.user = s.user /\ t.userListPassword = s.userListPassword
    /\ t.userPromptPassword = s.userPromptPassword
SamePasswords(v, w) ==
    \A x \in Screens :
        /\ w[x].shown = v[x].shown /\ w[x].prompt = v[x].prompt
        /\ w[x].base.password = v[x].base.password
        /\ w[x].top.password = v[x].top.password

ActiveShown(s, w) == s.active # NoScreen => w[s.active].shown

\* BoxesAgree of any pair.
Agree(s, w) ==
    \A x \in Screens : w[x].shown =>
        /\ w[x].base.password =
              IF s.beyondUserLimit THEN s.userPromptPassword ELSE s.userListPassword
        /\ w[x].prompt => w[x].top.password = s.userPromptPassword

\* What is not shown holds no password.
Hidden(w) ==
    \A x \in Screens :
        /\ ~w[x].shown => w[x].base.password = Empty /\ ~w[x].prompt
        /\ ~w[x].prompt => w[x].top.password = Empty

Good(p) == p \in Pairs /\ ActiveShown(p.s, p.w) /\ Agree(p.s, p.w) /\ Hidden(p.w)

\* The list holds no password but that of the user selected in it.
ListedOwn == ~sent.late => shared.userListPassword \in {Empty, shared.user}

\* What the handlers of the timer keep, of the shared state alone.
NotInhibited == timer => ~inhibitGreeterTimeout(shared)

IInv ==
    /\ TypeOK /\ BoxesAgree /\ Hidden(windows)
    /\ ListedOwn /\ NotInhibited /\ PasswordForListedUser

-----------------------------------------------------------------------------
(***************************************************************************)
(* The operators on the shared state and its copies                       *)
(***************************************************************************)

LEMMA PairWith ==
    ASSUME NEW p \in Pairs, NEW w
    PROVE  [p EXCEPT !.w = w] = [s |-> p.s, w |-> w]
    BY DEF Pairs

LEMMA PasswordBox ==
    ASSUME NEW b \in Boxes, NEW v \in Passwords
    PROVE  /\ [b EXCEPT !["password"] = v] \in Boxes
           /\ [b EXCEPT !["password"] = v].password = v
    BY DEF Boxes

LEMMA NameBox ==
    ASSUME NEW b \in Boxes, NEW v \in Texts
    PROVE  /\ [b EXCEPT !["name"] = v] \in Boxes
           /\ [b EXCEPT !["name"] = v].password = b.password
    BY DEF Boxes

\* A password copied to the boxes of its kind: which boxes get it, and that
\* nothing else of a window changes (the bindings of Login.qml's sync).
LEMMA CopiedPassword ==
    ASSUME NEW p \in Pairs, NEW listed \in BOOLEAN, NEW v \in Passwords
    PROVE  LET c == Copied(p, listed, "password", v)
           IN /\ c \in [Screens -> WindowStates]
              /\ \A x \in Screens :
                   /\ c[x].shown = p.w[x].shown /\ c[x].prompt = p.w[x].prompt
                   /\ c[x].base.password =
                        IF p.w[x].shown /\ p.s.beyondUserLimit # listed THEN v
                        ELSE p.w[x].base.password
                   /\ c[x].top.password =
                        IF p.w[x].prompt /\ ~listed THEN v ELSE p.w[x].top.password
<1> DEFINE c == Copied(p, listed, "password", v)
<1>1. p.w \in [Screens -> WindowStates]
    BY DEF Pairs
<1>2. c = [x \in Screens |-> c[x]]
    BY DEF Copied
<1>3. ASSUME NEW x \in Screens
      PROVE  /\ c[x] \in WindowStates
             /\ c[x].shown = p.w[x].shown /\ c[x].prompt = p.w[x].prompt
             /\ c[x].base.password =
                  IF p.w[x].shown /\ p.s.beyondUserLimit # listed THEN v
                  ELSE p.w[x].base.password
             /\ c[x].top.password =
                  IF p.w[x].prompt /\ ~listed THEN v ELSE p.w[x].top.password
    <2> DEFINE old == p.w[x]
    <2> DEFINE base == IF old.shown /\ p.s.beyondUserLimit # listed
                       THEN [old.base EXCEPT !["password"] = v] ELSE old.base
    <2> DEFINE top == IF old.prompt /\ ~listed
                      THEN [old.top EXCEPT !["password"] = v] ELSE old.top
    <2>1. old \in WindowStates
        BY <1>1
    <2>2. old.base \in Boxes /\ old.top \in Boxes
        BY <2>1 DEF WindowStates
    <2>3. /\ base \in Boxes
          /\ base.password = IF old.shown /\ p.s.beyondUserLimit # listed THEN v
                             ELSE old.base.password
        BY <2>2, PasswordBox
    <2>4. /\ top \in Boxes
          /\ top.password = IF old.prompt /\ ~listed THEN v ELSE old.top.password
        BY <2>2, PasswordBox
    <2>5. c[x] = [[old EXCEPT !.base = base] EXCEPT !.top = top]
        BY <2>1 DEF Copied, WindowStates
    <2> HIDE DEF base, top, old, c
    <2>6. /\ c[x] \in WindowStates /\ c[x].base = base /\ c[x].top = top
          /\ c[x].shown = old.shown /\ c[x].prompt = old.prompt
        BY <2>1, <2>3, <2>4, <2>5 DEF WindowStates
    <2> QED
        BY <2>3, <2>4, <2>6 DEF old
<1> HIDE DEF c
<1>4. c \in [Screens -> WindowStates]
    BY <1>2, <1>3, Zenon
<1> QED
    BY <1>3, <1>4, Zenon DEF c

\* A name copied to the inputs of the prompt changes no password.
LEMMA CopiedName ==
    ASSUME NEW p \in Pairs, NEW v \in Texts
    PROVE  LET c == Copied(p, FALSE, "name", v)
           IN /\ c \in [Screens -> WindowStates]
              /\ \A x \in Screens :
                   /\ c[x].shown = p.w[x].shown /\ c[x].prompt = p.w[x].prompt
                   /\ c[x].base.password = p.w[x].base.password
                   /\ c[x].top.password = p.w[x].top.password
<1> DEFINE c == Copied(p, FALSE, "name", v)
<1>1. p.w \in [Screens -> WindowStates]
    BY DEF Pairs
<1>2. c = [x \in Screens |-> c[x]]
    BY DEF Copied
<1>3. ASSUME NEW x \in Screens
      PROVE  /\ c[x] \in WindowStates
             /\ c[x].shown = p.w[x].shown /\ c[x].prompt = p.w[x].prompt
             /\ c[x].base.password = p.w[x].base.password
             /\ c[x].top.password = p.w[x].top.password
    <2> DEFINE old == p.w[x]
    <2> DEFINE base == IF old.shown /\ p.s.beyondUserLimit # FALSE
                       THEN [old.base EXCEPT !["name"] = v] ELSE old.base
    <2> DEFINE top == IF old.prompt /\ ~FALSE
                      THEN [old.top EXCEPT !["name"] = v] ELSE old.top
    <2>1. old \in WindowStates
        BY <1>1
    <2>2. old.base \in Boxes /\ old.top \in Boxes
        BY <2>1 DEF WindowStates
    <2>3. base \in Boxes /\ base.password = old.base.password
        BY <2>2, NameBox
    <2>4. top \in Boxes /\ top.password = old.top.password
        BY <2>2, NameBox
    <2>5. c[x] = [[old EXCEPT !.base = base] EXCEPT !.top = top]
        BY <2>1 DEF Copied, WindowStates
    <2> HIDE DEF base, top, old, c
    <2>6. /\ c[x] \in WindowStates /\ c[x].base = base /\ c[x].top = top
          /\ c[x].shown = old.shown /\ c[x].prompt = old.prompt
        BY <2>1, <2>3, <2>4, <2>5 DEF WindowStates
    <2> QED
        BY <2>3, <2>4, <2>6 DEF old
<1> HIDE DEF c
<1>4. c \in [Screens -> WindowStates]
    BY <1>2, <1>3, Zenon
<1> QED
    BY <1>3, <1>4, Zenon DEF c

LEMMA ListPasswordSet ==
    ASSUME NEW p, Good(p), NEW v \in Passwords
    PROVE  LET q == SetListPassword(p, v)
           IN Good(q) /\ q.s = [p.s EXCEPT !.userListPassword = v]
<1> DEFINE s == [p.s EXCEPT !.userListPassword = v]
           w == Copied(p, TRUE, "password", v)
           q == [s |-> s, w |-> w]
<1>1. p \in Pairs /\ p.s \in Shareds /\ p.w \in [Screens -> WindowStates]
    BY DEF Good, Pairs
<1>2. /\ w \in [Screens -> WindowStates]
      /\ \A x \in Screens :
           /\ w[x].shown = p.w[x].shown /\ w[x].prompt = p.w[x].prompt
           /\ w[x].base.password =
                IF p.w[x].shown /\ p.s.beyondUserLimit # TRUE THEN v
                ELSE p.w[x].base.password
           /\ w[x].top.password =
                IF p.w[x].prompt /\ ~TRUE THEN v ELSE p.w[x].top.password
    BY <1>1, CopiedPassword, Zenon
<1>3. /\ s \in Shareds /\ s.userListPassword = v
      /\ s.userPromptPassword = p.s.userPromptPassword
      /\ s.beyondUserLimit = p.s.beyondUserLimit /\ s.active = p.s.active
    BY <1>1 DEF Shareds
<1>4. p.s.active \in Screens \cup {NoScreen} /\ p.s.beyondUserLimit \in BOOLEAN
    BY <1>1 DEF Shareds
<1>5. SetListPassword(p, v) = q
    BY DEF SetListPassword
<1> HIDE DEF s, w
<1>6. q \in Pairs /\ q.s = s /\ q.w = w
    BY <1>2, <1>3 DEF Pairs
<1>7. ActiveShown(s, w)
    BY <1>2, <1>3, <1>4 DEF Good, ActiveShown
<1>8. Agree(s, w)
    BY <1>2, <1>3, <1>4 DEF Good, Agree
<1>9. Hidden(w)
    BY <1>2 DEF Good, Hidden
<1> HIDE DEF q
<1>10. Good(q)
    BY <1>6, <1>7, <1>8, <1>9 DEF Good
<1> QED
    BY <1>5, <1>6, <1>10 DEF s

LEMMA PromptPasswordSet ==
    ASSUME NEW p, Good(p), NEW v \in Passwords
    PROVE  LET q == SetPromptPassword(p, v)
           IN Good(q) /\ q.s = [p.s EXCEPT !.userPromptPassword = v]
<1> DEFINE s == [p.s EXCEPT !.userPromptPassword = v]
           w == Copied(p, FALSE, "password", v)
           q == [s |-> s, w |-> w]
<1>1. p \in Pairs /\ p.s \in Shareds /\ p.w \in [Screens -> WindowStates]
    BY DEF Good, Pairs
<1>2. /\ w \in [Screens -> WindowStates]
      /\ \A x \in Screens :
           /\ w[x].shown = p.w[x].shown /\ w[x].prompt = p.w[x].prompt
           /\ w[x].base.password =
                IF p.w[x].shown /\ p.s.beyondUserLimit # FALSE THEN v
                ELSE p.w[x].base.password
           /\ w[x].top.password =
                IF p.w[x].prompt /\ ~FALSE THEN v ELSE p.w[x].top.password
    BY <1>1, CopiedPassword, Zenon
<1>3. /\ s \in Shareds /\ s.userPromptPassword = v
      /\ s.userListPassword = p.s.userListPassword
      /\ s.beyondUserLimit = p.s.beyondUserLimit /\ s.active = p.s.active
    BY <1>1 DEF Shareds
<1>4. p.s.active \in Screens \cup {NoScreen} /\ p.s.beyondUserLimit \in BOOLEAN
    BY <1>1 DEF Shareds
<1>5. SetPromptPassword(p, v) = q
    BY DEF SetPromptPassword
<1> HIDE DEF s, w
<1>6. q \in Pairs /\ q.s = s /\ q.w = w
    BY <1>2, <1>3 DEF Pairs
<1>7. ActiveShown(s, w)
    BY <1>2, <1>3, <1>4 DEF Good, ActiveShown
<1>8. Agree(s, w)
    BY <1>2, <1>3, <1>4 DEF Good, Agree
<1>9. Hidden(w)
    BY <1>2 DEF Good, Hidden
<1> HIDE DEF q
<1>10. Good(q)
    BY <1>6, <1>7, <1>8, <1>9 DEF Good
<1> QED
    BY <1>5, <1>6, <1>10 DEF s

\* clearPasswords in two steps, the list's password last.
LEMMA Cleared ==
    ASSUME NEW p, Good(p)
    PROVE  LET q == clearPasswords(p)
           IN /\ Good(q)
              /\ q.s.userListPassword = Empty /\ q.s.userPromptPassword = Empty
              /\ q.s.loginState = p.s.loginState /\ q.s.user = p.s.user
<1> DEFINE m == SetPromptPassword(p, Empty)
           q == SetListPassword(m, Empty)
<1>1. Empty \in Passwords
    BY DEF Passwords
<1>2. Good(m) /\ m.s = [p.s EXCEPT !.userPromptPassword = Empty]
    BY <1>1, PromptPasswordSet
<1>3. q = clearPasswords(p)
    BY DEF clearPasswords
<1> HIDE DEF m
<1>4. Good(q) /\ q.s = [m.s EXCEPT !.userListPassword = Empty]
    BY <1>1, <1>2, ListPasswordSet
<1> HIDE DEF q
<1>5. p.s \in Shareds /\ m.s \in Shareds
    BY <1>2 DEF Good, Pairs
<1>6. /\ m.s.userPromptPassword = Empty /\ m.s.loginState = p.s.loginState
      /\ m.s.user = p.s.user
    BY <1>2, <1>5 DEF Shareds
<1>7. /\ q.s.userListPassword = Empty /\ q.s.userPromptPassword = m.s.userPromptPassword
      /\ q.s.loginState = m.s.loginState /\ q.s.user = m.s.user
    BY <1>4, <1>5 DEF Shareds
<1> QED
    BY <1>3, <1>4, <1>6, <1>7

LEMMA SameIsGood ==
    ASSUME NEW p, NEW q \in Pairs, Good(p), SameShared(p.s, q.s), SamePasswords(p.w, q.w),
           q.s.active = p.s.active
    PROVE  Good(q)
<1>1. p.s.active \in Screens \cup {NoScreen}
    BY DEF Good, Pairs, Shareds
<1>2. ActiveShown(q.s, q.w)
    BY <1>1 DEF Good, ActiveShown, SamePasswords
<1>3. Agree(q.s, q.w)
    BY DEF Good, Agree, SamePasswords, SameShared
<1>4. Hidden(q.w)
    BY DEF Good, Hidden, SamePasswords
<1> QED
    BY <1>2, <1>3, <1>4 DEF Good

\* A name moves no password.
LEMMA NameSet ==
    ASSUME NEW p \in Pairs, NEW v \in Texts
    PROVE  LET q == SetName(p, v)
           IN /\ q \in Pairs /\ SameShared(p.s, q.s) /\ SamePasswords(p.w, q.w)
              /\ q.s.active = p.s.active
<1> DEFINE s == [p.s EXCEPT !.userPromptUsername = v]
           w == Copied(p, FALSE, "name", v)
           q == [s |-> s, w |-> w]
<1>1. p.s \in Shareds
    BY DEF Pairs
<1>2. /\ w \in [Screens -> WindowStates]
      /\ \A x \in Screens :
           /\ w[x].shown = p.w[x].shown /\ w[x].prompt = p.w[x].prompt
           /\ w[x].base.password = p.w[x].base.password
           /\ w[x].top.password = p.w[x].top.password
    BY CopiedName, Zenon
<1>3. s \in Shareds /\ SameShared(p.s, s) /\ s.active = p.s.active
    BY <1>1 DEF Shareds, SameShared
<1>4. SetName(p, v) = q
    BY DEF SetName
<1> HIDE DEF s, w
<1>5. q \in Pairs /\ q.s = s /\ q.w = w
    BY <1>2, <1>3 DEF Pairs
<1>6. SamePasswords(p.w, w)
    BY <1>2 DEF SamePasswords
<1> HIDE DEF q
<1> QED
    BY <1>3, <1>4, <1>5, <1>6

\* A prompt that is made takes the last user's name, and gives it to the others.
LEMMA NamedKeeps ==
    ASSUME NEW p \in Pairs, config \in Texts
    PROVE  LET q == Named(p)
           IN /\ q \in Pairs /\ SameShared(p.s, q.s) /\ SamePasswords(p.w, q.w)
              /\ q.s.active = p.s.active
<1>1. CASE config = Empty
    BY <1>1 DEF Named, SameShared, SamePasswords
<1>2. CASE config # Empty
    <2>1. Named(p) = SetName(p, config)
        BY <1>2 DEF Named
    <2> QED
        BY <2>1, NameSet
<1> QED
    BY <1>1, <1>2

\* A new window begins with what the others show.
LEMMA AddedGood ==
    ASSUME NEW p, Good(p), NEW x \in Screens, ~p.w[x].shown, config \in Texts
    PROVE  LET q == Added(p, x)
           IN Good(q) /\ SameShared(p.s, q.s)
<1> DEFINE fresh == [NoWindow EXCEPT !.shown = TRUE]
           mw == [p.w EXCEPT ![x] = fresh]
           made == [s |-> p.s, w |-> mw]
           n == IF p.s.beyondUserLimit THEN Named(made) ELSE made
           pw == IF n.s.beyondUserLimit THEN n.s.userPromptPassword
                 ELSE n.s.userListPassword
           win == [n.w[x] EXCEPT !.base = [@ EXCEPT !["password"] = pw]]
           q == [s |-> n.s, w |-> [n.w EXCEPT ![x] = win]]
<1>1. /\ p \in Pairs /\ p.s \in Shareds /\ p.w \in [Screens -> WindowStates]
      /\ p = [s |-> p.s, w |-> p.w] /\ p.s.beyondUserLimit \in BOOLEAN
    BY DEF Good, Pairs, Shareds
<1>2. /\ fresh \in WindowStates /\ fresh.shown /\ ~fresh.prompt
      /\ fresh.base.password = Empty /\ fresh.top.password = Empty
    BY DEF NoWindow, Blank, WindowStates, Boxes, Texts, Passwords
<1>3. made = [p EXCEPT !.w[x] = fresh]
    <2> HIDE DEF mw
    <2>1. [p EXCEPT !.w = mw] = made
        BY <1>1, PairWith, Zenon
    <2> QED
        BY <2>1 DEF mw
<1> HIDE DEF fresh
<1>4. /\ mw \in [Screens -> WindowStates] /\ mw[x] = fresh
      /\ \A y \in Screens : y # x => mw[y] = p.w[y]
    BY <1>1, <1>2
<1> HIDE DEF mw
<1>5. made \in Pairs /\ made.s = p.s /\ made.w = mw
    BY <1>1, <1>4 DEF Pairs
<1>6. /\ Named(made) \in Pairs /\ SameShared(made.s, Named(made).s)
      /\ SamePasswords(made.w, Named(made).w) /\ Named(made).s.active = made.s.active
    BY <1>5, NamedKeeps
<1>7. /\ n \in Pairs /\ SameShared(p.s, n.s) /\ SamePasswords(mw, n.w)
      /\ n.s.active = p.s.active
    BY <1>5, <1>6 DEF SameShared, SamePasswords
<1>8. /\ n = [s |-> n.s, w |-> n.w] /\ n.s \in Shareds /\ n.w \in [Screens -> WindowStates]
      /\ n.s.beyondUserLimit \in BOOLEAN
    <2> HIDE DEF n
    <2> QED
        BY <1>7 DEF Pairs, Shareds
<1>9. Added(p, x) = WithPassword(n, x, "base")
    BY <1>3 DEF Added, fresh
<1> HIDE DEF n, made
<1>10. WithPassword(n, x, "base") = [n EXCEPT !.w = [n.w EXCEPT ![x] = win]]
    BY <1>8 DEF WithPassword
<1>11. q = [n EXCEPT !.w = [n.w EXCEPT ![x] = win]]
    BY <1>8
<1>12. /\ win \in WindowStates /\ win.base.password = pw
       /\ win.shown = n.w[x].shown /\ win.prompt = n.w[x].prompt /\ win.top = n.w[x].top
    <2>1. n.w[x] \in WindowStates /\ n.w[x].base \in Boxes
        BY <1>8 DEF WindowStates
    <2>2. pw \in Passwords
        BY <1>8 DEF Shareds
    <2> HIDE DEF pw
    <2>3. /\ [n.w[x].base EXCEPT !["password"] = pw] \in Boxes
          /\ [n.w[x].base EXCEPT !["password"] = pw].password = pw
        BY <2>1, <2>2, PasswordBox
    <2> QED
        BY <2>1, <2>3 DEF WindowStates
<1> HIDE DEF win
<1>13. /\ q \in Pairs /\ q.s = n.s /\ q.w[x] = win
       /\ \A y \in Screens : y # x => q.w[y] = n.w[y]
    BY <1>8, <1>12 DEF Pairs
<1> HIDE DEF q
<1>14. ActiveShown(q.s, q.w)
    <2>1. p.s.active \in Screens \cup {NoScreen}
        BY <1>1 DEF Shareds
    <2> QED
        BY <2>1, <1>4, <1>7, <1>13 DEF Good, ActiveShown, SamePasswords
<1>15. Agree(q.s, q.w)
    BY <1>2, <1>4, <1>7, <1>12, <1>13 DEF Good, Agree, SamePasswords, SameShared
<1>16. Hidden(q.w)
    BY <1>2, <1>4, <1>7, <1>12, <1>13 DEF Good, Hidden, SamePasswords
<1>17. Good(q)
    BY <1>13, <1>14, <1>15, <1>16 DEF Good
<1> QED
    BY <1>7, <1>9, <1>10, <1>11, <1>13, <1>17

\* "Other...": every window without a prompt gets one that shows the prompt's
\* password.
LEMMA PushedGood ==
    ASSUME NEW p, Good(p), config \in Texts
    PROVE  LET q == Pushed(p)
           IN Good(q) /\ SameShared(p.s, q.s)
<1> DEFINE Push == {x \in Screens : p.w[x].shown /\ ~p.w[x].prompt}
           w == [x \in Screens |->
                    IF x \in Push
                    THEN [p.w[x] EXCEPT !.prompt = TRUE,
                                        !.top.password = p.s.userPromptPassword]
                    ELSE p.w[x]]
           m == [s |-> p.s, w |-> w]
<1>1. /\ p \in Pairs /\ p.s \in Shareds /\ p.w \in [Screens -> WindowStates]
      /\ p = [s |-> p.s, w |-> p.w] /\ p.s.userPromptPassword \in Passwords
    BY DEF Good, Pairs, Shareds
<1>2. ASSUME NEW x \in Screens
      PROVE  /\ w[x] \in WindowStates /\ w[x].shown = p.w[x].shown
             /\ w[x].base = p.w[x].base
             /\ x \in Push => w[x].prompt /\ w[x].top.password = p.s.userPromptPassword
             /\ x \notin Push => w[x] = p.w[x]
    <2>1. p.w[x] \in WindowStates
        BY <1>1
    <2>2. CASE x \in Push
        BY <1>1, <2>1, <2>2 DEF WindowStates, Boxes
    <2>3. CASE x \notin Push
        BY <2>1, <2>3
    <2> QED
        BY <2>2, <2>3
<1>3. Push = {} => Pushed(p) = p
    BY Zenon DEF Pushed
<1>4. Push # {} => Pushed(p) = Named(m)
    <2>1. ASSUME NEW v
          PROVE  [p EXCEPT !.w = v] = [s |-> p.s, w |-> v]
        BY <1>1, PairWith
    <2> QED
        BY <2>1, Zenon DEF Pushed
<1>5. w \in [Screens -> WindowStates]
    <2>1. \A x \in Screens : w[x] \in WindowStates
        BY <1>2, Zenon
    <2>2. w = [x \in Screens |-> w[x]]
        OBVIOUS
    <2> HIDE DEF w
    <2> QED
        BY <2>1, <2>2, Zenon
<1>6. \A x \in Screens : x \in Push <=> p.w[x].shown /\ ~p.w[x].prompt
    OBVIOUS
<1> HIDE DEF w, Push
<1>7. m \in Pairs /\ m.s = p.s /\ m.w = w
    BY <1>1, <1>5 DEF Pairs
<1> HIDE DEF m
<1>8. Good(m)
    <2>1. p.s.active \in Screens \cup {NoScreen}
        BY <1>1 DEF Shareds
    <2>2. ActiveShown(m.s, m.w)
        BY <1>2, <1>7, <2>1 DEF Good, ActiveShown
    <2>3. Agree(m.s, m.w)
        BY <1>2, <1>6, <1>7 DEF Good, Agree
    <2>4. Hidden(m.w)
        BY <1>2, <1>6, <1>7 DEF Good, Hidden
    <2> QED
        BY <1>7, <2>2, <2>3, <2>4 DEF Good
<1>9. Good(Named(m)) /\ SameShared(m.s, Named(m).s)
    BY <1>7, <1>8, NamedKeeps, SameIsGood
<1>10. SameShared(p.s, p.s)
    BY DEF SameShared
<1> QED
    BY <1>3, <1>4, <1>7, <1>9, <1>10

\* "List Users": the item under the prompt held the list's password all along.
LEMMA PoppedGood ==
    ASSUME NEW p, Good(p)
    PROVE  Good(Popped(p)) /\ Popped(p).s = p.s
<1> DEFINE w == [x \in Screens |-> [p.w[x] EXCEPT !.prompt = FALSE, !.top = Blank]]
           m == [s |-> p.s, w |-> w]
<1>1. /\ p \in Pairs /\ p.s \in Shareds /\ p.w \in [Screens -> WindowStates]
      /\ p = [s |-> p.s, w |-> p.w]
    BY DEF Good, Pairs
<1>2. Blank \in Boxes /\ Blank.password = Empty
    BY DEF Blank, Boxes, Texts, Passwords
<1>3. ASSUME NEW x \in Screens
      PROVE  /\ w[x] \in WindowStates /\ w[x].shown = p.w[x].shown
             /\ w[x].base = p.w[x].base /\ ~w[x].prompt /\ w[x].top = Blank
    <2>1. p.w[x] \in WindowStates
        BY <1>1
    <2> QED
        BY <1>2, <2>1 DEF WindowStates
<1>4. m = Popped(p)
    BY <1>1, PairWith, Zenon DEF Popped
<1>5. w \in [Screens -> WindowStates]
    <2>1. \A x \in Screens : w[x] \in WindowStates
        BY <1>3, Zenon
    <2>2. w = [x \in Screens |-> w[x]]
        OBVIOUS
    <2> HIDE DEF w
    <2> QED
        BY <2>1, <2>2, Zenon
<1> HIDE DEF w
<1>6. m \in Pairs /\ m.s = p.s /\ m.w = w
    BY <1>1, <1>5 DEF Pairs
<1> HIDE DEF m
<1>7. p.s.active \in Screens \cup {NoScreen}
    BY <1>1 DEF Shareds
<1>8. ActiveShown(m.s, m.w)
    BY <1>3, <1>6, <1>7 DEF Good, ActiveShown
<1>9. Agree(m.s, m.w)
    BY <1>3, <1>6 DEF Good, Agree
<1>10. Hidden(m.w)
    BY <1>2, <1>3, <1>6 DEF Good, Hidden
<1> QED
    BY <1>4, <1>6, <1>8, <1>9, <1>10 DEF Good

-----------------------------------------------------------------------------
(***************************************************************************)
(* The inductive invariant                                                *)
(***************************************************************************)

LEMMA StateGood ==
    ASSUME IInv
    PROVE  Good([s |-> shared, w |-> windows])
<1>1. shared \in Shareds /\ windows \in [Screens -> WindowStates]
    BY DEF IInv, TypeOK
<1>2. [s |-> shared, w |-> windows] \in Pairs
    BY <1>1 DEF Pairs
<1>3. ActiveShown(shared, windows)
    BY DEF IInv, TypeOK, ActiveShown
<1>4. Agree(shared, windows) /\ Hidden(windows)
    BY DEF IInv, BoxesAgree, Agree
<1> QED
    BY <1>2, <1>3, <1>4 DEF Good

\* The window that has the pointer becomes the active one.
LEMMA PointedGood ==
    ASSUME IInv, NEW x \in Screens, windows[x].shown
    PROVE  /\ Good(Pointed(x)) /\ SameShared(shared, Pointed(x).s)
           /\ Pointed(x).w = windows
<1> DEFINE s == [shared EXCEPT !.active = x]
<1>1. shared \in Shareds /\ windows \in [Screens -> WindowStates]
    BY DEF IInv, TypeOK
<1>2. s \in Shareds /\ SameShared(shared, s) /\ s.active = x
    BY <1>1 DEF Shareds, SameShared
<1>3. Pointed(x) = [s |-> s, w |-> windows]
    BY DEF Pointed
<1> HIDE DEF s
<1>4. Pointed(x) \in Pairs /\ Pointed(x).s = s /\ Pointed(x).w = windows
    BY <1>1, <1>2, <1>3 DEF Pairs
<1>5. ActiveShown(s, windows)
    BY <1>2 DEF ActiveShown
<1>6. Agree(s, windows) /\ Hidden(windows)
    BY <1>2 DEF IInv, BoxesAgree, Agree, SameShared
<1> QED
    BY <1>2, <1>4, <1>5, <1>6 DEF Good

\* Every action that sets the shared state and the windows together, and leaves
\* the timer to inhibitGreeterTimeout.
LEMMA TimedKeeps ==
    ASSUME IInv, NEW p, Good(p), NEW r \in BOOLEAN, r => Restarts, Timed(p, r),
           ~sent.late => p.s.userListPassword \in {Empty, p.s.user},
           config' \in Texts, requests' \in 0..MaxRequests, link' \in BOOLEAN,
           sent' \in Requests, sent'.late = sent.late, PasswordForListedUser'
    PROVE  IInv'
<1>1. shared' = p.s /\ windows' = p.w
    BY DEF Timed
<1>2. /\ shared' \in Shareds /\ windows' \in [Screens -> WindowStates]
      /\ ActiveShown(shared', windows') /\ Agree(shared', windows') /\ Hidden(windows')
    BY <1>1 DEF Good, Pairs
<1>3. timer' \in BOOLEAN /\ NotInhibited'
    <2>1. timer \in BOOLEAN /\ NotInhibited
        BY DEF IInv, TypeOK
    <2>2. CASE inhibitGreeterTimeout(p.s) = inhibitGreeterTimeout(shared)
        <3>1. timer' = r
            BY <2>2 DEF Timed
        <3>2. inhibitGreeterTimeout(shared') = inhibitGreeterTimeout(shared)
            BY <1>1, <2>2
        <3>3. timer' => ~inhibitGreeterTimeout(shared)
            BY <2>1, <3>1 DEF Restarts, NotInhibited
        <3> QED
            BY <3>1, <3>2, <3>3 DEF NotInhibited
    <2>3. CASE inhibitGreeterTimeout(p.s) # inhibitGreeterTimeout(shared)
        <3>1. timer' = (p.s.active # NoScreen /\ ~inhibitGreeterTimeout(p.s))
            BY <2>3 DEF Timed
        <3> QED
            BY <1>1, <3>1 DEF NotInhibited
    <2> QED
        BY <2>2, <2>3
<1>4. TypeOK'
    BY <1>2, <1>3 DEF TypeOK, ActiveShown
<1>5. BoxesAgree'
    BY <1>2 DEF BoxesAgree, Agree
<1>6. ListedOwn'
    BY <1>1 DEF ListedOwn
<1> QED
    BY <1>2, <1>3, <1>4, <1>5, <1>6 DEF IInv

\* The same when nothing is submitted.
LEMMA UnsentKeeps ==
    ASSUME IInv, NEW p, Good(p), NEW r \in BOOLEAN, r => Restarts, Timed(p, r),
           ~sent.late => p.s.userListPassword \in {Empty, p.s.user},
           UNCHANGED <<config, requests, link, sent>>
    PROVE  IInv'
<1>1. /\ config' \in Texts /\ requests' \in 0..MaxRequests /\ link' \in BOOLEAN
      /\ sent' \in Requests /\ sent'.late = sent.late
    BY DEF IInv, TypeOK
<1>2. PasswordForListedUser'
    BY DEF IInv, PasswordForListedUser
<1> QED
    BY <1>1, <1>2, TimedKeeps

LEMMA RestartsBool ==
    ASSUME IInv
    PROVE  Restarts \in BOOLEAN
    BY DEF IInv, TypeOK, Restarts, inhibitGreeterTimeout

LEMMA InitHolds ==
    ASSUME Init
    PROVE  IInv
<1>1. PICK u \in Users, x \in Screens, f \in BOOLEAN, many \in BOOLEAN :
        LET none == [s |-> [beyondUserLimit |-> many, loginState |-> "UserList", user |-> u,
                            userListPassword |-> Empty, userPromptUsername |-> Empty,
                            userPromptPassword |-> Empty, follows |-> f, active |-> NoScreen],
                     w |-> [y \in Screens |-> NoWindow]]
        IN shared = Added(none, x).s /\ windows = Added(none, x).w
    BY DEF Init
<1> DEFINE s == [beyondUserLimit |-> many, loginState |-> "UserList", user |-> u,
                 userListPassword |-> Empty, userPromptUsername |-> Empty,
                 userPromptPassword |-> Empty, follows |-> f, active |-> NoScreen]
           w == [y \in Screens |-> NoWindow]
           none == [s |-> s, w |-> w]
           q == Added(none, x)
<1>2. shared = q.s /\ windows = q.w
    BY <1>1
<1>3. s \in Shareds /\ s.active = NoScreen /\ s.userListPassword = Empty
    BY DEF Shareds, Texts, Passwords
<1>4. /\ w \in [Screens -> WindowStates]
      /\ \A y \in Screens : w[y] = NoWindow
    BY DEF NoWindow, Blank, WindowStates, Boxes, Texts, Passwords
<1> HIDE DEF s, w
<1>5. none \in Pairs /\ none.s = s /\ none.w = w
    BY <1>3, <1>4 DEF Pairs
<1>6. /\ ~NoWindow.shown /\ ~NoWindow.prompt /\ NoWindow.base.password = Empty
      /\ NoWindow.top.password = Empty
    BY DEF NoWindow, Blank
<1> HIDE DEF none
<1>7. ActiveShown(none.s, none.w) /\ Agree(none.s, none.w) /\ Hidden(none.w)
    BY <1>3, <1>4, <1>5, <1>6 DEF ActiveShown, Agree, Hidden
<1>8. Good(none) /\ ~none.w[x].shown
    BY <1>4, <1>5, <1>6, <1>7 DEF Good
<1>9. config \in Texts
    BY DEF Init
<1>10. Good(q) /\ SameShared(none.s, q.s)
    BY <1>8, <1>9, AddedGood
<1> HIDE DEF q
<1>11. /\ shared \in Shareds /\ windows \in [Screens -> WindowStates]
       /\ ActiveShown(shared, windows) /\ Agree(shared, windows) /\ Hidden(windows)
    BY <1>2, <1>10 DEF Good, Pairs
<1>12. sent \in Requests /\ ~sent.listed /\ requests \in 0..MaxRequests
    BY ConstantsAssumption DEF Init, Requests, Texts, Passwords
<1>13. TypeOK
    BY <1>9, <1>11, <1>12 DEF Init, TypeOK, ActiveShown
<1>14. ListedOwn
    BY <1>2, <1>3, <1>5, <1>10 DEF ListedOwn, SameShared
<1>15. NotInhibited /\ PasswordForListedUser /\ BoxesAgree
    BY <1>11, <1>12 DEF Init, NotInhibited, PasswordForListedUser, BoxesAgree, Agree
<1> QED
    BY <1>11, <1>13, <1>14, <1>15 DEF IInv

LEMMA ScreenAddedKeeps ==
    ASSUME IInv, NEW x \in Screens, ScreenAdded(x)
    PROVE  IInv'
<1> DEFINE p == [s |-> shared, w |-> windows]
           q == Added(p, x)
<1>1. Good(p) /\ p.s = shared /\ p.w = windows /\ ~p.w[x].shown
    BY StateGood DEF ScreenAdded
<1>2. config \in Texts /\ timer \in BOOLEAN
    BY DEF IInv, TypeOK
<1>3. Timed(q, timer) /\ UNCHANGED <<config, requests, link, sent>>
    BY DEF ScreenAdded
<1> HIDE DEF p
<1>4. Good(q) /\ SameShared(shared, q.s)
    BY <1>1, <1>2, AddedGood
<1> HIDE DEF q
<1>5. ~sent.late => q.s.userListPassword \in {Empty, q.s.user}
    BY <1>4 DEF IInv, ListedOwn, SameShared
<1>6. timer => Restarts
    BY DEF Restarts
<1> QED
    BY <1>2, <1>3, <1>4, <1>5, <1>6, UnsentKeeps

LEMMA ScreenRemovedKeeps ==
    ASSUME IInv, NEW x \in Screens, ScreenRemoved(x)
    PROVE  IInv'
<1>1. /\ shared \in Shareds /\ windows \in [Screens -> WindowStates]
      /\ shared.active # NoScreen => windows[shared.active].shown
    BY DEF IInv, TypeOK
<1>2. /\ NoWindow \in WindowStates /\ ~NoWindow.shown /\ ~NoWindow.prompt
      /\ NoWindow.base.password = Empty /\ NoWindow.top.password = Empty
    BY DEF NoWindow, Blank, WindowStates, Boxes, Texts, Passwords
<1>3. /\ shared' \in Shareds /\ SameShared(shared, shared')
      /\ shared'.active = ActiveWithout(x) /\ ActiveWithout(x) \in {shared.active, NoScreen} \ {x}
    BY <1>1, ConstantsAssumption DEF ScreenRemoved, ActiveWithout, Shareds, SameShared
<1>4. /\ windows' \in [Screens -> WindowStates] /\ windows'[x] = NoWindow
      /\ \A y \in Screens : y # x => windows'[y] = windows[y]
    BY <1>1, <1>2 DEF ScreenRemoved
<1>5. shared.active \in Screens \cup {NoScreen}
    BY <1>1 DEF Shareds
<1>6. shared'.active # NoScreen => windows'[shared'.active].shown
    BY <1>1, <1>3, <1>4, <1>5
<1>7. TypeOK'
    BY <1>3, <1>4, <1>6 DEF IInv, TypeOK, ScreenRemoved
<1>8. BoxesAgree'
    BY <1>2, <1>3, <1>4 DEF IInv, BoxesAgree, SameShared
<1>9. Hidden(windows)'
    BY <1>2, <1>4 DEF IInv, Hidden
<1>10. ListedOwn' /\ PasswordForListedUser'
    BY <1>3 DEF IInv, ListedOwn, PasswordForListedUser, SameShared, ScreenRemoved
<1>11. NotInhibited'
    BY <1>3 DEF IInv, NotInhibited, SameShared, ScreenRemoved, inhibitGreeterTimeout
<1> QED
    BY <1>7, <1>8, <1>9, <1>10, <1>11 DEF IInv

LEMMA ActivateKeeps ==
    ASSUME IInv, NEW x \in Screens, Activate(x)
    PROVE  IInv'
<1>1. Good(Pointed(x)) /\ SameShared(shared, Pointed(x).s)
    BY PointedGood DEF Activate
<1>2. ~sent.late => Pointed(x).s.userListPassword \in {Empty, Pointed(x).s.user}
    BY <1>1 DEF IInv, ListedOwn, SameShared
<1> QED
    BY <1>1, <1>2, RestartsBool, UnsentKeeps DEF Activate

\* Without its window active, the pair is as good as before.
LEMMA EscapeClears ==
    ASSUME IInv, NEW x \in Screens, Escape(x)
    PROVE  IInv' /\ shared'.userListPassword = Empty /\ shared'.userPromptPassword = Empty
<1> DEFINE s == [shared EXCEPT !.active = ActiveWithout(x)]
           p == [s |-> s, w |-> windows]
           q == clearPasswords(p)
<1>1. /\ shared \in Shareds /\ windows \in [Screens -> WindowStates]
      /\ shared.active # NoScreen => windows[shared.active].shown
    BY DEF IInv, TypeOK
<1>2. /\ s \in Shareds /\ SameShared(shared, s)
      /\ s.active \in {shared.active, NoScreen}
    BY <1>1, ConstantsAssumption DEF ActiveWithout, Shareds, SameShared
<1>3. Timed(q, FALSE) /\ UNCHANGED <<config, requests, link, sent>>
    BY DEF Escape
<1> HIDE DEF s
<1>4. p \in Pairs /\ p.s = s /\ p.w = windows
    BY <1>1, <1>2 DEF Pairs
<1>5. ActiveShown(s, windows) /\ Agree(s, windows) /\ Hidden(windows)
    BY <1>1, <1>2 DEF IInv, ActiveShown, BoxesAgree, Agree, SameShared
<1> HIDE DEF p
<1>6. Good(p)
    BY <1>4, <1>5 DEF Good
<1>7. Good(q) /\ q.s.userListPassword = Empty /\ q.s.userPromptPassword = Empty
    BY <1>6, Cleared
<1> HIDE DEF q
<1>8. IInv'
    BY <1>3, <1>7, UnsentKeeps
<1> QED
    BY <1>3, <1>7, <1>8 DEF Timed

LEMMA TimesOutKeeps ==
    ASSUME IInv, TimesOut
    PROVE  IInv'
<1>1. shared' \in Shareds /\ SameShared(shared, shared') /\ shared'.active = NoScreen
    BY DEF IInv, TypeOK, TimesOut, Shareds, SameShared
<1>2. TypeOK'
    BY <1>1 DEF IInv, TypeOK, TimesOut
<1>3. BoxesAgree' /\ Hidden(windows)'
    BY <1>1 DEF IInv, BoxesAgree, SameShared, TimesOut, Hidden
<1>4. ListedOwn' /\ PasswordForListedUser' /\ NotInhibited'
    BY <1>1 DEF IInv, ListedOwn, PasswordForListedUser, SameShared, TimesOut, NotInhibited
<1> QED
    BY <1>2, <1>3, <1>4 DEF IInv

\* A usable window, its item, and what the list's box holds.
LEMMA UsableFacts ==
    ASSUME IInv, NEW x \in Screens, Usable(x)
    PROVE  /\ windows[x].shown /\ Item(x) \in Boxes /\ Identity(x) \in Texts
           /\ shared.user \in Users
           /\ Listed(x) => /\ Identity(x) = shared.user
                           /\ Item(x).password = shared.userListPassword
<1>1. shared \in Shareds /\ windows[x] \in WindowStates /\ windows[x].shown
    BY DEF IInv, TypeOK, Usable
<1>2. Item(x) \in Boxes
    BY <1>1 DEF Item, WindowStates
<1>3. shared.user \in Users
    BY <1>1 DEF Shareds
<1>4. Identity(x) \in Texts
    BY <1>2, <1>3 DEF Identity, Boxes, Texts
<1>5. Listed(x) => Item(x).password = shared.userListPassword
    BY <1>1 DEF Listed, Item, IInv, BoxesAgree
<1> QED
    BY <1>1, <1>2, <1>3, <1>4, <1>5 DEF Identity

LEMMA TypePasswordKeeps ==
    ASSUME IInv, NEW x \in Screens, TypePassword(x)
    PROVE  IInv'
<1> DEFINE v == IF Item(x).password # Empty THEN Empty
                ELSE IF Identity(x) = Empty THEN Unnamed ELSE Identity(x)
           p == Pointed(x)
           q == IF Listed(x) THEN SetListPassword(p, v) ELSE SetPromptPassword(p, v)
<1>1. Usable(x) /\ Timed(q, Restarts) /\ UNCHANGED <<config, requests, link, sent>>
    BY DEF TypePassword
<1>2. /\ windows[x].shown /\ shared.user \in Users /\ Identity(x) \in Texts
      /\ Listed(x) => Identity(x) = shared.user
    BY <1>1, UsableFacts
<1>3. v \in Passwords /\ (Listed(x) => v \in {Empty, shared.user})
    BY <1>2, ConstantsAssumption DEF Texts, Passwords
<1>4. Good(p) /\ SameShared(shared, p.s)
    BY <1>2, PointedGood
<1> HIDE DEF p, v
<1>5. p.s \in Shareds
    BY <1>4 DEF Good, Pairs
<1>6. CASE Listed(x)
    <2>1. q = SetListPassword(p, v)
        BY <1>6
    <2> HIDE DEF q
    <2>2. Good(q) /\ q.s = [p.s EXCEPT !.userListPassword = v]
        BY <1>3, <1>4, <2>1, ListPasswordSet
    <2>3. q.s.userListPassword = v /\ q.s.user = shared.user
        BY <1>4, <1>5, <2>2 DEF Shareds, SameShared
    <2>4. q.s.userListPassword \in {Empty, q.s.user}
        BY <1>3, <1>6, <2>3
    <2> QED
        BY <1>1, <2>2, <2>4, RestartsBool, UnsentKeeps
<1>7. CASE ~Listed(x)
    <2>1. q = SetPromptPassword(p, v)
        BY <1>7
    <2> HIDE DEF q
    <2>2. Good(q) /\ q.s = [p.s EXCEPT !.userPromptPassword = v]
        BY <1>3, <1>4, <2>1, PromptPasswordSet
    <2>3. /\ q.s.userListPassword = shared.userListPassword
          /\ q.s.user = shared.user
        BY <1>4, <1>5, <2>2 DEF Shareds, SameShared
    <2>4. ~sent.late => q.s.userListPassword \in {Empty, q.s.user}
        BY <2>3 DEF IInv, ListedOwn
    <2> QED
        BY <1>1, <2>2, <2>4, RestartsBool, UnsentKeeps
<1> QED
    BY <1>6, <1>7

LEMMA TypeNameKeeps ==
    ASSUME IInv, NEW x \in Screens, TypeName(x)
    PROVE  IInv'
<1> DEFINE p == Pointed(x)
<1>1. PICK v \in Texts : Timed(SetName(p, v), Restarts)
    BY DEF TypeName
<1> DEFINE q == SetName(p, v)
<1>2. Good(p) /\ SameShared(shared, p.s) /\ UNCHANGED <<config, requests, link, sent>>
    BY PointedGood DEF TypeName, Usable
<1>3. p \in Pairs
    BY <1>2 DEF Good
<1> HIDE DEF p
<1>4. /\ q \in Pairs /\ SameShared(p.s, q.s) /\ SamePasswords(p.w, q.w)
      /\ q.s.active = p.s.active
    BY <1>3, NameSet
<1>5. Timed(q, Restarts)
    BY <1>1
<1> HIDE DEF q
<1>6. Good(q)
    BY <1>2, <1>4, SameIsGood
<1>7. ~sent.late => q.s.userListPassword \in {Empty, q.s.user}
    BY <1>2, <1>4 DEF IInv, ListedOwn, SameShared
<1> QED
    BY <1>2, <1>5, <1>6, <1>7, RestartsBool, UnsentKeeps

LEMMA ChosenGood ==
    ASSUME IInv, NEW x \in Screens, NEW u \in Users, windows[x].shown
    PROVE  LET q == Chosen(x, u)
           IN /\ Good(q) /\ q.s.user = u
              /\ q.s.userListPassword = shared.userListPassword
<1> DEFINE p == Pointed(x)
           s == [p.s EXCEPT !.user = u, !.follows = shared.follows /\ u = shared.user]
           q == [s |-> s, w |-> p.w]
<1>1. Good(p) /\ SameShared(shared, p.s)
    BY PointedGood
<1>2. /\ p \in Pairs /\ p = [s |-> p.s, w |-> p.w] /\ p.s \in Shareds
      /\ p.w \in [Screens -> WindowStates]
    BY <1>1 DEF Good, Pairs
<1>3. Chosen(x, u) = q
    <2> HIDE DEF s
    <2>1. [p EXCEPT !.s = s] = q
        BY <1>2 DEF Pairs
    <2> QED
        BY <2>1 DEF s, Chosen
<1> HIDE DEF p
<1>4. /\ s \in Shareds /\ s.user = u /\ s.active = p.s.active
      /\ s.beyondUserLimit = p.s.beyondUserLimit
      /\ s.userListPassword = p.s.userListPassword
      /\ s.userPromptPassword = p.s.userPromptPassword
    BY <1>2 DEF Shareds
<1> HIDE DEF s
<1>5. q \in Pairs /\ q.s = s /\ q.w = p.w
    BY <1>2, <1>4 DEF Pairs
<1>6. ActiveShown(s, p.w) /\ Agree(s, p.w)
    BY <1>1, <1>4 DEF Good, ActiveShown, Agree
<1> HIDE DEF q
<1>7. Good(q)
    BY <1>1, <1>5, <1>6 DEF Good
<1> QED
    BY <1>1, <1>3, <1>4, <1>5, <1>7 DEF SameShared

LEMMA SelectUserKeeps ==
    ASSUME IInv, NEW x \in Screens, NEW u \in Users, SelectUser(x, u)
    PROVE  IInv'
<1> DEFINE p == Chosen(x, u)
           q == SetListPassword(p, Empty)
<1>1. Timed(q, Restarts) /\ UNCHANGED <<config, requests, link, sent>>
    BY DEF SelectUser, Selected
<1>2. Good(p) /\ Empty \in Passwords
    BY ChosenGood DEF SelectUser, Usable, Passwords
<1> HIDE DEF p
<1>3. Good(q) /\ q.s = [p.s EXCEPT !.userListPassword = Empty]
    BY <1>2, ListPasswordSet
<1>4. p.s \in Shareds
    BY <1>2 DEF Good, Pairs
<1> HIDE DEF q
<1>5. q.s.userListPassword = Empty
    BY <1>3, <1>4 DEF Shareds
<1> QED
    BY <1>1, <1>3, <1>5, RestartsBool, UnsentKeeps

\* The arrow keys leave the password, and there is none.
LEMMA ArrowToUserKeeps ==
    ASSUME IInv, NEW x \in Screens, NEW u \in Users, ArrowToUser(x, u)
    PROVE  IInv'
<1> DEFINE q == Chosen(x, u)
<1>1. /\ Usable(x) /\ Listed(x) /\ Item(x).password = Empty
      /\ Timed(q, Restarts) /\ UNCHANGED <<config, requests, link, sent>>
    BY DEF ArrowToUser
<1>2. windows[x].shown /\ shared.userListPassword = Empty
    BY <1>1, UsableFacts
<1>3. Good(q) /\ q.s.userListPassword = Empty
    BY <1>2, ChosenGood
<1> HIDE DEF q
<1> QED
    BY <1>1, <1>3, RestartsBool, UnsentKeeps

\* loginState changes only with both passwords cleared, whether or not a prompt
\* is made or taken away.
LEMMA SetLoginStateKeeps ==
    ASSUME IInv, NEW x \in Screens, NEW st \in {"UserList", "UserPrompt"},
           SetLoginState(x, st)
    PROVE  /\ IInv'
           /\ shared'.loginState # shared.loginState =>
                shared'.userListPassword = Empty /\ shared'.userPromptPassword = Empty
<1> DEFINE pt == Pointed(x)
           ps == [pt.s EXCEPT !.loginState = st]
           o == [s |-> ps, w |-> pt.w]
           p == clearPasswords(o)
           q == IF st = "UserPrompt" THEN Pushed(p) ELSE Popped(p)
<1>1. windows[x].shown /\ UNCHANGED <<config, requests, link, sent>>
    BY DEF SetLoginState, Usable
<1>2. Good(pt) /\ SameShared(shared, pt.s)
    BY <1>1, PointedGood
<1>3. /\ pt \in Pairs /\ pt = [s |-> pt.s, w |-> pt.w] /\ pt.s \in Shareds
      /\ pt.w \in [Screens -> WindowStates]
    BY <1>2 DEF Good, Pairs
<1>4. [pt EXCEPT !.s.loginState = st] = o
    BY <1>3
<1>5. Timed(IF shared.loginState = st THEN pt ELSE q, Restarts)
    BY <1>4, Zenon DEF SetLoginState
<1>6. CASE shared.loginState = st
    <2>1. Timed(pt, Restarts)
        BY <1>5, <1>6
    <2> HIDE DEF pt
    <2>2. ~sent.late => pt.s.userListPassword \in {Empty, pt.s.user}
        BY <1>2 DEF IInv, ListedOwn, SameShared
    <2>3. IInv'
        BY <1>1, <1>2, <2>1, <2>2, RestartsBool, UnsentKeeps
    <2>4. shared'.loginState = shared.loginState
        BY <1>2, <2>1 DEF Timed, SameShared
    <2> QED
        BY <2>3, <2>4
<1>7. CASE shared.loginState # st
    <2>1. Timed(q, Restarts)
        BY <1>5, <1>7
    <2> HIDE DEF pt
    <2>2. /\ ps \in Shareds /\ ps.active = pt.s.active
          /\ ps.beyondUserLimit = pt.s.beyondUserLimit
          /\ ps.userListPassword = pt.s.userListPassword
          /\ ps.userPromptPassword = pt.s.userPromptPassword
        BY <1>3 DEF Shareds
    <2> HIDE DEF ps
    <2>3. o \in Pairs /\ o.s = ps /\ o.w = pt.w
        BY <1>3, <2>2 DEF Pairs
    <2>4. ActiveShown(ps, pt.w) /\ Agree(ps, pt.w)
        BY <1>2, <2>2 DEF Good, ActiveShown, Agree
    <2> HIDE DEF o
    <2>5. Good(o)
        BY <1>2, <2>3, <2>4 DEF Good
    <2>6. /\ Good(p) /\ p.s.userListPassword = Empty
          /\ p.s.userPromptPassword = Empty
        BY <2>5, Cleared
    <2>7. config \in Texts
        BY DEF IInv, TypeOK
    <2> HIDE DEF p
    <2>8. Good(Pushed(p)) /\ SameShared(p.s, Pushed(p).s)
        BY <2>6, <2>7, PushedGood
    <2>9. Good(Popped(p)) /\ Popped(p).s = p.s
        BY <2>6, PoppedGood
    <2>10. Good(q) /\ q.s.userListPassword = Empty /\ q.s.userPromptPassword = Empty
        BY <2>6, <2>8, <2>9 DEF SameShared
    <2> HIDE DEF q
    <2>11. IInv'
        BY <1>1, <2>1, <2>10, RestartsBool, UnsentKeeps
    <2> QED
        BY <2>1, <2>10, <2>11 DEF Timed
<1> QED
    BY <1>6, <1>7

LEMMA ConfirmPowerKeeps ==
    ASSUME IInv, NEW x \in Screens, ConfirmPower(x)
    PROVE  IInv'
<1> DEFINE p == Pointed(x)
           q == clearPasswords(p)
<1>1. windows[x].shown /\ Timed(q, Restarts) /\ UNCHANGED <<config, requests, link, sent>>
    BY DEF ConfirmPower, Usable
<1>2. Good(p)
    BY <1>1, PointedGood
<1> HIDE DEF p
<1>3. Good(q) /\ q.s.userListPassword = Empty
    BY <1>2, Cleared
<1> HIDE DEF q
<1> QED
    BY <1>1, <1>3, RestartsBool, UnsentKeeps

\* What is submitted from the list is the shared user and the shared password.
LEMMA StartLoginKeeps ==
    ASSUME IInv, NEW x \in Screens, StartLogin(x)
    PROVE  IInv'
<1> DEFINE p == Pointed(x)
           win == [p.w[x] EXCEPT !.enabled = FALSE]
           w == [p.w EXCEPT ![x] = win]
           q == [p EXCEPT !.w = w]
<1>1. /\ Usable(x) /\ Timed(q, Restarts) /\ requests < MaxRequests
      /\ sent' = [user |-> Identity(x), password |-> Item(x).password,
                  listed |-> Listed(x), late |-> sent.late]
      /\ requests' = IF link THEN requests + 1 ELSE requests
      /\ UNCHANGED <<config, link>>
    BY DEF StartLogin
<1>2. /\ windows[x].shown /\ Item(x) \in Boxes /\ Identity(x) \in Texts
      /\ Listed(x) => /\ Identity(x) = shared.user
                      /\ Item(x).password = shared.userListPassword
    BY <1>1, UsableFacts
<1>3. Good(p) /\ SameShared(shared, p.s)
    BY <1>2, PointedGood
<1> HIDE DEF p
<1>4. p \in Pairs /\ p.s \in Shareds /\ p.w \in [Screens -> WindowStates]
    BY <1>3 DEF Good, Pairs
<1>5. /\ win \in WindowStates /\ win.shown = p.w[x].shown /\ win.prompt = p.w[x].prompt
      /\ win.base = p.w[x].base /\ win.top = p.w[x].top
    <2>1. p.w[x] \in WindowStates
        BY <1>4
    <2> QED
        BY <2>1 DEF WindowStates
<1> HIDE DEF win
<1>6. w \in [Screens -> WindowStates] /\ SamePasswords(p.w, w)
    BY <1>4, <1>5 DEF SamePasswords
<1> HIDE DEF w
<1>7. q = [s |-> p.s, w |-> w]
    BY <1>4, PairWith
<1> HIDE DEF q
<1>8. q \in Pairs /\ q.s = p.s /\ q.w = w
    BY <1>4, <1>6, <1>7 DEF Pairs
<1>9. Good(q)
    <2>1. SameShared(p.s, q.s) /\ q.s.active = p.s.active
        BY <1>8 DEF SameShared
    <2> QED
        BY <1>3, <1>6, <1>8, <2>1, SameIsGood
<1>10. ~sent.late => q.s.userListPassword \in {Empty, q.s.user}
    BY <1>3, <1>8 DEF IInv, ListedOwn, SameShared
<1>11. /\ requests \in 0..MaxRequests /\ sent.late \in BOOLEAN
       /\ config \in Texts /\ link \in BOOLEAN
    BY DEF IInv, TypeOK, Requests
<1>12. Listed(x) \in BOOLEAN
    BY DEF Listed
<1>13. sent' \in Requests /\ sent'.late = sent.late
    BY <1>1, <1>2, <1>11, <1>12 DEF Requests, Boxes
<1>14. PasswordForListedUser'
    <2>1. ~sent.late => shared.userListPassword \in {Empty, shared.user}
        BY DEF IInv, ListedOwn
    <2> QED
        BY <1>1, <1>2, <2>1 DEF PasswordForListedUser
<1>15. requests' \in 0..MaxRequests
    BY <1>1, <1>11, ConstantsAssumption
<1> QED
    BY <1>1, <1>9, <1>10, <1>11, <1>13, <1>14, <1>15, RestartsBool, TimedKeeps

LEMMA LoginFailedKeeps ==
    ASSUME IInv, LoginFailed
    PROVE  IInv'
<1>1. windows \in [Screens -> WindowStates] /\ requests \in 0..MaxRequests
      /\ (shared.active # NoScreen => windows[shared.active].shown) /\ shared \in Shareds
    BY DEF IInv, TypeOK
<1>2. windows' = [y \in Screens |-> [windows[y] EXCEPT !.enabled = TRUE]]
    BY DEF LoginFailed
<1>3. ASSUME NEW y \in Screens
      PROVE  /\ windows'[y] \in WindowStates /\ windows'[y].shown = windows[y].shown
             /\ windows'[y].prompt = windows[y].prompt /\ windows'[y].base = windows[y].base
             /\ windows'[y].top = windows[y].top
    <2>1. windows[y] \in WindowStates
        BY <1>1
    <2> QED
        BY <1>2, <2>1 DEF WindowStates
<1>4. windows' \in [Screens -> WindowStates]
    BY <1>1, <1>2 DEF WindowStates
<1>5. UNCHANGED <<shared, timer, config, link, sent>> /\ requests' \in 0..MaxRequests
    BY <1>1, ConstantsAssumption DEF LoginFailed
<1>6. shared.active \in Screens \cup {NoScreen}
    BY <1>1 DEF Shareds
<1>7. TypeOK'
    BY <1>1, <1>3, <1>4, <1>5, <1>6 DEF IInv, TypeOK
<1>8. BoxesAgree' /\ Hidden(windows)'
    BY <1>3, <1>5 DEF IInv, BoxesAgree, Hidden
<1>9. ListedOwn' /\ PasswordForListedUser' /\ NotInhibited'
    BY <1>5 DEF IInv, ListedOwn, PasswordForListedUser, NotInhibited
<1> QED
    BY <1>7, <1>8, <1>9 DEF IInv

LEMMA LoginSucceededKeeps ==
    ASSUME IInv, LoginSucceeded
    PROVE  IInv'
<1>1. /\ shared \in Shareds /\ requests \in 0..MaxRequests /\ sent \in Requests
      /\ sent.user \in Texts
    BY DEF IInv, TypeOK, Requests
<1>2. /\ shared' \in Shareds /\ shared'.active = shared.active
      /\ shared'.beyondUserLimit = shared.beyondUserLimit
      /\ shared'.userListPassword = shared.userListPassword
      /\ shared'.userPromptPassword = shared.userPromptPassword
      /\ shared'.loginState = shared.loginState
    BY <1>1 DEF LoginSucceeded, Shareds
<1>3. sent' \in Requests /\ sent'.late
    BY <1>1 DEF LoginSucceeded, Requests
<1>4. UNCHANGED <<windows, timer, link>> /\ config' \in Texts /\ requests' \in 0..MaxRequests
    BY <1>1, ConstantsAssumption DEF LoginSucceeded
<1>5. TypeOK'
    BY <1>2, <1>3, <1>4 DEF IInv, TypeOK
<1>6. BoxesAgree' /\ Hidden(windows)'
    BY <1>2, <1>4 DEF IInv, BoxesAgree, Hidden
<1>7. ListedOwn' /\ PasswordForListedUser'
    BY <1>3 DEF ListedOwn, PasswordForListedUser
<1>8. NotInhibited'
    BY <1>2, <1>4 DEF IInv, NotInhibited, inhibitGreeterTimeout
<1> QED
    BY <1>5, <1>6, <1>7, <1>8 DEF IInv

LEMMA DisconnectedKeeps ==
    ASSUME IInv, Disconnected
    PROVE  IInv'
<1>1. TypeOK'
    <2>1. link' \in BOOLEAN
        BY Zenon DEF Disconnected
    <2>2. requests' = 0 /\ UNCHANGED <<shared, windows, timer, config, sent>>
        BY Zenon DEF Disconnected
    <2>3. requests' \in 0..MaxRequests
        BY <2>2, ConstantsAssumption
    <2> QED
        BY <2>1, <2>2, <2>3 DEF IInv, TypeOK
<1>2. BoxesAgree'
    BY DEF IInv, BoxesAgree, Disconnected
<1>3. Hidden(windows)'
    BY DEF IInv, Hidden, Disconnected
<1>4. ListedOwn' /\ PasswordForListedUser' /\ NotInhibited'
    BY DEF IInv, ListedOwn, PasswordForListedUser, NotInhibited, Disconnected
<1> QED
    BY <1>1, <1>2, <1>3, <1>4 DEF IInv

LEMMA StutterKeeps ==
    ASSUME IInv, UNCHANGED vars
    PROVE  IInv'
<1>1. TypeOK' /\ NotInhibited' /\ PasswordForListedUser'
    BY DEF IInv, TypeOK, NotInhibited, PasswordForListedUser, vars
<1>2. BoxesAgree' /\ Hidden(windows)' /\ ListedOwn'
    BY DEF IInv, BoxesAgree, Hidden, ListedOwn, vars
<1> QED
    BY <1>1, <1>2 DEF IInv

LEMMA NextKeeps ==
    ASSUME IInv, [Next]_vars
    PROVE  IInv'
<1>1. CASE Next
    <2>1. ASSUME NEW x \in Screens,
                 \/ ScreenAdded(x) \/ ScreenRemoved(x) \/ Activate(x) \/ Escape(x)
                 \/ TypePassword(x) \/ TypeName(x) \/ ConfirmPower(x) \/ StartLogin(x)
          PROVE  IInv'
        BY <2>1, ScreenAddedKeeps, ScreenRemovedKeeps, ActivateKeeps, EscapeClears,
           TypePasswordKeeps, TypeNameKeeps, ConfirmPowerKeeps, StartLoginKeeps, Zenon
    <2>2. ASSUME NEW x \in Screens, NEW u \in Users, SelectUser(x, u) \/ ArrowToUser(x, u)
          PROVE  IInv'
        BY <2>2, SelectUserKeeps, ArrowToUserKeeps, Zenon
    <2>3. ASSUME NEW x \in Screens, NEW st \in {"UserList", "UserPrompt"},
                 SetLoginState(x, st)
          PROVE  IInv'
        BY <2>3, SetLoginStateKeeps
    <2>4. ASSUME TimesOut \/ LoginFailed \/ LoginSucceeded \/ Disconnected
          PROVE  IInv'
        BY <2>4, TimesOutKeeps, LoginFailedKeeps, LoginSucceededKeeps, DisconnectedKeeps,
           Zenon
    <2> QED
        BY <1>1, <2>1, <2>2, <2>3, <2>4, Zenon DEF Next
<1>2. CASE UNCHANGED vars
    BY <1>2, StutterKeeps
<1> QED
    BY <1>1, <1>2

-----------------------------------------------------------------------------
(***************************************************************************)
(* Theorems                                                               *)
(***************************************************************************)

\* What every event keeps, with the handlers it reaches in all the windows: the
\* boxes, the timer and the state they share through `GreeterState`.
THEOREM Inductive == Spec => []IInv
<1>1. Init => IInv
    BY InitHolds
<1>2. IInv /\ [Next]_vars => IInv'
    BY NextKeeps
<1> QED
    BY <1>1, <1>2, PTL DEF Spec

\* Everything shared and shown has its type, and only a shown window is active.
THEOREM TypeCorrect == Spec => []TypeOK
<1>1. IInv => TypeOK
    BY DEF IInv
<1> QED
    BY <1>1, Inductive, PTL

\* All windows show the same two passwords, whatever screens come and go
\* (Login.qml's sync).
THEOREM CopiesAgree == Spec => []BoxesAgree
<1>1. IInv => BoxesAgree
    BY DEF IInv
<1> QED
    BY <1>1, Inductive, PTL

\* A password typed for one user of the list is not submitted for another
\* (onUserSelected, startLogin).
THEOREM PasswordOfListedUser == Spec => []PasswordForListedUser
<1>1. IInv => PasswordForListedUser
    BY DEF IInv
<1> QED
    BY <1>1, Inductive, PTL

\* The timer never runs over a password in a window that shows what loginState
\* says, if there is a list (inhibitGreeterTimeout).
THEOREM NoTimeoutOverPassword == Spec => []TimerWaits
<1>1. IInv => TimerWaits
    <2> SUFFICES ASSUME IInv, timer, ~shared.beyondUserLimit, NEW x \in Screens,
                        windows[x].shown,
                        windows[x].prompt <=> shared.loginState = "UserPrompt"
                 PROVE  Item(x).password = Empty
        BY DEF TimerWaits
    <2>1. ~inhibitGreeterTimeout(shared) /\ shared.loginState \in {"UserList", "UserPrompt"}
        BY DEF IInv, NotInhibited, TypeOK, Shareds
    <2>2. CASE windows[x].prompt
        BY <2>1, <2>2 DEF IInv, BoxesAgree, Item, inhibitGreeterTimeout
    <2>3. CASE ~windows[x].prompt
        BY <2>1, <2>3 DEF IInv, BoxesAgree, Item, inhibitGreeterTimeout
    <2> QED
        BY <2>2, <2>3
<1> QED
    BY <1>1, Inductive, PTL

\* No password is left anywhere when both shared ones are cleared.
LEMMA NothingShown ==
    ASSUME NEW s, NEW w, Agree(s, w), Hidden(w),
           s.userListPassword = Empty, s.userPromptPassword = Empty
    PROVE  \A x \in Screens : w[x].base.password = Empty /\ w[x].top.password = Empty
    BY DEF Agree, Hidden

\* Only SetLoginState changes what is shown above the list.

\* loginState is only set by SetLoginState.
LEMMA OtherStepsKeepState ==
    ASSUME IInv, [Next]_vars, shared'.loginState # shared.loginState
    PROVE  \E x \in Screens, st \in {"UserList", "UserPrompt"} : SetLoginState(x, st)
<1>1. shared \in Shareds /\ config \in Texts
    BY DEF IInv, TypeOK
<1>2. ASSUME NEW x \in Screens
      PROVE  /\ Pointed(x).s = [shared EXCEPT !.active = x]
             /\ Pointed(x).s.loginState = shared.loginState
    BY <1>1 DEF Pointed, Shareds
<1>3. ASSUME NEW x \in Screens, ScreenAdded(x)
      PROVE  shared'.loginState = shared.loginState
    <2> DEFINE p == [s |-> shared, w |-> windows]
    <2>1. Good(p) /\ p.s = shared /\ ~p.w[x].shown
        BY <1>3, StateGood DEF ScreenAdded
    <2>2. shared' = Added(p, x).s
        BY <1>3 DEF ScreenAdded, Timed
    <2> HIDE DEF p
    <2>3. SameShared(shared, Added(p, x).s)
        BY <1>1, <2>1, AddedGood
    <2> QED
        BY <2>2, <2>3 DEF SameShared
<1>4. ASSUME NEW x \in Screens, ScreenRemoved(x) \/ Activate(x) \/ StartLogin(x)
      PROVE  shared'.loginState = shared.loginState
    <2>1. CASE ScreenRemoved(x)
        BY <1>1, <2>1 DEF ScreenRemoved, Shareds
    <2>2. CASE Activate(x)
        BY <1>2, <2>2 DEF Activate, Timed
    <2>3. CASE StartLogin(x)
        <3>1. shared' = [Pointed(x) EXCEPT !.w[x].enabled = FALSE].s
            BY <2>3 DEF StartLogin, Timed
        <3>2. shared' = Pointed(x).s
            BY <3>1 DEF Pointed
        <3> QED
            BY <1>2, <3>2
    <2> QED
        BY <1>4, <2>1, <2>2, <2>3
<1>5. ASSUME NEW x \in Screens, TypePassword(x) \/ TypeName(x)
      PROVE  shared'.loginState = shared.loginState
    <2>1. CASE TypePassword(x)
        <3>1. PICK v : \/ shared' = SetListPassword(Pointed(x), v).s
                       \/ shared' = SetPromptPassword(Pointed(x), v).s
            BY <2>1 DEF TypePassword, Timed
        <3>2. \/ shared' = [Pointed(x).s EXCEPT !.userListPassword = v]
              \/ shared' = [Pointed(x).s EXCEPT !.userPromptPassword = v]
            BY <3>1 DEF SetListPassword, SetPromptPassword
        <3> QED
            BY <1>1, <1>2, <3>2 DEF Shareds
    <2>2. CASE TypeName(x)
        <3>1. PICK v : shared' = SetName(Pointed(x), v).s
            BY <2>2 DEF TypeName, Timed
        <3>2. shared' = [Pointed(x).s EXCEPT !.userPromptUsername = v]
            BY <3>1 DEF SetName
        <3> QED
            BY <1>1, <1>2, <3>2 DEF Shareds
    <2> QED
        BY <1>5, <2>1, <2>2
<1>6. ASSUME NEW x \in Screens, Escape(x) \/ ConfirmPower(x)
      PROVE  shared'.loginState = shared.loginState
    <2>1. ASSUME NEW p
          PROVE  clearPasswords(p).s =
                   [[p.s EXCEPT !.userPromptPassword = Empty] EXCEPT !.userListPassword = Empty]
        BY DEF clearPasswords, SetListPassword, SetPromptPassword
    <2>2. CASE Escape(x)
        <3> DEFINE s == [shared EXCEPT !.active = ActiveWithout(x)]
                   p == [s |-> s, w |-> windows]
        <3>1. shared' = clearPasswords(p).s
            BY <2>2 DEF Escape, Timed
        <3>2. p.s = s
            OBVIOUS
        <3> HIDE DEF p
        <3>3. shared' = [[s EXCEPT !.userPromptPassword = Empty] EXCEPT
                           !.userListPassword = Empty]
            BY <2>1, <3>1, <3>2
        <3> QED
            BY <1>1, <3>3 DEF Shareds
    <2>3. CASE ConfirmPower(x)
        <3>1. shared' = clearPasswords(Pointed(x)).s
            BY <2>3 DEF ConfirmPower, Timed
        <3>2. shared' = [[Pointed(x).s EXCEPT !.userPromptPassword = Empty] EXCEPT
                           !.userListPassword = Empty]
            BY <2>1, <3>1
        <3> QED
            BY <1>1, <1>2, <3>2 DEF Shareds
    <2> QED
        BY <1>6, <2>2, <2>3
<1>7. ASSUME NEW x \in Screens, NEW u \in Users, SelectUser(x, u) \/ ArrowToUser(x, u)
      PROVE  shared'.loginState = shared.loginState
    <2>1. Chosen(x, u).s = [[[shared EXCEPT !.active = x] EXCEPT !.user = u] EXCEPT
                              !.follows = shared.follows /\ u = shared.user]
        BY DEF Chosen, Pointed
    <2>2. \/ shared' = Chosen(x, u).s
          \/ shared' = [Chosen(x, u).s EXCEPT !.userListPassword = Empty]
        <3> DEFINE p == Chosen(x, u)
        <3>1. \/ shared' = p.s
              \/ shared' = SetListPassword(p, Empty).s
            BY <1>7, Zenon DEF SelectUser, ArrowToUser, Selected, Timed
        <3> HIDE DEF p
        <3>2. SetListPassword(p, Empty).s = [p.s EXCEPT !.userListPassword = Empty]
            BY DEF SetListPassword
        <3> QED
            BY <3>1, <3>2 DEF p
    <2>3. CASE shared' = Chosen(x, u).s
        BY <1>1, <2>1, <2>3 DEF Shareds
    <2>4. CASE shared' = [Chosen(x, u).s EXCEPT !.userListPassword = Empty]
        BY <1>1, <2>1, <2>4 DEF Shareds
    <2> QED
        BY <2>2, <2>3, <2>4
<1>8. ASSUME TimesOut \/ LoginFailed \/ LoginSucceeded \/ Disconnected \/ UNCHANGED vars
      PROVE  shared'.loginState = shared.loginState
    BY <1>1, <1>8 DEF TimesOut, LoginFailed, LoginSucceeded, Disconnected, vars, Shareds
<1> QED
    BY <1>3, <1>4, <1>5, <1>6, <1>7, <1>8, Zenon DEF Next

\* Escape in any window, and the change between list and prompt, leave no
\* password in any box of any window, even in those made for the change
\* (clearPasswords, onLoginStateChanged).
THEOREM ClearedEverywhere == Spec => CancelClears
<1> DEFINE Clearing == shared'.loginState # shared.loginState \/ \E x \in Screens : Escape(x)
<1>1. IInv /\ IInv' /\ [Next]_vars => (Clearing => AllBlank')
    <2> SUFFICES ASSUME IInv, IInv', [Next]_vars, Clearing
                 PROVE  AllBlank'
        OBVIOUS
    <2>1. shared'.userListPassword = Empty /\ shared'.userPromptPassword = Empty
        <3>1. CASE \E x \in Screens : Escape(x)
            BY <3>1, EscapeClears
        <3>2. CASE shared'.loginState # shared.loginState
            <4>1. PICK x \in Screens, st \in {"UserList", "UserPrompt"} : SetLoginState(x, st)
                BY <3>2, OtherStepsKeepState
            <4> QED
                BY <3>2, <4>1, SetLoginStateKeeps
        <3> QED
            BY <3>1, <3>2
    <2>2. Agree(shared', windows') /\ Hidden(windows')
        BY DEF IInv, BoxesAgree, Agree, Hidden
    <2>3. \A x \in Screens : windows'[x].base.password = Empty
                             /\ windows'[x].top.password = Empty
        BY <2>1, <2>2, NothingShown
    <2> QED
        BY <2>3 DEF AllBlank
<1> QED
    BY <1>1, Inductive, PTL DEF Spec, CancelClears

=============================================================================
