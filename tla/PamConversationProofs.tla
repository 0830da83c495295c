----------------------- MODULE PamConversationProofs -----------------------
(***************************************************************************)
(* Theorems about the conversation of a helper with PAM (PamConversation), *)
(* for conversations of any length and number.                            *)
(*                                                                        *)
(* That no answer is used twice (OneAnswerOneUse) needs to be known of the *)
(* responses kept for later: a prompt that was not sent has none, two      *)
(* prompts have different ones, and those given to PAM are older than the  *)
(* present request and no longer kept (IInv).  Both loops of converse are  *)
(* recursive functions on the messages: Recursion says that such a         *)
(* function exists, HeardSound and AnsweredSound what it keeps at every    *)
(* message, by the least message at which it would not.                    *)
(*                                                                        *)
(* That login prompts are answered as they should be (LoginPromptsAnswered) *)
(* needs to be known of the prompts: those kept between conversations have *)
(* the right responses or are a guess about a new password (Idle), and     *)
(* while the daemon is asked they are the ones a single message makes      *)
(* (Request), or there is at most one of a kind, each of a message of this *)
(* conversation (Single, OfMessages).                                      *)
(***************************************************************************)
EXTENDS PamConversation, SequenceTheorems, WellFoundedInduction, TLAPS

\* The responses that prompts have, and that no two have the same one.
Kept(q) == {q[i].response : i \in DOMAIN q} \ {Empty}
Apart(q) ==
    \A i, j \in DOMAIN q : q[i].response = q[j].response => i = j \/ q[i].response = Empty

\* A request that was sent has prompts, one that was not has no responses.
Sound(d) ==
    /\ d \in PamDatas
    /\ d.sent => d.prompts # <<>>
    /\ d.sent \/ Kept(d.prompts) = {}
    /\ Apart(d.prompts)

-----------------------------------------------------------------------------
(***************************************************************************)
(* Recursion over the messages                                            *)
(***************************************************************************)

\* A set of numbers that is not empty has a least one.
LEMMA Least ==
    ASSUME NEW T, T \subseteq Nat, T # {}
    PROVE  \E v \in T : \A w \in T : v <= w
<1> DEFINE R == {ss \in Nat \X Nat : ss[1] < ss[2]}
<1>1. IsWellFoundedOn(R, Nat)
    BY NatLessThanWellFounded DEF OpToRel
<1> HIDE DEF R
<1>2. PICK v \in T : \A w \in T : ~(<<w, v>> \in R)
    BY <1>1, WFMin
<1>3. \A w \in T : ~(w < v)
    BY <1>2 DEF R
<1> QED
    BY <1>3

\* What holds at 0 and with k - 1 at k holds up to n.
LEMMA UpTo ==
    ASSUME NEW n \in Nat, NEW T, 0 \in T,
           \A k \in 1..n : k - 1 \in T => k \in T
    PROVE  0..n \subseteq T
<1> DEFINE Missing == (0..n) \ T
<1>1. SUFFICES ASSUME NEW x \in 0..n, x \notin T PROVE FALSE
    OBVIOUS
<1>2. PICK v \in Missing : \A w \in Missing : v <= w
  <2>1. Missing \subseteq Nat /\ Missing # {}
    BY <1>1
  <2> HIDE DEF Missing
  <2> QED BY <2>1, Least
<1>3. v \in 1..n
    BY <1>2
<1>4. v - 1 \in 0..n /\ v - 1 \notin Missing
    BY <1>2, <1>3
<1> QED
    BY <1>2, <1>3, <1>4

\* f takes the steps S one after another.
Takes(f, b0, n, S) == f[0] = b0 /\ \A k \in 1..n : f[k] = S[k][f[k - 1]]

\* A step on the members of a set can be taken n times.
LEMMA Recursion ==
    ASSUME NEW B, NEW b0 \in B, NEW n \in Nat, NEW S \in [1..n -> [B -> B]]
    PROVE  \E f \in [0..n -> B] : Takes(f, b0, n, S)
<1> DEFINE Follows(f, k) == f[0] = b0 /\ \A j \in 1..k : f[j] = S[j][f[j - 1]]
           T == {k \in 0..n : \E f \in [0..k -> B] : Follows(f, k)}
<1>1. 0 \in T
  <2> DEFINE g == [k \in 0..0 |-> b0]
  <2>1. g \in [0..0 -> B]
    OBVIOUS
  <2>2. g[0] = b0 /\ 0 \in 0..n /\ 1..0 = {}
    OBVIOUS
  <2>3. Follows(g, 0)
    BY <2>2
  <2> HIDE DEF g
  <2> QED BY <2>1, <2>2, <2>3
<1>2. ASSUME NEW k \in 1..n, k - 1 \in T
      PROVE  k \in T
  <2>1. PICK f \in [0..(k - 1) -> B] : Follows(f, k - 1)
    BY <1>2
  <2> DEFINE g == [j \in 0..k |-> IF j = k THEN S[k][f[k - 1]] ELSE f[j]]
  <2>2. k - 1 \in 0..(k - 1) /\ k \in 0..k /\ k \in 0..n /\ \A j \in 0..k : j = k \/ j \in 0..(k - 1)
    OBVIOUS
  <2>3. S[k][f[k - 1]] \in B
    BY <2>2
  <2>4. g \in [0..k -> B]
    BY <2>2, <2>3
  <2>5. g[0] = b0
    BY <2>1, <2>2
  <2>6. ASSUME NEW j \in 1..k PROVE g[j] = S[j][g[j - 1]]
    <3>1. j - 1 \in 0..k /\ j - 1 # k /\ j \in 0..k
      OBVIOUS
    <3>2. g[j - 1] = f[j - 1]
      BY <3>1
    <3>3. CASE j = k
      BY <3>1, <3>2, <3>3
    <3>4. CASE j # k
      <4>1. j \in 1..(k - 1)
        BY <3>4
      <4> QED BY <2>1, <3>1, <3>2, <3>4, <4>1
    <3> QED BY <3>3, <3>4
  <2> QED BY <2>2, <2>4, <2>5, <2>6
<1>3. n \in T
  <2>1. \A k \in 1..n : k - 1 \in T => k \in T
    BY <1>2
  <2> HIDE DEF T
  <2>2. 0..n \subseteq T
    BY <1>1, <2>1, UpTo
  <2> QED BY <2>2
<1> QED BY <1>3 DEF Takes

-----------------------------------------------------------------------------
(***************************************************************************)
(* Prompts                                                                *)
(***************************************************************************)

LEMMA PromptTyped ==
    ASSUME NEW t \in PromptTypes, NEW x \in Texts \cup {Predicted}
    PROVE  Prompt(t, x) \in PromptRecords /\ Prompt(t, x).response = Empty
<1>1. 0 \in 0..MaxRounds
  BY ConstantsAssumption
<1>2. Empty \in Responses
  BY <1>1 DEF Empty, Responses
<1> QED BY <1>2 DEF Prompt, PromptRecords

LEMMA Replaced ==
    ASSUME NEW d \in PamDatas, NEW q
    PROVE  [d EXCEPT !.prompts = q] = [prompts |-> q, sent |-> d.sent]
BY DEF PamDatas

\* A list without responses is sound whether sent or not, if it is not empty.
LEMMA BlankSound ==
    ASSUME NEW q \in Seq(PromptRecords), q # <<>>, NEW s \in BOOLEAN,
           \A i \in DOMAIN q : q[i].response = Empty
    PROVE  Sound([prompts |-> q, sent |-> s]) /\ Kept(q) = {}
<1>1. Kept(q) = {} /\ Apart(q)
  BY DEF Kept, Apart
<1> QED BY <1>1 DEF Sound, PamDatas

\* What is guessed has no responses.
LEMMA GuessedBlank ==
    ASSUME NEW q \in {loginRequest, changePassRequest, changePassNoOldRequest}
    PROVE  /\ q \in Seq(PromptRecords) /\ q # <<>>
           /\ \A i \in DOMAIN q : q[i].response = Empty
<1> DEFINE P(t) == Prompt(t, Predicted)
<1>1. \A t \in PromptTypes : P(t) \in PromptRecords /\ P(t).response = Empty
  BY PromptTyped
<1> HIDE DEF P
<1>2. /\ P("LOGIN_USER") \in PromptRecords /\ P("LOGIN_USER").response = Empty
      /\ P("LOGIN_PASSWORD") \in PromptRecords /\ P("LOGIN_PASSWORD").response = Empty
      /\ P("CHANGE_CURRENT") \in PromptRecords /\ P("CHANGE_CURRENT").response = Empty
      /\ P("CHANGE_NEW") \in PromptRecords /\ P("CHANGE_NEW").response = Empty
      /\ P("CHANGE_REPEAT") \in PromptRecords /\ P("CHANGE_REPEAT").response = Empty
  BY <1>1 DEF PromptTypes
<1>3. /\ loginRequest = <<P("LOGIN_USER"), P("LOGIN_PASSWORD")>>
      /\ changePassNoOldRequest = <<P("CHANGE_NEW"), P("CHANGE_REPEAT")>>
      /\ changePassRequest = <<P("CHANGE_CURRENT")>> \o <<P("CHANGE_NEW"), P("CHANGE_REPEAT")>>
  BY DEF loginRequest, changePassRequest, changePassNoOldRequest, P
<1>4. /\ changePassRequest \in Seq(PromptRecords) /\ changePassRequest # <<>>
      /\ \A i \in DOMAIN changePassRequest : changePassRequest[i].response = Empty
  <2> DEFINE a == <<P("CHANGE_CURRENT")>>
             b == <<P("CHANGE_NEW"), P("CHANGE_REPEAT")>>
  <2>1. /\ a \in Seq(PromptRecords) /\ Len(a) = 1 /\ a[1].response = Empty
        /\ b \in Seq(PromptRecords) /\ Len(b) = 2
        /\ b[1].response = Empty /\ b[2].response = Empty
    BY <1>2
  <2>2. changePassRequest = a \o b
    BY <1>3
  <2> HIDE DEF a, b
  <2>3. /\ a \o b \in Seq(PromptRecords) /\ Len(a \o b) = Len(a) + Len(b)
        /\ \A i \in 1..Len(a) + Len(b) :
              (a \o b)[i] = IF i <= Len(a) THEN a[i] ELSE b[i - Len(a)]
    BY <2>1, ConcatProperties
  <2>4. \A i \in 1..3 : (a \o b)[i] = IF i <= 1 THEN a[i] ELSE b[i - 1]
    BY <2>1, <2>3
  <2>5. \A i \in 1..3 : i # 1 => ~(i <= 1) /\ (i - 1 = 1 \/ i - 1 = 2)
    OBVIOUS
  <2>6. \A i \in 1..3 : (a \o b)[i].response = Empty
    <3> TAKE i \in 1..3
    <3>1. CASE i = 1
      BY <2>1, <2>4, <3>1
    <3>2. CASE i # 1
      <4>1. (a \o b)[i] = b[i - 1] /\ i - 1 \in {1, 2}
        BY <2>4, <2>5, <3>2
      <4> QED BY <2>1, <4>1
    <3> QED BY <3>1, <3>2
  <2>7. changePassRequest # <<>> /\ DOMAIN changePassRequest = 1..3
    BY <2>1, <2>2, <2>3
  <2> QED BY <2>2, <2>3, <2>6, <2>7
<1>5. CASE q = loginRequest
  BY <1>2, <1>3, <1>5
<1>6. CASE q = changePassNoOldRequest
  BY <1>2, <1>3, <1>6
<1>7. CASE q = changePassRequest
  BY <1>4, <1>7, Zenon
<1> QED BY <1>5, <1>6, <1>7

LEMMA Detected ==
    ASSUME NEW m \in PamMessages
    PROVE  detectPrompt(m) \in PromptTypes
BY DEF detectPrompt, PromptTypes

LEMMA FoundThere ==
    ASSUME NEW d \in PamDatas, NEW m
    PROVE  FoundAt(d, m) # 0 => FoundAt(d, m) \in DOMAIN d.prompts
<1> DEFINE Fits == {i \in DOMAIN d.prompts :
                      \/ d.prompts[i].type = detectPrompt(m)
                      \/ detectPrompt(m) = "UNKNOWN" /\ d.prompts[i].text = m.text}
<1>1. FoundAt(d, m) = IF Fits = {} THEN 0 ELSE CHOOSE i \in Fits : \A j \in Fits : i <= j
  BY DEF FoundAt
<1>2. Fits \subseteq DOMAIN d.prompts /\ Fits \subseteq Nat
  BY DEF PamDatas
<1> HIDE DEF Fits
<1>3. Fits # {} => \E i \in Fits : \A j \in Fits : i <= j
  BY <1>2, Least
<1> QED BY <1>1, <1>2, <1>3
-----------------------------------------------------------------------------
(***************************************************************************)
(* What the first loop does for a message                                 *)
(***************************************************************************)

\* The prompt found takes the message's text, and keeps its response.
LEMMA RenamedSound ==
    ASSUME NEW d \in PamDatas, Sound(d), ~d.sent,
           NEW i \in DOMAIN d.prompts, NEW x \in Texts
    PROVE  /\ Sound([d EXCEPT !.prompts = [d.prompts EXCEPT ![i].text = x]])
           /\ Kept([d EXCEPT !.prompts = [d.prompts EXCEPT ![i].text = x]].prompts) = {}
<1> DEFINE q == [d.prompts EXCEPT ![i] = [@ EXCEPT !.text = x]]
<1>1. d.prompts \in Seq(PromptRecords) /\ d.sent \in BOOLEAN
  BY DEF PamDatas
<1>2. \A j \in DOMAIN d.prompts : d.prompts[j] \in PromptRecords /\ d.prompts[j].response = Empty
  <2>1. Kept(d.prompts) = {}
    BY DEF Sound
  <2>2. \A j \in DOMAIN d.prompts : d.prompts[j].response = Empty
    BY <2>1 DEF Kept
  <2> QED BY <1>1, <2>2
<1>3. [d EXCEPT !.prompts = [d.prompts EXCEPT ![i].text = x]] = [prompts |-> q, sent |-> d.sent]
  BY Replaced
<1>4. \A j \in DOMAIN d.prompts :
         q[j] = IF j = i THEN [d.prompts[i] EXCEPT !.text = x] ELSE d.prompts[j]
  BY <1>1
<1>5. [d.prompts[i] EXCEPT !.text = x] \in PromptRecords
      /\ [d.prompts[i] EXCEPT !.text = x].response = Empty
  BY <1>2 DEF PromptRecords
<1>6. DOMAIN q = DOMAIN d.prompts /\ Len(d.prompts) \in Nat /\ DOMAIN d.prompts = 1..Len(d.prompts)
  BY <1>1
<1>7. \A j \in DOMAIN d.prompts : q[j] \in PromptRecords /\ q[j].response = Empty
  BY <1>2, <1>4, <1>5
<1>8. q \in [1..Len(d.prompts) -> PromptRecords]
  BY <1>1, <1>6, <1>7
<1>9. q \in Seq(PromptRecords) /\ q # <<>>
  <2> HIDE DEF q
  <2>1. q \in Seq(PromptRecords)
    BY <1>6, <1>8
  <2>2. i \in DOMAIN q
    BY <1>6
  <2> QED BY <2>1, <2>2
<1> HIDE DEF q
<1>10. Sound([prompts |-> q, sent |-> d.sent]) /\ Kept(q) = {}
  BY <1>1, <1>6, <1>7, <1>9, BlankSound
<1> QED BY <1>3, <1>10

LEMMA AppendedSound ==
    ASSUME NEW d \in PamDatas, Sound(d), ~d.sent, NEW t \in PromptTypes, NEW x \in Texts
    PROVE  LET q == Append(d.prompts, Prompt(t, x))
           IN  Sound([prompts |-> q, sent |-> d.sent]) /\ Kept(q) = {}
<1> DEFINE p == Prompt(t, x)
           q == Append(d.prompts, p)
<1>1. p \in PromptRecords /\ p.response = Empty
  BY PromptTyped
<1> HIDE DEF p
<1>2. d.prompts \in Seq(PromptRecords)
  BY DEF PamDatas
<1>3. \A j \in DOMAIN d.prompts : d.prompts[j].response = Empty
  BY DEF Sound, Kept
<1>4. /\ q \in Seq(PromptRecords) /\ q # <<>> /\ Len(q) = Len(d.prompts) + 1
      /\ \A j \in 1..Len(d.prompts) : q[j] = d.prompts[j]
      /\ q[Len(d.prompts) + 1] = p
  BY <1>1, <1>2, AppendProperties
<1> HIDE DEF q
<1>5. \A j \in DOMAIN q : j \in 1..Len(d.prompts) \/ j = Len(d.prompts) + 1
  BY <1>2, <1>4
<1>6. \A j \in DOMAIN q : q[j].response = Empty
  BY <1>1, <1>2, <1>3, <1>4, <1>5
<1>7. d.sent \in BOOLEAN
  BY DEF PamDatas
<1>8. Sound([prompts |-> q, sent |-> d.sent]) /\ Kept(q) = {}
  BY <1>4, <1>6, <1>7, BlankSound
<1> QED BY <1>8 DEF p, q

LEMMA InsertedSound ==
    ASSUME NEW d \in PamDatas, Sound(d), NEW m \in PamMessages, IsPrompt(m), NEW predict \in BOOLEAN
    PROVE  /\ Sound(InsertedPrompt(d, m, predict))
           /\ Kept(InsertedPrompt(d, m, predict).prompts) \subseteq Kept(d.prompts)
<1> DEFINE t == detectPrompt(m)
           w == WithoutAnswers(d)
<1>1. t \in PromptTypes /\ m.text \in Texts
  BY Detected DEF IsPrompt, Echoed, Hidden
<1>2. CASE FoundAt(d, m) = 0
  <2>1. InsertedPrompt(d, m, predict) = Guess(w, m, predict)
    BY <1>2 DEF InsertedPrompt
  <2>2. w \in PamDatas /\ Sound(w) /\ ~w.sent
    <3>1. CASE d.sent
      <4>1. w = [prompts |-> <<>>, sent |-> FALSE]
        BY <3>1 DEF WithoutAnswers
      <4>2. w \in PamDatas /\ w.prompts = <<>> /\ w.sent = FALSE
        BY <4>1 DEF PamDatas
      <4>3. Kept(w.prompts) = {} /\ Apart(w.prompts)
        BY <4>2 DEF Kept, Apart
      <4> QED BY <4>2, <4>3 DEF Sound
    <3>2. CASE ~d.sent
      BY <3>2 DEF WithoutAnswers
    <3> QED BY <3>1, <3>2
  <2> HIDE DEF w
  <2> DEFINE g == Guess(w, m, predict).prompts
  <2>3. w.sent \in BOOLEAN
    BY <2>2 DEF PamDatas
  <2>4. Guess(w, m, predict) = [prompts |-> g, sent |-> w.sent]
    <3>1. \A q : [w EXCEPT !.prompts = q] = [prompts |-> q, sent |-> w.sent]
      BY <2>2, Replaced
    <3> QED BY <3>1 DEF Guess
  <2>5. \/ g \in {loginRequest, changePassRequest, changePassNoOldRequest}
        \/ g = Append(w.prompts, Prompt(t, m.text))
    <3>1. \A q : [w EXCEPT !.prompts = q].prompts = q
      BY <2>2 DEF PamDatas
    <3> QED BY <3>1 DEF Guess
  <2> HIDE DEF g, t
  <2>6. Sound([prompts |-> g, sent |-> w.sent]) /\ Kept(g) = {}
    <3>1. CASE g \in {loginRequest, changePassRequest, changePassNoOldRequest}
      BY <2>3, <3>1, GuessedBlank, BlankSound
    <3>2. CASE g = Append(w.prompts, Prompt(t, m.text))
      BY <1>1, <2>2, <3>2, AppendedSound
    <3> QED BY <2>5, <3>1, <3>2
  <2> QED BY <2>1, <2>4, <2>6
<1>3. CASE FoundAt(d, m) # 0 /\ d.sent
  BY <1>3 DEF InsertedPrompt
<1>4. CASE FoundAt(d, m) # 0 /\ ~d.sent
  <2>1. FoundAt(d, m) \in DOMAIN d.prompts
    BY <1>4, FoundThere
  <2>2. InsertedPrompt(d, m, predict) = 
        [d EXCEPT !.prompts = [d.prompts EXCEPT ![FoundAt(d, m)].text = m.text]]
    BY <1>4 DEF InsertedPrompt
  <2> QED BY <1>1, <1>4, <2>1, <2>2, RenamedSound
<1> QED BY <1>2, <1>3, <1>4

LEMMA InfoSound ==
    ASSUME NEW d \in PamDatas, Sound(d), NEW m, NEW predict \in BOOLEAN
    PROVE  /\ Sound(AfterInfo(d, m, predict))
           /\ Kept(AfterInfo(d, m, predict).prompts) \subseteq Kept(d.prompts)
<1>1. d = [prompts |-> d.prompts, sent |-> d.sent] /\ d.sent \in BOOLEAN
  BY DEF PamDatas
<1>2. \/ AfterInfo(d, m, predict) = [prompts |-> changePassRequest, sent |-> d.sent]
      \/ AfterInfo(d, m, predict) = d
  BY <1>1 DEF AfterInfo
<1>3. Sound([prompts |-> changePassRequest, sent |-> d.sent]) /\ Kept(changePassRequest) = {}
  BY <1>1, GuessedBlank, BlankSound
<1> QED BY <1>2, <1>3
-----------------------------------------------------------------------------
(***************************************************************************)
(* What the second loop does for a message                                *)
(***************************************************************************)

LEMMA RemovedAt ==
    ASSUME NEW S, NEW p \in Seq(S), NEW i \in DOMAIN p
    PROVE  /\ RemoveAt(p, i) \in Seq(S) /\ Len(RemoveAt(p, i)) = Len(p) - 1
           /\ \A j \in 1..(Len(p) - 1) :
                 RemoveAt(p, i)[j] = p[IF j < i THEN j ELSE j + 1]
<1> DEFINE a == SubSeq(p, 1, i - 1)
           b == SubSeq(p, i + 1, Len(p))
<1>1. Len(p) \in Nat /\ i \in 1..Len(p) /\ \A j \in 1..Len(p) : p[j] \in S
  OBVIOUS
<1>2. a \in Seq(S) /\ Len(a) = i - 1 /\ \A j \in 1..(i - 1) : a[j] = p[j]
  <2>1. 1 \in Int /\ i - 1 \in Int /\ \A j \in 1..(i - 1) : p[j] \in S
    BY <1>1
  <2>2. /\ a \in Seq(S) /\ Len(a) = IF 1 <= i - 1 THEN (i - 1) - 1 + 1 ELSE 0
        /\ \A j \in 1..((i - 1) - 1 + 1) : a[j] = p[1 + j - 1]
    BY <2>1, SubSeqProperties
  <2> HIDE DEF a
  <2> QED BY <1>1, <2>2
<1>3. b \in Seq(S) /\ Len(b) = Len(p) - i /\ \A j \in 1..(Len(p) - i) : b[j] = p[i + j]
  <2>1. i + 1 \in Int /\ Len(p) \in Int /\ \A j \in (i + 1)..Len(p) : p[j] \in S
    BY <1>1
  <2>2. /\ b \in Seq(S) /\ Len(b) = IF i + 1 <= Len(p) THEN Len(p) - (i + 1) + 1 ELSE 0
        /\ \A j \in 1..(Len(p) - (i + 1) + 1) : b[j] = p[(i + 1) + j - 1]
    BY <2>1, SubSeqProperties
  <2> HIDE DEF b
  <2>3. Len(p) - (i + 1) + 1 = Len(p) - i /\ \A j \in Int : (i + 1) + j - 1 = i + j
    BY <1>1
  <2>4. Len(b) = Len(p) - i
    BY <1>1, <2>2
  <2>5. ASSUME NEW j \in 1..(Len(p) - i) PROVE b[j] = p[i + j]
    <3>1. b[j] = p[(i + 1) + j - 1]
      BY <2>2, <2>3
    <3>2. (i + 1) + j - 1 = i + j
      BY <1>1
    <3> QED BY <3>1, <3>2
  <2> QED BY <2>2, <2>4, <2>5
<1>4. RemoveAt(p, i) = a \o b
  BY DEF RemoveAt
<1> HIDE DEF a, b
<1>5. /\ a \o b \in Seq(S) /\ Len(a \o b) = Len(a) + Len(b)
      /\ \A j \in 1..Len(a) + Len(b) :
            (a \o b)[j] = IF j <= Len(a) THEN a[j] ELSE b[j - Len(a)]
  BY <1>2, <1>3, ConcatProperties
<1>6. Len(a) + Len(b) = Len(p) - 1
  BY <1>1, <1>2, <1>3
<1>7. ASSUME NEW j \in 1..(Len(p) - 1)
      PROVE  (a \o b)[j] = p[IF j < i THEN j ELSE j + 1]
  <2>1. CASE j < i
    <3>1. j <= Len(a) /\ j \in 1..(i - 1) /\ j \in 1..Len(a) + Len(b)
      BY <1>1, <1>2, <1>6, <2>1
    <3> QED BY <1>2, <1>5, <2>1, <3>1
  <2>2. CASE ~(j < i)
    <3>1. ~(j <= Len(a)) /\ j - Len(a) = j - (i - 1) /\ j \in 1..Len(a) + Len(b)
      BY <1>1, <1>2, <1>6, <2>2
    <3>2. j - (i - 1) \in 1..(Len(p) - i) /\ i + (j - (i - 1)) = j + 1
      BY <1>1, <2>2
    <3> QED BY <1>3, <1>5, <2>2, <3>1, <3>2
  <2> QED BY <2>1, <2>2
<1> QED BY <1>4, <1>5, <1>6, <1>7

\* getResponse: what is returned is not kept.
LEMMA WithoutSound ==
    ASSUME NEW d \in PamDatas, Sound(d), NEW i, i # 0 => i \in DOMAIN d.prompts
    PROVE  /\ Sound(Without(d, i))
           /\ Kept(Without(d, i).prompts) \subseteq Kept(d.prompts)
           /\ ResponseAt(d, i) \in Kept(d.prompts) \cup {Empty}
           /\ ResponseAt(d, i) \notin Kept(Without(d, i).prompts)
           /\ ResponseAt(d, i) \in Responses
<1> DEFINE p == d.prompts
           left == IF i = 0 THEN p ELSE RemoveAt(p, i)
<1>1. /\ p \in Seq(PromptRecords) /\ d.sent \in BOOLEAN
      /\ Without(d, i) = [prompts |-> left, sent |-> d.sent /\ left # <<>>]
  BY DEF PamDatas, Without
<1>2. Apart(p)
  BY DEF Sound
<1> HIDE DEF p
<1>3. /\ left \in Seq(PromptRecords) /\ Apart(left) /\ Kept(left) \subseteq Kept(p)
      /\ i # 0 => p[i].response \notin Kept(left)
  <2>1. CASE i = 0
    BY <1>1, <1>2, <2>1
  <2>2. CASE i # 0
    <3>1. i \in DOMAIN p /\ left = RemoveAt(p, i)
      BY <2>2 DEF p
    <3> DEFINE n == Len(p)
               o(j) == IF j < i THEN j ELSE j + 1
    <3> HIDE DEF left
    <3>2. /\ left \in Seq(PromptRecords) /\ Len(left) = n - 1
          /\ \A j \in 1..(n - 1) : left[j] = p[o(j)]
      BY <1>1, <3>1, RemovedAt
    <3>3. n \in Nat /\ i \in 1..n /\ DOMAIN left = 1..(n - 1) /\ DOMAIN p = 1..n
      BY <1>1, <3>1, <3>2
    <3> HIDE DEF n
    <3>4. \A j \in DOMAIN left : o(j) \in DOMAIN p /\ o(j) # i /\ left[j] = p[o(j)]
      BY <3>2, <3>3
    <3>5. \A j, k \in DOMAIN left : o(j) = o(k) => j = k
      BY <3>3
    <3> HIDE DEF o
    <3>6. Apart(left)
      BY <1>2, <3>4, <3>5 DEF Apart
    <3>7. Kept(left) \subseteq Kept(p)
      BY <3>4 DEF Kept
    <3>8. p[i].response \notin Kept(left)
      BY <1>2, <3>1, <3>4 DEF Apart, Kept
    <3> QED BY <3>2, <3>6, <3>7, <3>8
  <2> QED BY <2>1, <2>2
<1> HIDE DEF left
<1>4. /\ Without(d, i).prompts = left /\ Without(d, i).sent = (d.sent /\ left # <<>>)
      /\ Without(d, i) \in PamDatas
  BY <1>1, <1>3 DEF PamDatas
<1>5. left = <<>> => Kept(left) = {}
  BY DEF Kept
<1>6. d.sent \/ Kept(left) = {}
  BY <1>3 DEF Sound, p
<1>7. Sound(Without(d, i))
  BY <1>3, <1>4, <1>5, <1>6 DEF Sound
<1>8. Empty \notin Kept(left)
  BY DEF Kept
<1>9. /\ ResponseAt(d, i) \in Kept(p) \cup {Empty}
      /\ ResponseAt(d, i) \notin Kept(left) /\ ResponseAt(d, i) \in Responses
  <2>1. CASE i = 0
    <3>1. Empty \in Responses
      BY ConstantsAssumption DEF Empty, Responses
    <3> QED BY <1>8, <2>1, <3>1 DEF ResponseAt
  <2>2. CASE i # 0
    <3>1. i \in DOMAIN p /\ ResponseAt(d, i) = p[i].response
      BY <2>2 DEF ResponseAt, p
    <3>2. p[i].response \in Responses
      <4>1. p[i] \in PromptRecords
        BY <1>1, <3>1
      <4> QED BY <4>1 DEF PromptRecords
    <3>3. p[i].response \in Kept(p) \cup {Empty}
      BY <3>1 DEF Kept
    <3> QED BY <1>3, <2>2, <3>1, <3>2, <3>3
  <2> QED BY <2>1, <2>2
<1> QED BY <1>3, <1>4, <1>7, <1>9 DEF p
-----------------------------------------------------------------------------
(***************************************************************************)
(* The two loops                                                          *)
(***************************************************************************)

\* The first loop: its steps, from the data it starts with to what it leaves.
HeardBy(f, d, msgs) ==
    /\ f[0] = [data |-> d, new |-> FALSE]
    /\ \A k \in 1..Len(msgs) : f[k] = Hear(f[k - 1], msgs[k], Len(msgs) = 1)
    /\ f[Len(msgs)] = Heard(d, msgs)

\* At each step the data is sound, with no response that was not kept.
LEMMA HeardSteps ==
    ASSUME NEW d \in PamDatas, Sound(d), NEW msgs, Len(msgs) \in Nat,
           \A k \in 1..Len(msgs) : msgs[k] \in PamMessages
    PROVE  \E f : /\ HeardBy(f, d, msgs)
                  /\ \A k \in 0..Len(msgs) :
                        /\ f[k] \in [data: PamDatas, new: BOOLEAN] /\ Sound(f[k].data)
                        /\ Kept(f[k].data.prompts) \subseteq Kept(d.prompts)
<1> DEFINE n == Len(msgs)
           one == Len(msgs) = 1
           D == {e \in PamDatas : Sound(e) /\ Kept(e.prompts) \subseteq Kept(d.prompts)}
           B == [data: D, new: BOOLEAN]
           b0 == [data |-> d, new |-> FALSE]
           Fits(f) == f = [k \in 0..n |-> IF k = 0 THEN b0 ELSE Hear(f[k - 1], msgs[k], one)]
           F == CHOOSE f : Fits(f)
<1>1. Heard(d, msgs) = F[n]
  BY Zenon DEF Heard
<1>2. b0 \in B
  OBVIOUS
<1>3. ASSUME NEW b \in B, NEW k \in 1..n
      PROVE  Hear(b, msgs[k], one) \in B
  <2> DEFINE m == msgs[k]
  <2>1. m \in PamMessages /\ one \in BOOLEAN /\ b.data \in D /\ b.new \in BOOLEAN
    OBVIOUS
  <2> HIDE DEF one, m
  <2>2. Sound(b.data) /\ b.data \in PamDatas /\ Kept(b.data.prompts) \subseteq Kept(d.prompts)
    BY <2>1
  <2>3. CASE IsPrompt(m)
    <3> DEFINE e == InsertedPrompt(b.data, m, one)
    <3>1. Sound(e) /\ Kept(e.prompts) \subseteq Kept(b.data.prompts)
      BY <2>1, <2>2, <2>3, InsertedSound
    <3>2. e \in PamDatas
      BY <3>1 DEF Sound
    <3>3. Hear(b, m, one) = [data |-> e, new |-> NeedsRequest(b.data, m)]
      BY <2>3 DEF Hear
    <3>4. NeedsRequest(b.data, m) \in BOOLEAN
      BY DEF NeedsRequest
    <3> HIDE DEF e
    <3> QED BY <2>2, <3>1, <3>2, <3>3, <3>4 DEF m
  <2>4. CASE ~IsPrompt(m) /\ m.style = "PAM_TEXT_INFO"
    <3> DEFINE e == AfterInfo(b.data, m, one)
    <3>1. Sound(e) /\ Kept(e.prompts) \subseteq Kept(b.data.prompts)
      BY <2>1, <2>2, InfoSound
    <3>2. e \in PamDatas
      BY <3>1 DEF Sound
    <3>3. Hear(b, m, one) = [data |-> e, new |-> b.new]
      BY <2>4 DEF Hear
    <3> HIDE DEF e
    <3> QED BY <2>1, <2>2, <3>1, <3>2, <3>3 DEF m
  <2>5. CASE ~IsPrompt(m) /\ m.style # "PAM_TEXT_INFO"
    BY <2>5 DEF Hear, m
  <2> QED BY <2>3, <2>4, <2>5
<1> HIDE DEF B, b0, D, one
<1>4. Fits(F)
  <2> DEFINE S == [k \in 1..n |-> [b \in B |-> Hear(b, msgs[k], one)]]
  <2>1. S \in [1..n -> [B -> B]]
    BY <1>3
  <2>2. \A k \in 1..n : \A b \in B : S[k][b] = Hear(b, msgs[k], one)
    OBVIOUS
  <2> HIDE DEF S
  <2>3. PICK f \in [0..n -> B] : Takes(f, b0, n, S)
    BY <1>2, <2>1, Recursion
  <2>4. \A k \in 0..n : k # 0 => k \in 1..n /\ k - 1 \in 0..n
    OBVIOUS
  <2>5. \A k \in 0..n : f[k] = IF k = 0 THEN b0 ELSE Hear(f[k - 1], msgs[k], one)
    BY <2>2, <2>3, <2>4 DEF Takes
  <2>6. Fits(f)
    BY <2>5
  <2> HIDE DEF Fits
  <2> QED BY <2>6
<1> DEFINE T == {k \in 0..n : F[k] \in B}
<1> HIDE DEF F
<1>5. 0 \in T
  BY <1>2, <1>4
<1>6. ASSUME NEW k \in 1..n, k - 1 \in T PROVE k \in T
  <2>1. k \in 0..n /\ k # 0
    OBVIOUS
  <2>2. F[k] = Hear(F[k - 1], msgs[k], one)
    BY <1>4, <2>1
  <2> QED BY <1>3, <1>6, <2>1, <2>2
<1>7. 0..n \subseteq T
  <2> HIDE DEF T
  <2> QED BY <1>5, <1>6, UpTo
<1>8. \A k \in 0..n :
         /\ F[k] \in [data: PamDatas, new: BOOLEAN] /\ Sound(F[k].data)
         /\ Kept(F[k].data.prompts) \subseteq Kept(d.prompts)
  BY <1>7 DEF B, D
<1>9. HeardBy(F, d, msgs)
  <2>1. 0 \in 0..n /\ \A k \in 1..n : k \in 0..n /\ k # 0
    OBVIOUS
  <2> QED BY <1>1, <1>4, <2>1 DEF HeardBy, b0, one
<1> QED BY <1>8, <1>9

\* What the first loop leaves is sound, with no response that was not kept.
LEMMA HeardSound ==
    ASSUME NEW d \in PamDatas, Sound(d), NEW msgs, Len(msgs) \in Nat,
           \A k \in 1..Len(msgs) : msgs[k] \in PamMessages
    PROVE  /\ Heard(d, msgs).data \in PamDatas /\ Sound(Heard(d, msgs).data)
           /\ Kept(Heard(d, msgs).data.prompts) \subseteq Kept(d.prompts)
<1>1. PICK f : /\ HeardBy(f, d, msgs)
               /\ \A k \in 0..Len(msgs) :
                     /\ f[k] \in [data: PamDatas, new: BOOLEAN] /\ Sound(f[k].data)
                     /\ Kept(f[k].data.prompts) \subseteq Kept(d.prompts)
  BY HeardSteps
<1>2. Len(msgs) \in 0..Len(msgs) /\ Heard(d, msgs) = f[Len(msgs)]
  BY <1>1 DEF HeardBy
<1> QED BY <1>1, <1>2

\* The second loop, likewise.
AnsweredBy(f, d, msgs) ==
    /\ f[0] = [data |-> d, got |-> <<>>]
    /\ \A k \in 1..Len(msgs) : f[k] = Answer(f[k - 1], msgs[k])
    /\ f[Len(msgs)] = Answered(d, msgs)

\* The response to the first message was kept, and no longer is.
FirstGone(b, d) ==
    /\ b.got[1] \in Kept(d.prompts) \cup {Empty}
    /\ b.got[1] \notin Kept(b.data.prompts)
    /\ b.got[1] \in Responses

LEMMA AnsweredSteps ==
    ASSUME NEW d \in PamDatas, Sound(d), NEW msgs, Len(msgs) \in Nat \ {0},
           \A k \in 1..Len(msgs) : msgs[k] \in PamMessages
    PROVE  \E f : /\ AnsweredBy(f, d, msgs)
                  /\ \A k \in 0..Len(msgs) :
                        /\ f[k] \in [data: PamDatas, got: Seq(Responses)] /\ Sound(f[k].data)
                        /\ Kept(f[k].data.prompts) \subseteq Kept(d.prompts)
                        /\ Len(f[k].got) = k
                        /\ k # 0 => FirstGone(f[k], d)
<1> DEFINE n == Len(msgs)
           D == {e \in PamDatas : Sound(e) /\ Kept(e.prompts) \subseteq Kept(d.prompts)}
           B == [data: D, got: Seq(Responses)]
           b0 == [data |-> d, got |-> <<>>]
           First(b) == FirstGone(b, d)
           Fits(f) == f = [k \in 0..n |-> IF k = 0 THEN b0 ELSE Answer(f[k - 1], msgs[k])]
           F == CHOOSE f : Fits(f)
<1>1. Answered(d, msgs) = F[n]
  BY Zenon DEF Answered
<1>2. b0 \in B
  OBVIOUS
<1>3. ASSUME NEW b \in B, NEW k \in 1..n
      PROVE  /\ Answer(b, msgs[k]) \in B
             /\ Len(Answer(b, msgs[k]).got) = Len(b.got) + 1
             /\ Len(b.got) = 0 \/ First(b) => First(Answer(b, msgs[k]))
  <2> DEFINE m == msgs[k]
             i == FoundAt(b.data, m)
             e == Without(b.data, i)
             r == ResponseAt(b.data, i)
             g == Append(b.got, r)
  <2>1. /\ b.data \in PamDatas /\ Sound(b.data) /\ Kept(b.data.prompts) \subseteq Kept(d.prompts)
        /\ b.got \in Seq(Responses)
    OBVIOUS
  <2>2. Answer(b, m) = [data |-> e, got |-> g]
    BY DEF Answer
  <2>3. i # 0 => i \in DOMAIN b.data.prompts
    BY <2>1, FoundThere
  <2> HIDE DEF i, m
  <2>4. /\ Sound(e) /\ Kept(e.prompts) \subseteq Kept(b.data.prompts)
        /\ r \in Kept(b.data.prompts) \cup {Empty}
        /\ r \notin Kept(e.prompts) /\ r \in Responses
    BY <2>1, <2>3, WithoutSound
  <2>5. e \in PamDatas
    BY <2>4 DEF Sound
  <2> HIDE DEF e, r
  <2>6. /\ g \in Seq(Responses) /\ Len(g) = Len(b.got) + 1 /\ Len(b.got) \in Nat
        /\ \A j \in 1..Len(b.got) : g[j] = b.got[j]
        /\ g[Len(b.got) + 1] = r
    BY <2>1, <2>4, AppendProperties
  <2> HIDE DEF g
  <2>7. [data |-> e, got |-> g] \in B
    BY <2>1, <2>4, <2>5, <2>6
  <2>8. CASE Len(b.got) = 0
    <3>1. g[1] = r
      BY <2>6, <2>8
    <3>2. First([data |-> e, got |-> g])
      BY <2>1, <2>4, <3>1 DEF FirstGone
    <3> QED BY <2>2, <2>6, <2>7, <3>2 DEF m
  <2>9. CASE Len(b.got) # 0
    <3>1. g[1] = b.got[1]
      BY <2>6, <2>9
    <3>2. First(b) => First([data |-> e, got |-> g])
      BY <2>1, <2>4, <3>1 DEF FirstGone
    <3> QED BY <2>2, <2>6, <2>7, <2>9, <3>2 DEF m
  <2> QED BY <2>8, <2>9
<1> HIDE DEF B, b0, D, First
<1>4. Fits(F)
  <2> DEFINE S == [k \in 1..n |-> [b \in B |-> Answer(b, msgs[k])]]
  <2>1. S \in [1..n -> [B -> B]]
    BY <1>3
  <2>2. \A k \in 1..n : \A b \in B : S[k][b] = Answer(b, msgs[k])
    OBVIOUS
  <2> HIDE DEF S
  <2>3. PICK f \in [0..n -> B] : Takes(f, b0, n, S)
    BY <1>2, <2>1, Recursion
  <2>4. \A k \in 0..n : k # 0 => k \in 1..n /\ k - 1 \in 0..n
    OBVIOUS
  <2>5. \A k \in 0..n : f[k] = IF k = 0 THEN b0 ELSE Answer(f[k - 1], msgs[k])
    BY <2>2, <2>3, <2>4 DEF Takes
  <2>6. Fits(f)
    BY <2>5
  <2> HIDE DEF Fits
  <2> QED BY <2>6
<1> DEFINE T == {k \in 0..n : /\ F[k] \in B /\ Len(F[k].got) = k
                              /\ k # 0 => First(F[k])}
<1> HIDE DEF F
<1>5. 0 \in T
  <2>1. F[0] = b0
    BY <1>4
  <2>2. Len(b0.got) = 0
    BY DEF b0
  <2> QED BY <1>2, <2>1, <2>2
<1>6. ASSUME NEW k \in 1..n, k - 1 \in T PROVE k \in T
  <2>1. k \in 0..n /\ k # 0 /\ (k - 1) + 1 = k
    OBVIOUS
  <2>2. F[k] = Answer(F[k - 1], msgs[k])
    BY <1>4, <2>1
  <2>3. F[k - 1] \in B /\ Len(F[k - 1].got) = k - 1 /\ (k - 1 # 0 => First(F[k - 1]))
    BY <1>6
  <2> DEFINE b == F[k - 1]
  <2> HIDE DEF b
  <2>4. F[k] \in B /\ Len(F[k].got) = k /\ First(F[k])
    BY <1>3, <2>1, <2>2, <2>3
  <2> QED BY <2>1, <2>4
<1>7. 0..n \subseteq T
  <2> HIDE DEF T
  <2> QED BY <1>5, <1>6, UpTo
<1>8. \A k \in 0..n :
         /\ F[k] \in [data: PamDatas, got: Seq(Responses)] /\ Sound(F[k].data)
         /\ Kept(F[k].data.prompts) \subseteq Kept(d.prompts)
         /\ Len(F[k].got) = k /\ (k # 0 => FirstGone(F[k], d))
  BY <1>7 DEF B, D, First
<1>9. AnsweredBy(F, d, msgs)
  <2>1. 0 \in 0..n /\ \A k \in 1..n : k \in 0..n /\ k # 0
    OBVIOUS
  <2> QED BY <1>1, <1>4, <2>1 DEF AnsweredBy, b0
<1> QED BY <1>8, <1>9

\* What is left after the second loop is sound, and the response that PAM gets
\* for the first message was kept and is no longer.
LEMMA AnsweredSound ==
    ASSUME NEW d \in PamDatas, Sound(d), NEW msgs, Len(msgs) \in Nat \ {0},
           \A k \in 1..Len(msgs) : msgs[k] \in PamMessages
    PROVE  LET a == Answered(d, msgs)
           IN  /\ a.data \in PamDatas /\ Sound(a.data)
               /\ Kept(a.data.prompts) \subseteq Kept(d.prompts)
               /\ a.got[1] \in Kept(d.prompts) \cup {Empty}
               /\ a.got[1] \notin Kept(a.data.prompts)
               /\ a.got[1] \in Responses
<1>1. PICK f : /\ AnsweredBy(f, d, msgs)
               /\ \A k \in 0..Len(msgs) :
                     /\ f[k] \in [data: PamDatas, got: Seq(Responses)] /\ Sound(f[k].data)
                     /\ Kept(f[k].data.prompts) \subseteq Kept(d.prompts)
                     /\ Len(f[k].got) = k
                     /\ k # 0 => FirstGone(f[k], d)
  BY AnsweredSteps
<1>2. Len(msgs) \in 0..Len(msgs) /\ Len(msgs) # 0 /\ Answered(d, msgs) = f[Len(msgs)]
  BY <1>1 DEF AnsweredBy
<1> QED BY <1>1, <1>2 DEF FirstGone

-----------------------------------------------------------------------------
(***************************************************************************)
(* The inductive invariant                                                *)
(***************************************************************************)

\* The responses kept in d are none of those used, and none is newer than r.
Fresh(d, r) ==
    /\ Sound(d)
    /\ used \subseteq Responses \ {Empty} /\ used \cap Kept(d.prompts) = {}
    /\ \A x \in used \cup Kept(d.prompts) : x.request <= r

\* While the daemon is asked, what it answers will be new.
Asked ==
    phase = "asking" =>
        ~data.sent /\ batch \in Batches /\ \A x \in used : x.request < round

IInv == TypeOK /\ Fresh(data, round) /\ Asked /\ OneAnswerOneUse

LEMMA InitIInv == Init => IInv
<1> SUFFICES ASSUME Init PROVE IInv
  OBVIOUS
<1>1. data = [prompts |-> <<>>, sent |-> FALSE] /\ used = {} /\ round = 0
  BY DEF Init
<1>2. Kept(data.prompts) = {} /\ Apart(data.prompts)
  BY <1>1 DEF Kept, Apart
<1>3. data \in PamDatas /\ Sound(data)
  BY <1>1, <1>2 DEF Sound, PamDatas
<1>4. Fresh(data, round)
  BY <1>1, <1>2, <1>3 DEF Fresh
<1>5. TypeOK
  <2>1. data.sent => data.prompts # <<>>
    BY <1>3 DEF Sound
  <2>2. batch \in Seq(PamMessages) /\ answers \in Seq(Responses)
    BY DEF Init
  <2>3. used \subseteq Responses /\ twice \in BOOLEAN /\ phase = "idle"
    BY DEF Init
  <2>4. round \in 0..MaxRounds
    BY <1>1, ConstantsAssumption
  <2> QED BY <1>3, <2>1, <2>2, <2>3, <2>4 DEF TypeOK
<1> QED BY <1>4, <1>5 DEF IInv, Asked, OneAnswerOneUse, Init

\* GiveToPam uses a response that was not used and keeps the others.
LEMMA Given ==
    ASSUME NEW d, NEW r \in Nat, Fresh(d, r), Fresh(data, r), OneAnswerOneUse, twice \in BOOLEAN,
           NEW msgs \in Batches, GiveToPam(d, msgs)
    PROVE  /\ Fresh(data, r)' /\ OneAnswerOneUse' /\ twice' \in BOOLEAN
           /\ phase' \in {"idle", "crashed"} /\ answers' \in Seq(Responses)
<1>1. CASE phase' = "crashed" /\ data' = data /\ answers' = <<>> /\ UNCHANGED <<used, twice>>
  <2>1. Fresh(data, r)'
    BY <1>1 DEF Fresh
  <2>2. OneAnswerOneUse' /\ twice' \in BOOLEAN /\ answers' \in Seq(Responses)
    BY <1>1 DEF OneAnswerOneUse
  <2> QED BY <1>1, <2>1, <2>2
<1>2. CASE LET a == Answered(d, msgs)
           IN  /\ data' = a.data
               /\ answers' = [k \in DOMAIN msgs |-> IF k = 1 THEN a.got[1] ELSE Empty]
               /\ phase' = "idle"
               /\ used' = used \cup ({answers'[k] : k \in DOMAIN msgs} \ {Empty})
               /\ twice' = (twice \/ \E k \in DOMAIN msgs : answers'[k] \in used)
  <2> DEFINE a == Answered(d, msgs)
             x == a.got[1]
  <2>1. d \in PamDatas /\ Sound(d)
    BY DEF Fresh, Sound
  <2>2. PICK n \in 1..MaxBatch : msgs \in [1..n -> PamMessages]
    BY DEF Batches
  <2>3. n \in Nat \ {0} /\ DOMAIN msgs = 1..n /\ 1 \in 1..n
    BY <2>2, ConstantsAssumption
  <2>4. Len(msgs) = n /\ \A k \in 1..n : msgs[k] \in PamMessages
    BY <2>2, <2>3
  <2>5. /\ a.data \in PamDatas /\ Sound(a.data)
        /\ Kept(a.data.prompts) \subseteq Kept(d.prompts)
        /\ x \in Kept(d.prompts) \cup {Empty} /\ x \notin Kept(a.data.prompts)
        /\ x \in Responses
    BY <2>1, <2>3, <2>4, AnsweredSound
  <2>6. /\ data' = a.data /\ phase' = "idle"
        /\ answers' = [k \in 1..n |-> IF k = 1 THEN x ELSE Empty]
        /\ used' = used \cup ({answers'[k] : k \in 1..n} \ {Empty})
        /\ twice' = (twice \/ \E k \in 1..n : answers'[k] \in used)
    BY <1>2, <2>3
  <2> HIDE DEF a, x
  <2>7. Empty \in Responses
    BY ConstantsAssumption DEF Empty, Responses
  <2>8. \A k \in 1..n : answers'[k] = (IF k = 1 THEN x ELSE Empty) /\ answers'[k] \in Responses
    BY <2>5, <2>6, <2>7
  <2>9. answers' \in Seq(Responses)
    <3>1. answers' \in [1..n -> Responses]
      BY <2>6, <2>8
    <3> QED BY <2>3, <3>1
  <2>10. {answers'[k] : k \in 1..n} \ {Empty} = {x} \ {Empty}
    BY <2>3, <2>8
  <2>11. used' = used \cup ({x} \ {Empty})
    BY <2>6, <2>10
  <2>12. x \notin used /\ Empty \notin used
    BY <2>5 DEF Fresh
  <2>13. ~twice /\ \A k \in 1..n : answers'[k] \notin used
    BY <2>8, <2>12 DEF OneAnswerOneUse
  <2>14. twice' = FALSE
    BY <2>6, <2>13
  <2>15. Fresh(data, r)'
    <3>1. Sound(data')
      BY <2>5, <2>6
    <3>2. used' \subseteq Responses \ {Empty}
      BY <2>5, <2>11 DEF Fresh
    <3>3. used' \cap Kept(data'.prompts) = {}
      BY <2>5, <2>6, <2>11 DEF Fresh
    <3>4. \A y \in used' \cup Kept(data'.prompts) : y.request <= r
      BY <2>5, <2>6, <2>11 DEF Fresh
    <3> QED BY <3>1, <3>2, <3>3, <3>4 DEF Fresh
  <2> QED BY <2>6, <2>9, <2>14, <2>15 DEF OneAnswerOneUse
<1> QED BY <1>1, <1>2 DEF GiveToPam

\* The reply has one response, or the user's name and the password.
LEMMA Replied ==
    ASSUME TypeOK, Answerable(data)
    PROVE  \E q \in Seq(PromptRecords) :
              /\ Completed(data, ReplyOf(data)) = [prompts |-> q, sent |-> TRUE]
              /\ Len(q) = Len(data.prompts) /\ q # <<>>
              /\ \A i \in 1..Len(q) :
                    /\ q[i].type = data.prompts[i].type
                    /\ q[i].response = [kind |-> ResponseKinds(Len(q))[i], request |-> round]
                    /\ q[i].response \in Responses
<1> DEFINE p == data.prompts
           n == Len(p)
           x(i) == [kind |-> ResponseKinds(n)[i], request |-> round]
           q == ReplyOf(data)
<1>1. p \in Seq(PromptRecords) /\ round \in 0..MaxRounds
  BY DEF TypeOK, PamDatas
<1>2. n \in {1, 2} /\ DOMAIN p = 1..n /\ \A i \in 1..n : p[i] \in PromptRecords
  BY <1>1 DEF Answerable
<1>3. \A i \in 1..n : ResponseKinds(n)[i] \in {"user", "password"}
  <2>1. CASE n = 1
    BY <2>1 DEF ResponseKinds
  <2>2. CASE n = 2
    BY <2>2 DEF ResponseKinds
  <2> QED BY <1>2, <2>1, <2>2
<1>4. q = [i \in 1..n |-> [p[i] EXCEPT !.response = x(i)]]
  BY <1>2 DEF ReplyOf
<1>5. \A i \in 1..n : x(i) \in Responses
  BY <1>1, <1>3 DEF Responses
<1> HIDE DEF q, n, p, x
<1>6. ASSUME NEW i \in 1..n
      PROVE  /\ q[i] \in PromptRecords /\ q[i].response = x(i)
             /\ q[i].type = p[i].type /\ q[i].text = p[i].text
  <2>1. q[i] = [p[i] EXCEPT !.response = x(i)]
    BY <1>4
  <2>2. p[i] \in PromptRecords /\ x(i) \in Responses
    BY <1>2, <1>5
  <2> QED BY <2>1, <2>2 DEF PromptRecords
<1>7. DOMAIN q = 1..n /\ q \in Seq(PromptRecords) /\ Len(q) = n /\ q # <<>>
  <2>1. q \in [1..n -> PromptRecords]
    BY <1>4, <1>6
  <2>2. n \in Nat /\ n # 0
    BY <1>2
  <2>3. q \in Seq(PromptRecords) /\ Len(q) = n
    BY <2>1, <2>2
  <2> QED BY <2>1, <2>2, <2>3
<1>8. Completed(data, q) = [prompts |-> q, sent |-> TRUE]
  BY <1>6, <1>7 DEF Completed, p, n
<1>9. \A i \in 1..Len(q) :
         /\ q[i].type = p[i].type
         /\ q[i].response = [kind |-> ResponseKinds(Len(q))[i], request |-> round]
         /\ q[i].response \in Responses
  BY <1>5, <1>6, <1>7 DEF x
<1> QED BY <1>7, <1>8, <1>9 DEF q, p, n

\* The responses of the reply are new.
LEMMA RepliedFresh ==
    ASSUME TypeOK, Fresh(data, round), Asked, phase = "asking", Answerable(data)
    PROVE  Fresh(Completed(data, ReplyOf(data)), round)
<1> DEFINE n == Len(data.prompts)
           k(i) == ResponseKinds(n)[i]
           x(i) == [kind |-> k(i), request |-> round]
<1>1. round \in 0..MaxRounds /\ round \in Nat
  BY ConstantsAssumption DEF TypeOK
<1>2. n \in {1, 2}
  BY DEF Answerable
<1>3. PICK q \in Seq(PromptRecords) :
         /\ Completed(data, ReplyOf(data)) = [prompts |-> q, sent |-> TRUE]
         /\ Len(q) = n /\ q # <<>>
         /\ \A i \in 1..n : q[i].response = x(i) /\ q[i].response \in Responses
  BY Replied
<1>4. /\ \A i \in 1..n : k(i) \in {"user", "password"}
      /\ \A i, j \in 1..n : k(i) = k(j) => i = j
  <2>1. CASE n = 1
    BY <2>1 DEF ResponseKinds
  <2>2. CASE n = 2
    BY <2>2 DEF ResponseKinds
  <2> QED BY <1>2, <2>1, <2>2
<1> HIDE DEF k, n
<1>5. \A i \in 1..n : x(i) # Empty /\ x(i).request = round
  BY <1>4 DEF Empty
<1>6. \A i, j \in 1..n : x(i) = x(j) => i = j
  BY <1>4
<1> HIDE DEF x
<1>7. DOMAIN q = 1..n
  BY <1>3
<1>8. Apart(q) /\ Kept(q) = {x(i) : i \in 1..n}
  <2>1. Apart(q)
    BY <1>3, <1>6, <1>7 DEF Apart
  <2>2. Kept(q) = {x(i) : i \in 1..n}
    BY <1>3, <1>5, <1>7 DEF Kept
  <2> QED BY <2>1, <2>2
<1>9. Sound([prompts |-> q, sent |-> TRUE])
  BY <1>3, <1>8 DEF Sound, PamDatas
<1>10. \A y \in Kept(q) : y.request = round
  BY <1>5, <1>8
<1>11. used \cap Kept(q) = {}
  <2>1. \A y \in used : y.request < round
    BY DEF Asked
  <2>2. used \subseteq Responses
    BY DEF TypeOK
  <2>3. \A y \in used : y.request \in Int
    BY <2>2 DEF Responses
  <2> QED BY <1>1, <1>10, <2>1, <2>3
<1>12. \A y \in used \cup Kept(q) : y.request <= round
  BY <1>1, <1>10 DEF Fresh
<1>13. Fresh([prompts |-> q, sent |-> TRUE], round)
  BY <1>9, <1>11, <1>12 DEF Fresh
<1> QED BY <1>3, <1>13

\* A state after GiveToPam.
LEMMA AfterGiving ==
    ASSUME NEW r \in Nat, r = round', Fresh(data, r)', OneAnswerOneUse', twice' \in BOOLEAN,
           phase' \in {"idle", "crashed"}, answers' \in Seq(Responses),
           batch' \in Seq(PamMessages), round' \in 0..MaxRounds
    PROVE  IInv'
<1>1. Fresh(data, round)'
  BY DEF Fresh
<1>2. Sound(data)' /\ used' \subseteq Responses
  BY DEF Fresh
<1>3. data' \in PamDatas /\ (data'.sent => data'.prompts # <<>>)
  BY <1>2 DEF Sound
<1>4. TypeOK'
  BY <1>2, <1>3 DEF TypeOK
<1>5. Asked'
  BY DEF Asked
<1> QED BY <1>1, <1>4, <1>5 DEF IInv

LEMMA ConverseKeeps ==
    ASSUME IInv, NEW msgs \in Batches, Converse(msgs)
    PROVE  IInv'
<1> DEFINE h == Heard(data, msgs)
<1>1. /\ TypeOK /\ Fresh(data, round) /\ OneAnswerOneUse /\ data \in PamDatas /\ Sound(data)
      /\ round \in Nat /\ round' = round + 1 /\ batch' = msgs /\ round < MaxRounds
  BY ConstantsAssumption DEF IInv, TypeOK, Fresh, Converse
<1>2. PICK n \in 1..MaxBatch : msgs \in [1..n -> PamMessages]
  BY DEF Batches
<1>3. Len(msgs) = n /\ n \in Nat /\ msgs \in Seq(PamMessages)
      /\ \A k \in 1..n : msgs[k] \in PamMessages
  BY <1>2, ConstantsAssumption
<1>4. round' \in 0..MaxRounds /\ round' \in Nat /\ round <= round'
  BY <1>1, ConstantsAssumption
<1>5. /\ h.data \in PamDatas /\ Sound(h.data)
      /\ Kept(h.data.prompts) \subseteq Kept(data.prompts)
  BY <1>1, <1>3, HeardSound
<1>6. \/ /\ ~h.data.sent /\ data' = h.data /\ phase' = "asking" /\ answers' = <<>>
         /\ UNCHANGED <<used, twice>>
      \/ GiveToPam(h.data, msgs)
  BY DEF Converse
<1> HIDE DEF h
<1>7. \A y \in used \cup Kept(data.prompts) : y.request \in Int /\ y.request <= round
  <2>1. used \subseteq Responses
    BY <1>1 DEF TypeOK
  <2>2. Kept(data.prompts) \subseteq Responses
    <3>1. data.prompts \in Seq(PromptRecords)
      BY <1>1 DEF PamDatas
    <3>2. \A i \in DOMAIN data.prompts : data.prompts[i] \in PromptRecords
      BY <3>1
    <3>3. \A i \in DOMAIN data.prompts : data.prompts[i].response \in Responses
      BY <3>2 DEF PromptRecords
    <3> QED BY <3>3 DEF Kept
  <2> QED BY <1>1, <2>1, <2>2 DEF Fresh, Responses
<1>8. Fresh(h.data, round') /\ Fresh(data, round') /\ \A y \in used : y.request < round'
  <2>1. \A y \in used \cup Kept(data.prompts) : y.request <= round' /\ y.request < round'
    BY <1>1, <1>7
  <2> QED BY <1>1, <1>5, <2>1 DEF Fresh
<1>9. CASE GiveToPam(h.data, msgs)
  <2> DEFINE r == round'
  <2>1. r \in Nat /\ r = round' /\ Fresh(h.data, r) /\ Fresh(data, r) /\ twice \in BOOLEAN
    BY <1>1, <1>4, <1>8 DEF TypeOK
  <2>2. PICK s \in Nat : s = r
    BY <2>1
  <2>3. Fresh(h.data, s) /\ Fresh(data, s)
    BY <2>1, <2>2
  <2> HIDE DEF r
  <2>4. /\ Fresh(data, s)' /\ OneAnswerOneUse' /\ twice' \in BOOLEAN
        /\ phase' \in {"idle", "crashed"} /\ answers' \in Seq(Responses)
    BY <1>1, <1>9, <2>1, <2>3, Given
  <2>5. s = round' /\ batch' \in Seq(PamMessages) /\ round' \in 0..MaxRounds
    BY <1>1, <1>3, <1>4, <2>1, <2>2
  <2> QED BY <2>4, <2>5, AfterGiving
<1>10. CASE /\ ~h.data.sent /\ data' = h.data /\ phase' = "asking" /\ answers' = <<>>
            /\ UNCHANGED <<used, twice>>
  <2>1. Fresh(data, round)'
    BY <1>8, <1>10 DEF Fresh
  <2>2. Asked'
    BY <1>1, <1>8, <1>10 DEF Asked
  <2>3. OneAnswerOneUse'
    BY <1>1, <1>10 DEF OneAnswerOneUse
  <2>4. used' \subseteq Responses /\ twice' \in BOOLEAN /\ answers' \in Seq(Responses)
    BY <1>1, <1>10 DEF TypeOK
  <2>5. TypeOK'
    BY <1>1, <1>3, <1>4, <1>5, <1>10, <2>4 DEF TypeOK
  <2> QED BY <2>1, <2>2, <2>3, <2>5 DEF IInv
<1> QED BY <1>6, <1>9, <1>10

LEMMA ReplyKeeps ==
    ASSUME IInv, DaemonReplies
    PROVE  IInv'
<1>1. /\ TypeOK /\ Fresh(data, round) /\ Asked /\ OneAnswerOneUse
      /\ phase = "asking" /\ Answerable(data) /\ batch \in Batches
      /\ GiveToPam(Completed(data, ReplyOf(data)), batch)
      /\ batch' = batch /\ round' = round
  BY DEF IInv, Asked, DaemonReplies
<1>2. Fresh(Completed(data, ReplyOf(data)), round)
  BY <1>1, RepliedFresh
<1>3. /\ round \in Nat /\ round \in 0..MaxRounds /\ twice \in BOOLEAN
      /\ batch \in Seq(PamMessages)
  BY <1>1, ConstantsAssumption DEF TypeOK
<1>4. PICK r \in Nat : r = round
  BY <1>3
<1>5. Fresh(Completed(data, ReplyOf(data)), r) /\ Fresh(data, r)
  BY <1>1, <1>2, <1>4
<1>6. /\ Fresh(data, r)' /\ OneAnswerOneUse' /\ twice' \in BOOLEAN
      /\ phase' \in {"idle", "crashed"} /\ answers' \in Seq(Responses)
  BY <1>1, <1>3, <1>5, Given
<1>7. r = round' /\ batch' \in Seq(PamMessages) /\ round' \in 0..MaxRounds
  BY <1>1, <1>3, <1>4
<1> QED BY <1>6, <1>7, AfterGiving

-----------------------------------------------------------------------------
(***************************************************************************)
(* The theorems                                                           *)
(***************************************************************************)

\* The invariant is kept by every conversation and reply (PamBackend::converse).
THEOREM Inductive == Spec => []IInv
<1>1. IInv /\ [Next]_vars => IInv'
  <2> SUFFICES ASSUME IInv, [Next]_vars PROVE IInv'
    OBVIOUS
  <2>1. CASE \E msgs \in Batches : Converse(msgs)
    BY <2>1, ConverseKeeps
  <2>2. CASE DaemonReplies
    BY <2>2, ReplyKeeps
  <2>3. CASE DaemonGone
    <3>1. /\ phase' = "failed"
          /\ data' = data /\ batch' = batch /\ answers' = answers
          /\ used' = used /\ twice' = twice /\ round' = round
      BY <2>3 DEF DaemonGone
    <3>2. TypeOK'
      BY <3>1 DEF IInv, TypeOK
    <3>3. Fresh(data, round)' /\ Asked' /\ OneAnswerOneUse'
      BY <3>1 DEF IInv, Fresh, Asked, OneAnswerOneUse
    <3> QED BY <3>2, <3>3 DEF IInv
  <2>4. CASE UNCHANGED vars
    <3>1. /\ phase' = phase
          /\ data' = data /\ batch' = batch /\ answers' = answers
          /\ used' = used /\ twice' = twice /\ round' = round
      BY <2>4 DEF vars
    <3>2. TypeOK'
      BY <3>1 DEF IInv, TypeOK
    <3>3. Fresh(data, round)' /\ Asked' /\ OneAnswerOneUse'
      BY <3>1 DEF IInv, Fresh, Asked, OneAnswerOneUse
    <3> QED BY <3>2, <3>3 DEF IInv
  <2> QED BY <2>1, <2>2, <2>3, <2>4 DEF Next
<1> QED BY <1>1, InitIInv, PTL DEF Spec

\* Whatever PAM asks, in conversations of any length, PamData holds prompts with
\* a type and a response, and a request that was sent has prompts (getResponse).
THEOREM TypeCorrect == Spec => []TypeOK
<1>1. IInv => TypeOK
  BY DEF IInv
<1> QED BY <1>1, Inductive, PTL

\* getResponse and insertPrompt: however many messages PAM sends at once and
\* however often it asks, none of the daemon's responses is used a second time.
THEOREM AnswersUsedOnce == Spec => []OneAnswerOneUse
<1>1. IInv => OneAnswerOneUse
  BY DEF IInv
<1> QED BY <1>1, Inductive, PTL

-----------------------------------------------------------------------------
(***************************************************************************)
(* Login prompts are answered, each with what it asks for.                *)
(* A request that was guessed has the user's name before the password,    *)
(* and one made of a conversation's own messages leaves no prompt for the *)
(* next one but those slotRequestChanged gave the right response.         *)
(***************************************************************************)

LoginOnes == {"LOGIN_USER", "LOGIN_PASSWORD"}

\* A password is to be changed.
Changes(q) == \E i \in DOMAIN q : q[i].type \notin LoginTypes

\* One prompt at most for the name and one for the password, each of a message
\* with a number in S.
Single(q) ==
    \A i, j \in DOMAIN q : q[i].type = q[j].type /\ q[i].type \in LoginOnes => i = j
OfMessages(q, msgs, S) ==
    \A i \in DOMAIN q : q[i].type \in LoginOnes =>
        \E k \in S : detectPrompt(msgs[k]) = q[i].type

\* Prompts at the places slotRequestChanged answers them at; the answers.
InPlace(q) ==
    \A i \in DOMAIN q :
        /\ q[i].type = "LOGIN_USER" => i = 1 /\ Len(q) = 2
        /\ q[i].type = "LOGIN_PASSWORD" => i = Len(q)
RightKinds(q) ==
    \A i \in DOMAIN q :
        /\ q[i].type = "LOGIN_USER" => q[i].response.kind = "user"
        /\ q[i].type = "LOGIN_PASSWORD" => q[i].response.kind = "password"

LEMMA RequestTypes ==
    /\ Len(loginRequest) = 2 /\ DOMAIN loginRequest = 1..2
    /\ loginRequest[1].type = "LOGIN_USER" /\ loginRequest[2].type = "LOGIN_PASSWORD"
    /\ Len(changePassNoOldRequest) = 2 /\ DOMAIN changePassNoOldRequest = 1..2
    /\ \A i \in 1..2 : changePassNoOldRequest[i].type \notin LoginTypes
    /\ Len(changePassRequest) = 3 /\ DOMAIN changePassRequest = 1..3
    /\ \A i \in 1..3 : changePassRequest[i].type \notin LoginTypes
<1>1. \A t : Prompt(t, Predicted).type = t
  BY DEF Prompt
<1>2. /\ Len(loginRequest) = 2 /\ DOMAIN loginRequest = 1..2
      /\ loginRequest[1].type = "LOGIN_USER" /\ loginRequest[2].type = "LOGIN_PASSWORD"
  BY <1>1 DEF loginRequest
<1>3. /\ Len(changePassNoOldRequest) = 2 /\ DOMAIN changePassNoOldRequest = 1..2
      /\ changePassNoOldRequest[1].type = "CHANGE_NEW"
      /\ changePassNoOldRequest[2].type = "CHANGE_REPEAT"
  BY <1>1 DEF changePassNoOldRequest
<1> DEFINE a == <<Prompt("CHANGE_CURRENT", Predicted)>>
           b == changePassNoOldRequest
<1>4. /\ a \in Seq(PromptRecords) /\ b \in Seq(PromptRecords) /\ changePassRequest = a \o b
      /\ Len(a) = 1 /\ a[1].type = "CHANGE_CURRENT"
  <2>1. Prompt("CHANGE_CURRENT", Predicted) \in PromptRecords
    BY PromptTyped DEF PromptTypes
  <2> QED BY <1>1, <2>1, GuessedBlank DEF changePassRequest
<1> HIDE DEF a, b
<1>5. /\ Len(a \o b) = Len(a) + Len(b) /\ a \o b \in Seq(PromptRecords)
      /\ \A i \in 1..Len(a) + Len(b) :
            (a \o b)[i] = IF i <= Len(a) THEN a[i] ELSE b[i - Len(a)]
  BY <1>4, ConcatProperties
<1>6. Len(a \o b) = 3 /\ DOMAIN (a \o b) = 1..3
  BY <1>3, <1>4, <1>5 DEF b
<1>7. \A i \in 1..3 : (a \o b)[i] = IF i <= 1 THEN a[i] ELSE b[i - 1]
  BY <1>3, <1>4, <1>5 DEF b
<1>8. (a \o b)[1] = a[1] /\ (a \o b)[2] = b[1] /\ (a \o b)[3] = b[2]
  <2> DEFINE c == a \o b
  <2>1. \A i \in 1..3 : c[i] = IF i <= 1 THEN a[i] ELSE b[i - 1]
    BY <1>7
  <2> HIDE DEF c
  <2>2. c[1] = a[1] /\ c[2] = b[1] /\ c[3] = b[2]
    BY <2>1
  <2> QED BY <2>2 DEF c
<1>9. \A i \in 1..3 : (a \o b)[i].type \notin LoginTypes
  <2>1. \A i \in 1..3 : i = 1 \/ i = 2 \/ i = 3
    OBVIOUS
  <2> QED BY <1>3, <1>4, <1>8, <2>1 DEF b, LoginTypes
<1>10. \A i \in 1..2 : changePassNoOldRequest[i].type \notin LoginTypes
  <2>1. \A i \in 1..2 : i = 1 \/ i = 2
    OBVIOUS
  <2> QED BY <1>3, <2>1 DEF LoginTypes
<1> QED BY <1>2, <1>3, <1>4, <1>6, <1>9, <1>10

\* The prompt found for a message, if it is not an unknown one, has its type.
LEMMA FoundType ==
    ASSUME NEW d \in PamDatas, NEW m
    PROVE  /\ FoundAt(d, m) = 0 => \A i \in DOMAIN d.prompts : d.prompts[i].type # detectPrompt(m)
           /\ FoundAt(d, m) # 0 => FoundAt(d, m) \in DOMAIN d.prompts
           /\ FoundAt(d, m) # 0 /\ detectPrompt(m) # "UNKNOWN" =>
                d.prompts[FoundAt(d, m)].type = detectPrompt(m)
<1> DEFINE Fits == {i \in DOMAIN d.prompts :
                      \/ d.prompts[i].type = detectPrompt(m)
                      \/ detectPrompt(m) = "UNKNOWN" /\ d.prompts[i].text = m.text}
<1>1. FoundAt(d, m) = IF Fits = {} THEN 0 ELSE CHOOSE i \in Fits : \A j \in Fits : i <= j
  BY DEF FoundAt
<1>2. Fits \subseteq Nat \ {0}
  <2>1. d.prompts \in Seq(PromptRecords)
    BY DEF PamDatas
  <2>2. DOMAIN d.prompts \subseteq Nat \ {0}
    BY <2>1
  <2> QED BY <2>2
<1>3. Fits # {} => FoundAt(d, m) \in Fits
  <2> HIDE DEF Fits
  <2>1. Fits # {} => \E i \in Fits : \A j \in Fits : i <= j
    BY <1>2, Least
  <2> QED BY <1>1, <2>1
<1>4. Fits # {} => FoundAt(d, m) # 0
  BY <1>2, <1>3
<1>5. CASE Fits = {}
  BY <1>1, <1>5
<1>6. CASE Fits # {}
  BY <1>3, <1>4, <1>6
<1> QED BY <1>5, <1>6

\* One more prompt of type t where there was none.
Grown(q, t, r) ==
    /\ Len(r) = Len(q) + 1 /\ r[Len(r)].type = t
    /\ \A i \in 1..Len(q) : q[i].type # t
SameTypes(q, r) == \A i \in 1..Len(q) : r[i].type = q[i].type

\* insertPrompt without a guess: the prompt found is renamed, or one of the
\* message's type is added where there was none.
LEMMA InsertedTypes ==
    ASSUME NEW d \in PamDatas, ~d.sent, NEW m \in PamMessages, IsPrompt(m),
           NEW q, q = d.prompts
    PROVE  \E r \in Seq(PromptRecords) :
              /\ InsertedPrompt(d, m, FALSE) = [prompts |-> r, sent |-> FALSE] /\ r # <<>>
              /\ SameTypes(q, r)
              /\ Len(r) = Len(q) \/ Grown(q, detectPrompt(m), r)
<1> DEFINE t == detectPrompt(m)
           f == FoundAt(d, m)
           e == InsertedPrompt(d, m, FALSE)
<1>1. /\ q \in Seq(PromptRecords) /\ Len(q) \in Nat /\ DOMAIN q = 1..Len(q)
      /\ t \in PromptTypes /\ m.text \in Texts /\ d.sent = FALSE
  BY Detected DEF PamDatas, IsPrompt, Echoed, Hidden
<1>2. CASE f = 0
  <2> DEFINE p == Prompt(t, m.text)
  <2>1. e = [d EXCEPT !.prompts = Append(@, p)]
    BY <1>2 DEF InsertedPrompt, WithoutAnswers, Guess
  <2>2. p \in PromptRecords /\ p.type = t
    BY <1>1, PromptTyped DEF Prompt
  <2>3. e = [prompts |-> Append(q, p), sent |-> FALSE]
    BY <1>1, <2>1, Replaced
  <2> DEFINE r == Append(q, p)
  <2> HIDE DEF p, e
  <2>5. /\ Append(q, p) \in Seq(PromptRecords) /\ Append(q, p) # <<>>
        /\ Len(Append(q, p)) = Len(q) + 1
        /\ \A i \in 1..Len(q) : Append(q, p)[i] = q[i]
        /\ Append(q, p)[Len(q) + 1] = p
    BY <1>1, <2>2, AppendProperties
  <2>6. /\ r \in Seq(PromptRecords) /\ r # <<>> /\ Len(r) = Len(q) + 1 /\ r[Len(r)] = p
        /\ \A i \in 1..Len(q) : r[i] = q[i]
    BY <1>1, <2>5
  <2>7. \A i \in 1..Len(q) : q[i].type # t
    BY <1>1, <1>2, FoundType
  <2> HIDE DEF r
  <2>8. e = [prompts |-> r, sent |-> FALSE]
    BY <2>3 DEF r
  <2>9. SameTypes(q, r)
    BY <2>6 DEF SameTypes
  <2>10. Grown(q, t, r)
    BY <2>2, <2>6, <2>7 DEF Grown
  <2> QED BY <2>6, <2>8, <2>9, <2>10 DEF e
<1>3. CASE f # 0
  <2>1. f \in DOMAIN q
    BY <1>3, FoundType
  <2> DEFINE x == [q EXCEPT ![f].text = m.text]
  <2>2. e = [prompts |-> x, sent |-> FALSE]
    <3>1. e = [d EXCEPT !.prompts = x]
      BY <1>1, <1>3 DEF InsertedPrompt
    <3> QED BY <1>1, <3>1, Replaced
  <2>4. q[f] \in PromptRecords
    BY <1>1, <2>1
  <2>5. /\ [q[f] EXCEPT !.text = m.text] \in PromptRecords
        /\ [q[f] EXCEPT !.text = m.text].type = q[f].type
    BY <1>1, <2>4 DEF PromptRecords
  <2>6. \A i \in 1..Len(q) : x[i] = IF i = f THEN [q[f] EXCEPT !.text = m.text] ELSE q[i]
    BY <1>1
  <2>7. DOMAIN x = 1..Len(q)
    BY <1>1
  <2>8. \A i \in 1..Len(q) : x[i].type = q[i].type /\ x[i] \in PromptRecords
    BY <1>1, <2>5, <2>6
  <2>9. x \in [1..Len(q) -> PromptRecords]
    BY <2>7, <2>8
  <2> HIDE DEF x, e
  <2>10. x \in Seq(PromptRecords) /\ Len(x) = Len(q) /\ x # <<>>
    BY <1>1, <2>1, <2>7, <2>9
  <2>11. SameTypes(q, x)
    BY <2>8 DEF SameTypes
  <2> QED BY <2>2, <2>10, <2>11 DEF e
<1> QED BY <1>2, <1>3

\* A request made of messages 1..k that are not guessed from.
Built(e, msgs, k) ==
    /\ ~e.sent /\ Single(e.prompts) /\ OfMessages(e.prompts, msgs, 1..k)
    /\ Len(e.prompts) <= k \/ Changes(e.prompts)

LEMMA BuiltStep ==
    ASSUME NEW d \in PamDatas, NEW msgs, NEW k \in Nat \ {0}, Built(d, msgs, k - 1),
           msgs[k] \in PamMessages, IsPrompt(msgs[k])
    PROVE  /\ Built(InsertedPrompt(d, msgs[k], FALSE), msgs, k)
           /\ InsertedPrompt(d, msgs[k], FALSE).prompts # <<>>
<1> DEFINE m == msgs[k]
           t == detectPrompt(m)
           q == d.prompts
           e == InsertedPrompt(d, m, FALSE)
<1>1. PICK r \in Seq(PromptRecords) :
         /\ e = [prompts |-> r, sent |-> FALSE] /\ r # <<>> /\ SameTypes(q, r)
         /\ Len(r) = Len(q) \/ Grown(q, t, r)
  BY InsertedTypes DEF Built
<1>2. /\ q \in Seq(PromptRecords) /\ Len(q) \in Nat /\ DOMAIN q = 1..Len(q)
      /\ Len(r) \in Nat /\ DOMAIN r = 1..Len(r)
  BY DEF PamDatas
<1> HIDE DEF e, q, t, m
<1>3. ASSUME NEW i \in DOMAIN r
      PROVE  \/ i \in DOMAIN q /\ r[i].type = q[i].type
             \/ i = Len(r) /\ Grown(q, t, r) /\ r[i].type = t
  <2>1. CASE i \in 1..Len(q)
    BY <1>1, <1>2, <2>1 DEF SameTypes
  <2>2. CASE i \notin 1..Len(q)
    <3>1. Len(r) # Len(q)
      BY <1>2, <2>2
    <3>2. Grown(q, t, r)
      BY <1>1, <3>1
    <3>3. Len(r) = Len(q) + 1 /\ r[Len(r)].type = t
      BY <3>2 DEF Grown
    <3>4. i \in Int /\ i <= Len(q) + 1 /\ ~(1 <= i /\ i <= Len(q)) /\ 1 <= i
      BY <1>2, <2>2, <3>3
    <3>5. i = Len(r)
      BY <1>2, <3>3, <3>4
    <3> QED BY <3>2, <3>3, <3>5
  <2> QED BY <2>1, <2>2
<1>4. Single(q) /\ OfMessages(q, msgs, 1..(k - 1)) /\ (Len(q) <= k - 1 \/ Changes(q))
  BY DEF Built, q
<1>5. Single(r)
  <2> SUFFICES ASSUME NEW i \in DOMAIN r, NEW j \in DOMAIN r,
                      r[i].type = r[j].type, r[i].type \in LoginOnes
               PROVE  i = j
    BY DEF Single
  <2>1. CASE i \in DOMAIN q /\ r[i].type = q[i].type
    <3>1. CASE j \in DOMAIN q /\ r[j].type = q[j].type
      BY <1>4, <2>1, <3>1 DEF Single
    <3>2. CASE j = Len(r) /\ Grown(q, t, r) /\ r[j].type = t
      BY <1>2, <2>1, <3>2 DEF Grown
    <3> QED BY <1>3, <3>1, <3>2
  <2>2. CASE i = Len(r) /\ Grown(q, t, r) /\ r[i].type = t
    <3>1. CASE j \in DOMAIN q /\ r[j].type = q[j].type
      BY <1>2, <2>2, <3>1 DEF Grown
    <3>2. CASE j = Len(r)
      BY <2>2, <3>2
    <3> QED BY <1>3, <3>1, <3>2
  <2> QED BY <1>3, <2>1, <2>2
<1>6. OfMessages(r, msgs, 1..k)
  <2> SUFFICES ASSUME NEW i \in DOMAIN r, r[i].type \in LoginOnes
               PROVE  \E j \in 1..k : detectPrompt(msgs[j]) = r[i].type
    BY DEF OfMessages
  <2>1. \A j \in 1..(k - 1) : j \in 1..k
    OBVIOUS
  <2>2. CASE i \in DOMAIN q /\ r[i].type = q[i].type
    BY <1>4, <2>1, <2>2 DEF OfMessages
  <2>3. CASE r[i].type = t
    <3>1. k \in 1..k
      OBVIOUS
    <3> QED BY <2>3, <3>1 DEF t, m
  <2> QED BY <1>3, <2>2, <2>3
<1>7. Len(r) <= k \/ Changes(r)
  <2>1. CASE Len(q) <= k - 1
    <3>1. CASE Len(r) = Len(q)
      BY <1>2, <2>1, <3>1
    <3>2. CASE Grown(q, t, r)
      BY <1>2, <2>1, <3>2 DEF Grown
    <3> QED BY <1>1, <3>1, <3>2
  <2>2. CASE Changes(q)
    <3>1. PICK i \in DOMAIN q : q[i].type \notin LoginTypes
      BY <2>2 DEF Changes
    <3>2. i \in DOMAIN r
      <4>1. CASE Len(r) = Len(q)
        BY <1>2, <4>1
      <4>2. CASE Grown(q, t, r)
        <5>1. Len(r) = Len(q) + 1
          BY <4>2 DEF Grown
        <5>2. i \in Int /\ 1 <= i /\ i <= Len(q)
          BY <1>2
        <5> QED BY <1>2, <5>1, <5>2
      <4> QED BY <1>1, <4>1, <4>2
    <3>3. r[i].type = q[i].type
      BY <1>1, <1>2 DEF SameTypes
    <3> QED BY <3>1, <3>2, <3>3 DEF Changes
  <2> QED BY <1>4, <2>1, <2>2
<1>8. e.prompts = r /\ e.sent = FALSE
  BY <1>1
<1> QED BY <1>1, <1>5, <1>6, <1>7, <1>8 DEF Built, m, e


\* Between conversations: answers of the right kinds, or a guess not yet sent.
Idle(d) ==
    IF d.sent THEN RightKinds(d.prompts) ELSE d.prompts \in {<<>>, changePassRequest}
Blank == [prompts |-> <<>>, sent |-> FALSE]

LEMMA IdleTypes ==
    ASSUME NEW d \in PamDatas, Idle(d), ~d.sent
    PROVE  \A i \in DOMAIN d.prompts : d.prompts[i].type \notin LoginTypes
BY RequestTypes DEF Idle

LEMMA IdleBuilt ==
    ASSUME NEW d \in PamDatas, Idle(d), ~d.sent, NEW msgs, NEW k \in Nat
    PROVE  Built(d, msgs, k)
<1>1. \A i \in DOMAIN d.prompts : d.prompts[i].type \notin LoginOnes
  BY IdleTypes DEF LoginTypes, LoginOnes
<1>2. Single(d.prompts) /\ OfMessages(d.prompts, msgs, 1..k)
  BY <1>1 DEF Single, OfMessages
<1>3. Len(d.prompts) <= k \/ Changes(d.prompts)
  <2>1. CASE d.prompts = <<>>
    BY <2>1
  <2>2. CASE d.prompts = changePassRequest
    <3>1. 1 \in DOMAIN changePassRequest /\ changePassRequest[1].type \notin LoginTypes
      BY RequestTypes
    <3> QED BY <2>2, <3>1 DEF Changes
  <2> QED BY <2>1, <2>2 DEF Idle
<1> QED BY <1>2, <1>3 DEF Built

\* A prompt not found among those sent: they are thrown away before the guess.
LEMMA Cleared ==
    ASSUME NEW d \in PamDatas, d.sent, NEW m, FoundAt(d, m) = 0, NEW p \in BOOLEAN
    PROVE  /\ InsertedPrompt(d, m, p) = InsertedPrompt(Blank, m, p)
           /\ Blank \in PamDatas /\ Idle(Blank) /\ Blank.sent = FALSE /\ FoundAt(Blank, m) = 0
<1>1. /\ Blank \in PamDatas /\ Idle(Blank) /\ Blank.sent = FALSE /\ Blank.prompts = <<>>
      /\ Blank = [prompts |-> <<>>, sent |-> FALSE]
  BY DEF Blank, Idle, PamDatas
<1>2. FoundAt(Blank, m) = 0
  BY <1>1, FoundType
<1>3. InsertedPrompt(d, m, p) = Guess(Blank, m, p)
  BY <1>1 DEF InsertedPrompt, WithoutAnswers
<1>4. InsertedPrompt(Blank, m, p) = Guess(Blank, m, p)
  BY <1>1, <1>2 DEF InsertedPrompt, WithoutAnswers
<1> QED BY <1>1, <1>2, <1>3, <1>4

\* The first loop on several messages: either nothing new was asked for, or
\* the request is made of the messages heard.
HeardMany(d, b, msgs, k) ==
    \/ b.data = d /\ b.new = FALSE /\ (d.sent \/ \A j \in 1..k : ~IsPrompt(msgs[j]))
    \/ b.new = TRUE /\ Built(b.data, msgs, k) /\ b.data.prompts # <<>>

LEMMA HeardManyStep ==
    ASSUME NEW d \in PamDatas, Idle(d), NEW msgs, NEW k \in Nat \ {0}, msgs[k] \in PamMessages,
           NEW b \in [data: PamDatas, new: BOOLEAN], HeardMany(d, b, msgs, k - 1)
    PROVE  HeardMany(d, Hear(b, msgs[k], FALSE), msgs, k)
<1> DEFINE m == msgs[k]
           c == Hear(b, m, FALSE)
<1>0. b.data \in PamDatas /\ b.new \in BOOLEAN /\ b = [data |-> b.data, new |-> b.new]
      /\ d.sent \in BOOLEAN /\ b.data.sent \in BOOLEAN
  BY DEF PamDatas
<1>1. CASE IsPrompt(m)
  <2> DEFINE e == InsertedPrompt(b.data, m, FALSE)
  <2>1. c = [data |-> e, new |-> NeedsRequest(b.data, m)]
    BY <1>1 DEF Hear
  <2> HIDE DEF c
  <2>2. c.data = e /\ c.new = NeedsRequest(b.data, m) /\ c.new \in BOOLEAN
    BY <2>1 DEF NeedsRequest
  <2> HIDE DEF e, m
  <2>3. ASSUME Built(b.data, msgs, k - 1) PROVE HeardMany(d, c, msgs, k)
    <3>1. Built(e, msgs, k) /\ e.prompts # <<>>
      BY <1>0, <1>1, <2>3, BuiltStep DEF e, m
    <3>2. c.new = TRUE
      BY <2>2, <2>3 DEF NeedsRequest, Built
    <3> QED BY <2>2, <3>1, <3>2 DEF HeardMany
  <2>4. CASE b.data = d /\ ~d.sent
    <3>1. k - 1 \in Nat
      OBVIOUS
    <3> QED BY <2>3, <2>4, <3>1, IdleBuilt DEF c, m
  <2>5. CASE b.data = d /\ d.sent /\ FoundAt(d, m) # 0
    <3>1. e = d
      BY <2>5 DEF InsertedPrompt, e
    <3>2. c.new = FALSE
      BY <2>2, <2>5 DEF NeedsRequest
    <3> QED BY <2>2, <2>5, <3>1, <3>2 DEF HeardMany, c, m
  <2>6. CASE b.data = d /\ d.sent /\ FoundAt(d, m) = 0
    <3>1. /\ e = InsertedPrompt(Blank, m, FALSE)
          /\ Blank \in PamDatas /\ Idle(Blank) /\ Blank.sent = FALSE
      BY <2>6, Cleared DEF e
    <3>2. k - 1 \in Nat
      OBVIOUS
    <3>3. Built(Blank, msgs, k - 1)
      BY <3>1, <3>2, IdleBuilt
    <3>4. Built(e, msgs, k) /\ e.prompts # <<>>
      BY <1>1, <3>1, <3>3, BuiltStep DEF m
    <3>5. c.new = TRUE
      BY <2>2, <2>6 DEF NeedsRequest
    <3> QED BY <2>2, <3>4, <3>5 DEF HeardMany, c, m
  <2>7. b.data = d \/ Built(b.data, msgs, k - 1)
    BY DEF HeardMany
  <2> QED BY <1>0, <2>3, <2>4, <2>5, <2>6, <2>7 DEF c, m
<1>2. CASE ~IsPrompt(m)
  <2>1. c = b
    BY <1>0, <1>2 DEF Hear, AfterInfo
  <2> HIDE DEF c
  <2>2. CASE b.data = d /\ b.new = FALSE /\ (d.sent \/ \A j \in 1..(k - 1) : ~IsPrompt(msgs[j]))
    <3>1. \A j \in 1..k : j \in 1..(k - 1) \/ j = k
      OBVIOUS
    <3> QED BY <1>2, <2>1, <2>2, <3>1 DEF HeardMany, c, m
  <2>3. CASE b.new = TRUE /\ Built(b.data, msgs, k - 1) /\ b.data.prompts # <<>>
    <3>1. \A j \in 1..(k - 1) : j \in 1..k
      OBVIOUS
    <3>2. Len(b.data.prompts) \in Nat
      BY <1>0 DEF PamDatas
    <3>3. Len(b.data.prompts) <= k - 1 => Len(b.data.prompts) <= k
      BY <3>2
    <3>4. OfMessages(b.data.prompts, msgs, 1..(k - 1)) => OfMessages(b.data.prompts, msgs, 1..k)
      BY <3>1 DEF OfMessages
    <3>5. Built(b.data, msgs, k)
      BY <2>3, <3>3, <3>4 DEF Built
    <3> QED BY <2>1, <2>3, <3>5 DEF HeardMany, c, m
  <2> QED BY <2>2, <2>3 DEF HeardMany, c, m
<1> QED BY <1>1, <1>2

LEMMA ManyHeard ==
    ASSUME NEW d \in PamDatas, Sound(d), Idle(d), NEW msgs, Len(msgs) \in Nat, Len(msgs) # 1,
           \A k \in 1..Len(msgs) : msgs[k] \in PamMessages
    PROVE  HeardMany(d, Heard(d, msgs), msgs, Len(msgs))
<1> DEFINE n == Len(msgs)
<1>1. PICK f : /\ HeardBy(f, d, msgs)
               /\ \A k \in 0..n : f[k] \in [data: PamDatas, new: BOOLEAN]
  BY HeardSteps
<1>2. /\ f[0] = [data |-> d, new |-> FALSE] /\ f[n] = Heard(d, msgs)
      /\ \A k \in 1..n : f[k] = Hear(f[k - 1], msgs[k], FALSE)
  <2>1. (Len(msgs) = 1) = FALSE
    OBVIOUS
  <2> QED BY <1>1, <2>1 DEF HeardBy
<1> DEFINE T == {k \in 0..n : HeardMany(d, f[k], msgs, k)}
<1>3. 0 \in T
  <2>1. 0 \in 0..n /\ 1..0 = {}
    OBVIOUS
  <2>2. f[0].data = d /\ f[0].new = FALSE
    BY <1>2
  <2> QED BY <2>1, <2>2 DEF HeardMany
<1>4. ASSUME NEW k \in 1..n, k - 1 \in T PROVE k \in T
  <2>1. k \in Nat \ {0} /\ k \in 0..n /\ k - 1 \in 0..n /\ msgs[k] \in PamMessages
    OBVIOUS
  <2>2. HeardMany(d, f[k - 1], msgs, k - 1) /\ f[k - 1] \in [data: PamDatas, new: BOOLEAN]
    BY <1>1, <1>4, <2>1
  <2>3. HeardMany(d, Hear(f[k - 1], msgs[k], FALSE), msgs, k)
    BY <2>1, <2>2, HeardManyStep
  <2> QED BY <1>2, <2>1, <2>3
<1>5. 0..n \subseteq T
  <2> HIDE DEF T
  <2>1. n \in Nat
    OBVIOUS
  <2> HIDE DEF n
  <2> QED BY <1>3, <1>4, <2>1, UpTo
<1>6. n \in T
  BY <1>5
<1> QED BY <1>2, <1>6

\* The request q that one prompt m makes: at most two prompts, in the places
\* they are answered at, or prompts for a new password; one of m's type.
Request(q, m) ==
    /\ q # <<>>
    /\ Len(q) \in {1, 2} \/ Changes(q)
    /\ Len(q) >= 3 \/ InPlace(q)
    /\ detectPrompt(m) \in LoginOnes => \E i \in DOMAIN q : q[i].type = detectPrompt(m)

LEMMA GuessedRequest ==
    ASSUME NEW d \in PamDatas, d.prompts \in {<<>>, changePassRequest},
           NEW m \in PamMessages, IsPrompt(m)
    PROVE  Request(Guess(d, m, TRUE).prompts, m)
<1> DEFINE t == detectPrompt(m)
           q == Guess(d, m, TRUE).prompts
           p == d.prompts
<1>1. t \in PromptTypes /\ m.text \in Texts /\ p \in Seq(PromptRecords)
  BY Detected DEF PamDatas, IsPrompt, Echoed, Hidden
<1>2. q = CASE t = "LOGIN_USER" -> loginRequest
            [] t = "CHANGE_CURRENT" -> changePassRequest
            [] t = "CHANGE_NEW" -> changePassNoOldRequest
            [] OTHER -> Append(p, Prompt(t, m.text))
  BY DEF Guess, PamDatas
<1> HIDE DEF q
<1>3. CASE t = "LOGIN_USER"
  <2>1. q = loginRequest
    BY <1>2, <1>3
  <2>2. Len(q) = 2 /\ DOMAIN q = 1..2 /\ q[1].type = "LOGIN_USER" /\ q[2].type = "LOGIN_PASSWORD"
    BY <2>1, RequestTypes
  <2>3. InPlace(q) /\ q # <<>>
    BY <2>2 DEF InPlace
  <2>4. 1 \in DOMAIN q
    BY <2>2
  <2> QED BY <1>3, <2>2, <2>3, <2>4 DEF Request, q
<1>4. CASE t = "CHANGE_CURRENT"
  <2>1. q = changePassRequest
    BY <1>2, <1>4
  <2>2. Len(q) = 3 /\ 1 \in DOMAIN q /\ q[1].type \notin LoginTypes /\ q # <<>>
    BY <2>1, RequestTypes
  <2>3. Changes(q) /\ Len(q) >= 3
    BY <2>2 DEF Changes
  <2>4. t \notin LoginOnes
    BY <1>4 DEF LoginOnes
  <2> QED BY <2>2, <2>3, <2>4 DEF Request, q
<1>5. CASE t = "CHANGE_NEW"
  <2>1. q = changePassNoOldRequest
    BY <1>2, <1>5
  <2>2. Len(q) = 2 /\ DOMAIN q = 1..2 /\ q # <<>> /\ \A i \in 1..2 : q[i].type \notin LoginTypes
    BY <2>1, RequestTypes
  <2>3. InPlace(q)
    BY <2>2 DEF InPlace, LoginTypes
  <2> QED BY <1>5, <2>2, <2>3 DEF Request, q, LoginOnes
<1>6. CASE t \notin {"LOGIN_USER", "CHANGE_CURRENT", "CHANGE_NEW"}
  <2> DEFINE x == Prompt(t, m.text)
  <2>1. q = Append(p, x)
    BY <1>2, <1>6
  <2>2. x \in PromptRecords /\ x.type = t
    BY <1>1, PromptTyped DEF Prompt
  <2> HIDE DEF x
  <2>3. /\ q # <<>> /\ Len(q) = Len(p) + 1 /\ q \in Seq(PromptRecords)
        /\ \A i \in 1..Len(p) : q[i] = p[i]
        /\ q[Len(p) + 1] = x
    BY <1>1, <2>1, <2>2, AppendProperties
  <2>4. Len(p) \in Nat /\ DOMAIN q = 1..(Len(p) + 1)
    BY <1>1, <2>3
  <2>5. CASE p = <<>>
    <3>1. Len(p) = 0
      BY <2>5
    <3>2. Len(q) = 1 /\ DOMAIN q = 1..1 /\ q[1].type = t
      BY <2>2, <2>3, <2>4, <3>1
    <3>3. \A i \in DOMAIN q : i = 1 /\ q[i].type = t
      BY <3>2
    <3>4. InPlace(q) /\ 1 \in DOMAIN q
      BY <1>6, <3>2, <3>3 DEF InPlace
    <3> QED BY <2>3, <3>2, <3>4 DEF Request, q
  <2>6. CASE p = changePassRequest
    <3>1. Len(p) = 3 /\ 1 \in 1..Len(p) /\ p[1].type \notin LoginTypes
      BY <2>6, RequestTypes
    <3>2. 1 \in DOMAIN q /\ 4 \in DOMAIN q
      BY <2>4, <3>1
    <3>3. Len(q) = 4 /\ q[1].type \notin LoginTypes /\ q[4].type = t
      BY <2>2, <2>3, <3>1
    <3>4. Changes(q) /\ Len(q) >= 3
      BY <3>2, <3>3 DEF Changes
    <3>5. \E i \in DOMAIN q : q[i].type = t
      BY <3>2, <3>3
    <3> QED BY <2>3, <3>4, <3>5 DEF Request, q
  <2> QED BY <2>5, <2>6
<1> QED BY <1>3, <1>4, <1>5, <1>6

\* The first loop on one message: it asks the daemon for a request of its own,
\* or it has a prompt the answers kept are for, or is a note.
HeardOne(d, h, m) ==
    \/ /\ h.new = FALSE
       /\ h.data = d \/ h.data = [prompts |-> changePassRequest, sent |-> d.sent]
       /\ IsPrompt(m) => h.data = d /\ d.sent /\ FoundAt(d, m) # 0
    \/ h.new = TRUE /\ ~h.data.sent /\ Request(h.data.prompts, m)

LEMMA OneHeard ==
    ASSUME NEW d \in PamDatas, Sound(d), Idle(d), NEW msgs, Len(msgs) = 1,
           msgs[1] \in PamMessages
    PROVE  HeardOne(d, Heard(d, msgs), msgs[1])
<1> DEFINE m == msgs[1]
           h == Heard(d, msgs)
           b == [data |-> d, new |-> FALSE]
<1>0. Len(msgs) \in Nat /\ (\A k \in 1..Len(msgs) : msgs[k] \in PamMessages) /\ 1 \in 1..Len(msgs)
      /\ (Len(msgs) = 1) = TRUE
  BY Zenon, SMT
<1>1. PICK f : HeardBy(f, d, msgs)
  BY <1>0, HeardSteps
<1>2. h = Hear(b, m, TRUE)
  <2>1. f[1] = Hear(f[1 - 1], m, TRUE) /\ h = f[1]
    BY <1>0, <1>1 DEF HeardBy
  <2>2. 1 - 1 = 0
    OBVIOUS
  <2> QED BY <1>1, <2>1, <2>2 DEF HeardBy
<1> HIDE DEF h, m
<1>3. d.sent \in BOOLEAN /\ b.data = d /\ b.new = FALSE /\ m \in PamMessages
  BY DEF PamDatas, m
<1>4. CASE ~IsPrompt(m)
  <2>1. \/ AfterInfo(d, m, TRUE) = d
        \/ AfterInfo(d, m, TRUE) = [prompts |-> changePassRequest, sent |-> d.sent]
    BY Replaced DEF AfterInfo
  <2>2. h.new = FALSE /\ (h.data = AfterInfo(d, m, TRUE) \/ h.data = d)
    BY <1>2, <1>4 DEF Hear
  <2> QED BY <1>4, <2>1, <2>2 DEF HeardOne, h, m
<1>5. CASE IsPrompt(m)
  <2> DEFINE e == InsertedPrompt(d, m, TRUE)
  <2>1. h.data = e /\ h.new = NeedsRequest(d, m) /\ h.new \in BOOLEAN
    BY <1>2, <1>5 DEF Hear, NeedsRequest
  <2> HIDE DEF e
  <2>2. CASE FoundAt(d, m) # 0 /\ d.sent
    <3>1. e = d /\ h.new = FALSE
      BY <2>1, <2>2 DEF InsertedPrompt, NeedsRequest, e
    <3> QED BY <2>1, <2>2, <3>1 DEF HeardOne, h, m
  <2>3. CASE FoundAt(d, m) # 0 /\ ~d.sent
    <3> DEFINE q == d.prompts
    <3>1. q = changePassRequest /\ q \in Seq(PromptRecords) /\ Len(q) = 3
          /\ \A i \in 1..3 : q[i].type \notin LoginTypes
      <4>1. FoundAt(d, m) \in DOMAIN q
        BY <2>3, FoundType
      <4>2. q # <<>>
        BY <4>1
      <4>3. q = changePassRequest
        BY <2>3, <4>2 DEF Idle
      <4> QED BY <4>3, RequestTypes DEF PamDatas
    <3>2. e = InsertedPrompt(d, m, FALSE)
      BY <2>3 DEF InsertedPrompt, e
    <3>3. PICK r \in Seq(PromptRecords) :
             /\ e = [prompts |-> r, sent |-> FALSE] /\ r # <<>> /\ SameTypes(q, r)
             /\ Len(r) = Len(q) \/ Grown(q, detectPrompt(m), r)
      BY <1>3, <1>5, <2>3, <3>2, InsertedTypes
    <3>4. e.prompts = r /\ e.sent = FALSE
      BY <3>3
    <3>5. Len(r) >= 3
      <4>1. CASE Len(r) = Len(q)
        BY <3>1, <4>1
      <4>2. CASE Grown(q, detectPrompt(m), r)
        BY <3>1, <4>2 DEF Grown
      <4> QED BY <3>3, <4>1, <4>2
    <3>6. 1 \in DOMAIN r
      BY <3>5
    <3>7. r[1].type = q[1].type /\ q[1].type \notin LoginTypes
      BY <3>1, <3>3 DEF SameTypes
    <3>8. Changes(r)
      BY <3>6, <3>7 DEF Changes
    <3>9. detectPrompt(m) \notin LoginOnes
      <4>1. CASE detectPrompt(m) = "UNKNOWN"
        BY <4>1 DEF LoginOnes
      <4>2. CASE detectPrompt(m) # "UNKNOWN"
        <5>1. FoundAt(d, m) \in DOMAIN q /\ q[FoundAt(d, m)].type = detectPrompt(m)
          BY <2>3, <4>2, FoundType
        <5>2. q[FoundAt(d, m)].type \notin LoginTypes
          BY <3>1, <5>1
        <5> QED BY <5>1, <5>2 DEF LoginTypes, LoginOnes
      <4> QED BY <4>1, <4>2
    <3>10. Request(r, m)
      BY <3>3, <3>5, <3>8, <3>9 DEF Request
    <3>11. h.new = TRUE
      BY <2>1, <2>3 DEF NeedsRequest
    <3> QED BY <2>1, <3>4, <3>10, <3>11 DEF HeardOne, h, m
  <2>4. CASE FoundAt(d, m) = 0
    <3> DEFINE w == WithoutAnswers(d)
    <3>1. e = Guess(w, m, TRUE)
      BY <2>4 DEF InsertedPrompt, e
    <3>2. w \in PamDatas /\ w.sent = FALSE /\ w.prompts \in {<<>>, changePassRequest}
      <4>1. CASE d.sent
        <5>1. w = Blank
          BY <4>1 DEF WithoutAnswers, Blank
        <5> QED BY <5>1 DEF Blank, PamDatas
      <4>2. CASE ~d.sent
        <5>1. w = d
          BY <4>2 DEF WithoutAnswers
        <5> QED BY <1>3, <4>2, <5>1 DEF Idle
      <4> QED BY <4>1, <4>2
    <3> HIDE DEF w
    <3>3. Request(e.prompts, m)
      BY <1>3, <1>5, <3>1, <3>2, GuessedRequest
    <3>4. e.sent = FALSE
      BY <3>1, <3>2 DEF Guess, PamDatas
    <3>5. h.new = TRUE
      BY <2>1, <2>4 DEF NeedsRequest
    <3> QED BY <2>1, <3>3, <3>4, <3>5 DEF HeardOne, h, m
  <2> QED BY <2>2, <2>3, <2>4
<1> QED BY <1>4, <1>5 DEF h, m

-----------------------------------------------------------------------------
\* The prompts r are those of q but the one at i, in any order.
Among(r, q, i) ==
    \E o \in [DOMAIN r -> (DOMAIN q) \ {i}] :
        /\ \A j \in DOMAIN r : r[j] = q[o[j]]
        /\ \A j, k \in DOMAIN r : o[j] = o[k] => j = k

\* What getResponse leaves.
LEMMA Taken ==
    ASSUME NEW d \in PamDatas, NEW i, i # 0 => i \in DOMAIN d.prompts
    PROVE  /\ Without(d, i) \in PamDatas /\ Among(Without(d, i).prompts, d.prompts, i)
           /\ Without(d, i).sent = (d.sent /\ Without(d, i).prompts # <<>>)
           /\ i = 0 => Without(d, i).prompts = d.prompts
<1> DEFINE p == d.prompts
           r == IF i = 0 THEN p ELSE RemoveAt(p, i)
           n == Len(p)
<1>1. /\ p \in Seq(PromptRecords) /\ n \in Nat /\ DOMAIN p = 1..n /\ d.sent \in BOOLEAN
      /\ Without(d, i) = [prompts |-> r, sent |-> d.sent /\ r # <<>>]
  BY DEF PamDatas, Without
<1>2. r \in Seq(PromptRecords) /\ Among(r, p, i)
  <2>1. CASE i = 0
    <3> DEFINE o == [j \in 1..n |-> j]
    <3>1. r = p /\ o \in [1..n -> (1..n) \ {i}] /\ \A j \in 1..n : o[j] = j
      BY <1>1, <2>1
    <3> HIDE DEF o, r, p, n
    <3> QED BY <1>1, <3>1 DEF Among
  <2>2. CASE i # 0
    <3>1. i \in 1..n /\ r = RemoveAt(p, i)
      BY <1>1, <2>2
    <3> DEFINE o == [j \in 1..(n - 1) |-> IF j < i THEN j ELSE j + 1]
    <3>2. /\ r \in Seq(PromptRecords) /\ Len(r) = n - 1
          /\ \A j \in 1..(n - 1) : r[j] = p[IF j < i THEN j ELSE j + 1]
      <4> HIDE DEF r
      <4> QED BY <1>1, <3>1, RemovedAt
    <3> HIDE DEF r, p, n
    <3>3. DOMAIN r = 1..(n - 1)
      BY <3>2
    <3>4. o \in [1..(n - 1) -> (1..n) \ {i}]
      BY <1>1, <3>1
    <3>5. \A j \in 1..(n - 1) : r[j] = p[o[j]]
      BY <3>2
    <3>6. \A j, k \in 1..(n - 1) : o[j] = o[k] => j = k
      BY <1>1, <3>1
    <3> HIDE DEF o
    <3>7. /\ o \in [DOMAIN r -> (DOMAIN p) \ {i}] /\ \A j \in DOMAIN r : r[j] = p[o[j]]
          /\ \A j, k \in DOMAIN r : o[j] = o[k] => j = k
      BY <1>1, <3>3, <3>4, <3>5, <3>6
    <3>8. Among(r, p, i)
      BY <3>7 DEF Among
    <3> QED BY <3>2, <3>8
  <2> QED BY <2>1, <2>2
<1>3. i = 0 => r = p
  OBVIOUS
<1> HIDE DEF r
<1>4. /\ Without(d, i).prompts = r /\ Without(d, i).sent = (d.sent /\ r # <<>>)
      /\ Without(d, i) \in PamDatas
  BY <1>1, <1>2 DEF PamDatas
<1> QED BY <1>2, <1>3, <1>4

\* What each message keeps true of the data and its number, the second loop does.
LEMMA Leaving ==
    ASSUME NEW d \in PamDatas, Sound(d), NEW msgs, Len(msgs) \in Nat \ {0},
           \A k \in 1..Len(msgs) : msgs[k] \in PamMessages,
           NEW G, <<d, 0>> \in G,
           \A k \in 1..Len(msgs) : \A e \in PamDatas :
              <<e, k - 1>> \in G => <<Without(e, FoundAt(e, msgs[k])), k>> \in G
    PROVE  <<Answered(d, msgs).data, Len(msgs)>> \in G
<1> DEFINE n == Len(msgs)
<1>1. PICK f : /\ AnsweredBy(f, d, msgs)
               /\ \A k \in 0..n : f[k] \in [data: PamDatas, got: Seq(Responses)]
  BY AnsweredSteps
<1> DEFINE T == {k \in 0..n : <<f[k].data, k>> \in G}
<1>2. /\ f[0] = [data |-> d, got |-> <<>>] /\ f[n] = Answered(d, msgs)
      /\ \A k \in 1..n : f[k] = Answer(f[k - 1], msgs[k])
  BY <1>1 DEF AnsweredBy
<1>3. 0 \in T
  <2>1. 0 \in 0..n /\ f[0].data = d
    BY <1>2
  <2> QED BY <2>1
<1>4. ASSUME NEW k \in 1..n, k - 1 \in T PROVE k \in T
  <2>1. k \in 0..n /\ k - 1 \in 0..n
    OBVIOUS
  <2>2. f[k - 1].data \in PamDatas /\ <<f[k - 1].data, k - 1>> \in G
    BY <1>1, <1>4, <2>1
  <2>3. f[k].data = Without(f[k - 1].data, FoundAt(f[k - 1].data, msgs[k]))
    <3>1. \A b, m : Answer(b, m).data = Without(b.data, FoundAt(b.data, m))
      BY DEF Answer
    <3>2. f[k] = Answer(f[k - 1], msgs[k])
      BY <1>2
    <3> QED BY <3>1, <3>2
  <2>4. <<f[k].data, k>> \in G
    BY <2>2, <2>3
  <2> QED BY <2>1, <2>4
<1>5. 0..n \subseteq T
  <2> HIDE DEF T
  <2>1. n \in Nat
    OBVIOUS
  <2> HIDE DEF n
  <2> QED BY <1>3, <1>4, <2>1, UpTo
<1>6. n \in T
  BY <1>5
<1> QED BY <1>2, <1>6

\* Answers of the right kinds, or no prompts.
Kinded(d) == RightKinds(d.prompts) /\ (d.sent \/ d.prompts = <<>>)

LEMMA KindedIdle == ASSUME NEW d, Kinded(d) PROVE Idle(d)
BY DEF Kinded, Idle

LEMMA KindedLeft ==
    ASSUME NEW d \in PamDatas, Sound(d), Kinded(d), NEW msgs, Len(msgs) \in Nat \ {0},
           \A k \in 1..Len(msgs) : msgs[k] \in PamMessages
    PROVE  Idle(Answered(d, msgs).data)
<1> DEFINE G == {x \in PamDatas \X Nat : Kinded(x[1])}
<1>1. <<d, 0>> \in G
  OBVIOUS
<1>2. ASSUME NEW k \in 1..Len(msgs), NEW e \in PamDatas, <<e, k - 1>> \in G
      PROVE  <<Without(e, FoundAt(e, msgs[k])), k>> \in G
  <2> DEFINE i == FoundAt(e, msgs[k])
             r == Without(e, i).prompts
  <2>1. Kinded(e)
    BY <1>2
  <2>2. i # 0 => i \in DOMAIN e.prompts
    BY FoundType
  <2> HIDE DEF i
  <2>3. /\ Without(e, i) \in PamDatas /\ Among(r, e.prompts, i)
        /\ Without(e, i).sent = (e.sent /\ r # <<>>)
        /\ i = 0 => r = e.prompts
    BY <2>2, Taken
  <2>4. RightKinds(r)
    <3> HIDE DEF r
    <3>1. PICK o \in [DOMAIN r -> (DOMAIN e.prompts) \ {i}] : \A j \in DOMAIN r : r[j] = e.prompts[o[j]]
      BY <2>3 DEF Among
    <3>2. \A j \in DOMAIN r : o[j] \in DOMAIN e.prompts /\ r[j] = e.prompts[o[j]]
      BY <3>1
    <3> QED BY <2>1, <3>2 DEF Kinded, RightKinds
  <2>5. e.sent \/ r = <<>>
    <3>1. CASE e.prompts = <<>>
      <4>1. DOMAIN e.prompts = {}
        BY <3>1
      <4> QED BY <2>2, <2>3, <3>1, <4>1
    <3> QED BY <2>1, <3>1 DEF Kinded
  <2>6. Kinded(Without(e, i))
    BY <2>3, <2>4, <2>5 DEF Kinded
  <2> QED BY <2>3, <2>6 DEF i
<1>3. <<Answered(d, msgs).data, Len(msgs)>> \in G
  <2> HIDE DEF G
  <2> QED BY <1>1, <1>2, Leaving
<1> QED BY <1>3, KindedIdle

\* The prompts left are of later messages: after the last message, no prompt
\* for a name or a password is left.
Later(e, msgs, k) ==
    /\ e.sent \/ e.prompts = <<>>
    /\ Single(e.prompts) /\ OfMessages(e.prompts, msgs, (k + 1)..Len(msgs))

LEMMA LaterStep ==
    ASSUME NEW msgs, Len(msgs) \in Nat, NEW k \in 1..Len(msgs), NEW e \in PamDatas,
           Later(e, msgs, k - 1)
    PROVE  Later(Without(e, FoundAt(e, msgs[k])), msgs, k)
<1> DEFINE m == msgs[k]
           n == Len(msgs)
           i == FoundAt(e, m)
           q == e.prompts
           r == Without(e, i).prompts
<1>1. i # 0 => i \in DOMAIN q
  BY FoundType
<1>2. /\ Among(r, q, i) /\ Without(e, i).sent = (e.sent /\ r # <<>>)
      /\ i = 0 => r = q
  BY <1>1, Taken
<1>3. e.sent \/ r = <<>>
  <2>1. CASE q = <<>>
    <3>1. DOMAIN q = {}
      BY <2>1
    <3> QED BY <1>1, <1>2, <2>1, <3>1
  <2> QED BY <2>1 DEF Later
<1>4. Single(q) /\ OfMessages(q, msgs, k..n)
  <2>1. (k - 1) + 1 = k
    OBVIOUS
  <2> QED BY <2>1 DEF Later
<1>5. \A x \in LoginOnes : detectPrompt(m) = x => \/ i # 0 /\ q[i].type = x
                                                  \/ \A j \in DOMAIN q : q[j].type # x
  BY FoundType DEF LoginOnes
<1> HIDE DEF i, q, r, m, n
<1>6. PICK o \in [DOMAIN r -> (DOMAIN q) \ {i}] :
         /\ \A j \in DOMAIN r : r[j] = q[o[j]]
         /\ \A j, l \in DOMAIN r : o[j] = o[l] => j = l
  BY <1>2 DEF Among
<1>7. \A j \in DOMAIN r : o[j] \in DOMAIN q /\ o[j] # i /\ r[j] = q[o[j]]
  BY <1>6
<1>8. Single(r)
  BY <1>4, <1>6, <1>7 DEF Single
<1>9. ASSUME NEW j \in DOMAIN r, r[j].type \in LoginOnes
      PROVE  \E l \in (k + 1)..n : detectPrompt(msgs[l]) = r[j].type
  <2>1. q[o[j]].type = r[j].type /\ o[j] \in DOMAIN q /\ o[j] # i
    BY <1>7
  <2>2. PICK l \in k..n : detectPrompt(msgs[l]) = r[j].type
    BY <1>4, <1>9, <2>1 DEF OfMessages
  <2>3. l # k
    <3>1. SUFFICES ASSUME l = k PROVE FALSE
      OBVIOUS
    <3>2. detectPrompt(m) = r[j].type
      BY <2>2, <3>1 DEF m
    <3>3. i # 0 /\ q[i].type = r[j].type
      BY <1>5, <1>9, <2>1, <3>2
    <3>4. i \in DOMAIN q
      BY <1>1, <3>3
    <3> QED BY <1>4, <1>9, <2>1, <3>3, <3>4 DEF Single
  <2>4. l \in (k + 1)..n
    BY <2>3 DEF n
  <2> QED BY <2>2, <2>4
<1>10. OfMessages(r, msgs, (k + 1)..n)
  BY <1>9 DEF OfMessages
<1>11. Later(Without(e, i), msgs, k)
  BY <1>2, <1>3, <1>8, <1>10 DEF Later, r, n
<1> QED BY <1>11 DEF i, m

LEMMA OwnLeft ==
    ASSUME NEW d \in PamDatas, Sound(d), NEW msgs, Len(msgs) \in Nat \ {0},
           \A k \in 1..Len(msgs) : msgs[k] \in PamMessages,
           d.sent, Single(d.prompts), OfMessages(d.prompts, msgs, 1..Len(msgs))
    PROVE  Idle(Answered(d, msgs).data)
<1> DEFINE G == {x \in PamDatas \X Nat : Later(x[1], msgs, x[2])}
           n == Len(msgs)
<1>1. <<d, 0>> \in G
  <2>1. 0 + 1 = 1
    OBVIOUS
  <2>2. Later(d, msgs, 0)
    BY <2>1 DEF Later
  <2> QED BY <2>2
<1>2. ASSUME NEW k \in 1..n, NEW e \in PamDatas, <<e, k - 1>> \in G
      PROVE  <<Without(e, FoundAt(e, msgs[k])), k>> \in G
  <2>1. Later(Without(e, FoundAt(e, msgs[k])), msgs, k)
    BY <1>2, LaterStep
  <2>2. Without(e, FoundAt(e, msgs[k])) \in PamDatas
    BY FoundType, Taken
  <2> QED BY <2>1, <2>2
<1> DEFINE a == Answered(d, msgs).data
<1>3. <<a, n>> \in G
  <2> HIDE DEF G
  <2> QED BY <1>1, <1>2, Leaving
<1> HIDE DEF a
<1>4. Later(a, msgs, n)
  BY <1>3
<1>5. (n + 1)..n = {}
  OBVIOUS
<1>6. \A i \in DOMAIN a.prompts : a.prompts[i].type \notin LoginOnes
  BY <1>4, <1>5 DEF Later, OfMessages
<1>7. Kinded(a)
  BY <1>4, <1>6 DEF Kinded, Later, RightKinds, LoginOnes
<1> QED BY <1>7, KindedIdle DEF a

\* A guess not sent holds no prompt that a note could be taken for.
LEMMA NotesLeave ==
    ASSUME NEW d \in PamDatas, Sound(d), Idle(d), ~d.sent, NEW msgs, Len(msgs) \in Nat \ {0},
           \A k \in 1..Len(msgs) : msgs[k] \in PamMessages /\ ~IsPrompt(msgs[k])
    PROVE  Answered(d, msgs).data = d
<1> DEFINE G == {x \in PamDatas \X Nat : x[1] = d}
<1>1. <<d, 0>> \in G
  OBVIOUS
<1>2. ASSUME NEW k \in 1..Len(msgs), NEW e \in PamDatas, <<e, k - 1>> \in G
      PROVE  <<Without(e, FoundAt(e, msgs[k])), k>> \in G
  <2>1. e = d
    BY <1>2
  <2>2. detectPrompt(msgs[k]) = "LOGIN_USER"
    BY DEF detectPrompt, IsPrompt
  <2>3. FoundAt(d, msgs[k]) = 0
    BY <2>2, FoundType, IdleTypes DEF LoginTypes
  <2>4. Without(d, 0) = d
    <3>1. d = [prompts |-> d.prompts, sent |-> FALSE]
      BY DEF PamDatas
    <3>2. Without(d, 0) = [prompts |-> d.prompts, sent |-> d.sent /\ d.prompts # <<>>]
      BY DEF Without
    <3>3. (d.sent /\ d.prompts # <<>>) = FALSE
      OBVIOUS
    <3> QED BY <3>1, <3>2, <3>3
  <2>5. k \in Nat
    OBVIOUS
  <2> QED BY <2>1, <2>3, <2>4, <2>5
<1>3. <<Answered(d, msgs).data, Len(msgs)>> \in G
  <2> HIDE DEF G
  <2> QED BY <1>1, <1>2, Leaving
<1> QED BY <1>3

\* What PAM gets for one message.
LEMMA OneAnswered ==
    ASSUME NEW d \in PamDatas, Sound(d), NEW msgs, Len(msgs) = 1, msgs[1] \in PamMessages
    PROVE  Answered(d, msgs).got[1] = ResponseAt(d, FoundAt(d, msgs[1]))
<1>0. /\ Len(msgs) \in Nat \ {0} /\ 1 \in 1..Len(msgs) /\ 1 - 1 = 0
      /\ \A k \in 1..Len(msgs) : msgs[k] \in PamMessages
  OBVIOUS
<1>1. PICK f : AnsweredBy(f, d, msgs)
  BY <1>0, AnsweredSteps
<1> DEFINE b == [data |-> d, got |-> <<>>]
<1>2. f[1] = Answer(b, msgs[1]) /\ Answered(d, msgs) = f[1]
  BY <1>0, <1>1 DEF AnsweredBy
<1>3. b.data = d /\ b.got = <<>>
  OBVIOUS
<1> HIDE DEF b
<1>4. Answered(d, msgs).got = Append(<<>>, ResponseAt(d, FoundAt(d, msgs[1])))
  BY <1>2, <1>3 DEF Answer
<1> QED BY <1>4

-----------------------------------------------------------------------------
\* The invariant: what is kept between conversations, and what is asked.
IdleKinds == phase = "idle" => Idle(data)
RequestMade ==
    phase = "asking" =>
        /\ Len(batch) <= 2 => Len(data.prompts) \in {1, 2} \/ Changes(data.prompts)
        /\ Len(batch) = 1 => Request(data.prompts, batch[1])
        /\ Len(batch) # 1 =>
              Single(data.prompts) /\ OfMessages(data.prompts, batch, 1..Len(batch))
AnsweredInv == IInv /\ IdleKinds /\ RequestMade /\ LoginPromptsAnswered

\* After GiveToPam, if what is left is idle and the response to one prompt is
\* of the right kind.
LEMMA GivenRight ==
    ASSUME NEW d \in PamDatas, Sound(d), NEW msgs \in Batches, GiveToPam(d, msgs),
           batch' = msgs, Idle(Answered(d, msgs).data),
           Len(msgs) = 1 /\ IsPrompt(msgs[1]) /\ detectPrompt(msgs[1]) \in LoginOnes =>
              RightKinds(d.prompts) /\ FoundAt(d, msgs[1]) # 0
    PROVE  IdleKinds' /\ RequestMade' /\ LoginPromptsAnswered'
<1>1. CASE phase' = "crashed"
  BY <1>1 DEF IdleKinds, RequestMade, LoginPromptsAnswered
<1>2. CASE /\ phase' = "idle" /\ data' = Answered(d, msgs).data
           /\ answers' = [k \in DOMAIN msgs |-> IF k = 1 THEN Answered(d, msgs).got[1] ELSE Empty]
  <2>1. IdleKinds' /\ RequestMade'
    BY <1>2 DEF IdleKinds, RequestMade
  <2>2. SUFFICES ASSUME Len(msgs) = 1, IsPrompt(msgs[1]), NEW t \in LoginOnes,
                        detectPrompt(msgs[1]) = t
                 PROVE  answers'[1].kind = (IF t = "LOGIN_USER" THEN "user" ELSE "password")
    <3>1. PICK n \in 1..MaxBatch : msgs \in [1..n -> PamMessages]
      BY DEF Batches
    <3>2. DOMAIN msgs = 1..n /\ Len(msgs) = n
      BY <3>1, ConstantsAssumption
    <3>3. Len(msgs) = 1 => \A k \in DOMAIN answers' : k = 1
      BY <1>2, <3>2
    <3> QED BY <1>2, <2>1, <2>2, <3>3 DEF LoginPromptsAnswered, LoginOnes
  <2>3. msgs[1] \in PamMessages /\ 1 \in DOMAIN msgs
    <3>1. PICK n \in 1..MaxBatch : msgs \in [1..n -> PamMessages]
      BY DEF Batches
    <3>2. 1 \in 1..n
      BY <3>1, ConstantsAssumption
    <3> QED BY <3>1, <3>2
  <2> DEFINE i == FoundAt(d, msgs[1])
  <2>4. answers'[1] = ResponseAt(d, i)
    BY <1>2, <2>2, <2>3, OneAnswered
  <2>5. i # 0 /\ RightKinds(d.prompts) /\ t # "UNKNOWN"
    BY <2>2 DEF LoginOnes
  <2>6. i \in DOMAIN d.prompts /\ d.prompts[i].type = t
    BY <2>2, <2>5, FoundType
  <2> HIDE DEF i
  <2>7. answers'[1] = d.prompts[i].response
    BY <2>4, <2>5 DEF ResponseAt
  <2> QED BY <2>5, <2>6, <2>7 DEF RightKinds, LoginOnes
<1> QED BY <1>1, <1>2 DEF GiveToPam

LEMMA ConverseRight ==
    ASSUME AnsweredInv, NEW msgs \in Batches, Converse(msgs)
    PROVE  IdleKinds' /\ RequestMade' /\ LoginPromptsAnswered'
<1> DEFINE h == Heard(data, msgs)
           n == Len(msgs)
<1>1. /\ data \in PamDatas /\ Sound(data) /\ Idle(data) /\ batch' = msgs /\ data.sent \in BOOLEAN
  BY DEF AnsweredInv, IInv, TypeOK, Fresh, Converse, IdleKinds, PamDatas
<1>2. n \in Nat \ {0} /\ \A k \in 1..n : msgs[k] \in PamMessages
  <2>1. PICK l \in 1..MaxBatch : msgs \in [1..l -> PamMessages]
    BY DEF Batches
  <2>2. l \in Nat \ {0}
    BY ConstantsAssumption
  <2> QED BY <2>1, <2>2
<1>3. h.data \in PamDatas /\ Sound(h.data)
  BY <1>1, <1>2, HeardSound
<1>4. \/ /\ h.new /\ ~h.data.sent /\ h.data.prompts # <<>>
         /\ data' = h.data /\ phase' = "asking"
      \/ ~(h.new /\ ~h.data.sent /\ h.data.prompts # <<>>) /\ GiveToPam(h.data, msgs)
  BY DEF Converse
<1>5. CASE n # 1
  <2>1. HeardMany(data, h, msgs, n)
    BY <1>1, <1>2, <1>5, ManyHeard
  <2> HIDE DEF h
  <2>2. CASE h.new = TRUE /\ Built(h.data, msgs, n) /\ h.data.prompts # <<>>
    <3>1. data' = h.data /\ phase' = "asking"
      BY <1>4, <2>2 DEF Built
    <3>2. Single(h.data.prompts) /\ OfMessages(h.data.prompts, msgs, 1..n)
      BY <2>2 DEF Built
    <3>3. n <= 2 => Len(h.data.prompts) \in {1, 2} \/ Changes(h.data.prompts)
      <4>1. Len(h.data.prompts) \in Nat \ {0}
        BY <1>3, <2>2 DEF PamDatas
      <4>2. Len(h.data.prompts) <= n \/ Changes(h.data.prompts)
        BY <2>2 DEF Built
      <4> HIDE DEF n
      <4>3. \A l \in Nat \ {0} : l <= n /\ n <= 2 => l \in {1, 2}
        BY <1>2
      <4> QED BY <4>1, <4>2, <4>3
    <3>4. RequestMade'
      BY <1>1, <1>5, <3>1, <3>2, <3>3 DEF RequestMade
    <3>5. IdleKinds'
      BY <3>1 DEF IdleKinds
    <3>6. LoginPromptsAnswered'
      BY <3>1, <3>4 DEF RequestMade, LoginPromptsAnswered, Answerable, Changes
    <3> QED BY <3>4, <3>5, <3>6
  <2>3. CASE h.data = data /\ h.new = FALSE
             /\ (data.sent \/ \A j \in 1..n : ~IsPrompt(msgs[j]))
    <3>1. GiveToPam(h.data, msgs)
      BY <1>4, <2>3
    <3>2. Idle(Answered(h.data, msgs).data)
      <4>1. CASE data.sent
        <5>1. Kinded(data)
          BY <1>1, <4>1 DEF Kinded, Idle
        <5> QED BY <1>1, <1>2, <2>3, <5>1, KindedLeft
      <4>2. CASE ~data.sent
        BY <1>1, <1>2, <2>3, <4>2, NotesLeave
      <4> QED BY <4>1, <4>2
    <3> QED BY <1>1, <1>3, <1>5, <3>1, <3>2, GivenRight
  <2> QED BY <2>1, <2>2, <2>3 DEF HeardMany
<1>6. CASE n = 1
  <2> DEFINE m == msgs[1]
  <2>1. m \in PamMessages
    BY <1>2, <1>6
  <2>2. HeardOne(data, h, m)
    BY <1>1, <1>6, <2>1, OneHeard
  <2> HIDE DEF h
  <2>3. CASE h.new = TRUE /\ ~h.data.sent /\ Request(h.data.prompts, m)
    <3>1. data' = h.data /\ phase' = "asking"
      BY <1>4, <2>3 DEF Request
    <3>2. RequestMade'
      BY <1>1, <1>6, <2>3, <3>1 DEF RequestMade, Request
    <3>3. IdleKinds'
      BY <3>1 DEF IdleKinds
    <3>4. LoginPromptsAnswered'
      BY <3>1, <3>2 DEF RequestMade, LoginPromptsAnswered, Answerable, Changes
    <3> QED BY <3>2, <3>3, <3>4
  <2>4. CASE /\ h.new = FALSE
             /\ h.data = data \/ h.data = [prompts |-> changePassRequest, sent |-> data.sent]
             /\ IsPrompt(m) => h.data = data /\ data.sent /\ FoundAt(data, m) # 0
    <3>1. GiveToPam(h.data, msgs)
      BY <1>4, <2>4
    <3>2. h.data.sent = data.sent /\ Idle(h.data)
      <4>1. CASE h.data = data
        BY <1>1, <4>1
      <4>2. CASE h.data = [prompts |-> changePassRequest, sent |-> data.sent]
        <5>1. h.data.prompts = changePassRequest /\ h.data.sent = data.sent
          BY <4>2
        <5>2. RightKinds(changePassRequest)
          BY RequestTypes DEF RightKinds, LoginTypes
        <5> QED BY <5>1, <5>2 DEF Idle
      <4> QED BY <2>4, <4>1, <4>2
    <3>3. Idle(Answered(h.data, msgs).data)
      <4>1. CASE data.sent
        <5>1. Kinded(h.data)
          BY <3>2, <4>1 DEF Kinded, Idle
        <5> QED BY <1>2, <1>3, <5>1, KindedLeft
      <4>2. CASE ~data.sent
        <5>1. \A k \in 1..n : k = 1
          BY <1>6
        <5>2. \A k \in 1..n : msgs[k] \in PamMessages /\ ~IsPrompt(msgs[k])
          BY <1>2, <2>4, <4>2, <5>1
        <5>3. Answered(h.data, msgs).data = h.data
          BY <1>2, <1>3, <3>2, <4>2, <5>2, NotesLeave
        <5> QED BY <3>2, <5>3
      <4> QED BY <4>1, <4>2
    <3>4. IsPrompt(m) => RightKinds(h.data.prompts) /\ FoundAt(h.data, m) # 0
      BY <2>4, <3>2 DEF Idle
    <3> QED BY <1>1, <1>3, <3>1, <3>3, <3>4, GivenRight
  <2> QED BY <2>2, <2>3, <2>4 DEF HeardOne
<1> QED BY <1>5, <1>6

LEMMA ReplyRight ==
    ASSUME AnsweredInv, DaemonReplies
    PROVE  IdleKinds' /\ RequestMade' /\ LoginPromptsAnswered'
<1> DEFINE p == data.prompts
           n == Len(batch)
           d == Completed(data, ReplyOf(data))
<1>1. /\ TypeOK /\ Fresh(data, round) /\ Asked /\ phase = "asking" /\ Answerable(data)
      /\ batch \in Batches /\ batch' = batch /\ GiveToPam(d, batch) /\ RequestMade
      /\ p \in Seq(PromptRecords)
  BY DEF AnsweredInv, IInv, Asked, DaemonReplies, TypeOK, PamDatas
<1>2. n \in Nat \ {0} /\ \A k \in 1..n : batch[k] \in PamMessages
  <2>1. PICK l \in 1..MaxBatch : batch \in [1..l -> PamMessages]
    BY <1>1 DEF Batches
  <2>2. l \in Nat \ {0}
    BY ConstantsAssumption
  <2> QED BY <2>1, <2>2
<1>3. Sound(d) /\ d \in PamDatas
  BY <1>1, RepliedFresh DEF Fresh, Sound
<1>4. PICK q \in Seq(PromptRecords) :
         /\ d = [prompts |-> q, sent |-> TRUE]
         /\ Len(q) = Len(p) /\ q # <<>>
         /\ \A i \in 1..Len(q) :
               /\ q[i].type = p[i].type
               /\ q[i].response = [kind |-> ResponseKinds(Len(q))[i], request |-> round]
  BY <1>1, Replied
<1>5. /\ d.prompts = q /\ d.sent = TRUE /\ Len(q) \in {1, 2}
      /\ DOMAIN q = 1..Len(q) /\ DOMAIN p = 1..Len(q)
  BY <1>1, <1>4 DEF Answerable
<1> HIDE DEF d, p
<1>6. CASE n # 1
  <2>1. Single(p) /\ OfMessages(p, batch, 1..n)
    BY <1>1, <1>6 DEF RequestMade, p
  <2>2. Single(q) /\ OfMessages(q, batch, 1..n)
    BY <1>4, <1>5, <2>1 DEF Single, OfMessages
  <2>3. Idle(Answered(d, batch).data)
    BY <1>2, <1>3, <1>5, <2>2, OwnLeft
  <2> QED BY <1>1, <1>3, <1>6, <2>3, GivenRight
<1>7. CASE n = 1
  <2> DEFINE m == batch[1]
  <2>1. Request(p, m)
    BY <1>1, <1>7 DEF RequestMade, p
  <2> HIDE DEF m
  <2>2. InPlace(p)
    BY <1>4, <1>5, <2>1 DEF Request
  <2>3. RightKinds(q)
    <3>1. ASSUME NEW i \in 1..Len(q)
          PROVE  /\ q[i].type = "LOGIN_USER" => i = 1 /\ Len(q) = 2
                 /\ q[i].type = "LOGIN_PASSWORD" => i = Len(q)
                 /\ q[i].response.kind = ResponseKinds(Len(q))[i]
      <4>1. i \in DOMAIN p /\ q[i].type = p[i].type /\ Len(p) = Len(q)
        BY <1>4, <1>5
      <4>2. q[i].response.kind = ResponseKinds(Len(q))[i]
        <5>1. q[i].response = [kind |-> ResponseKinds(Len(q))[i], request |-> round]
          BY <1>4
        <5> QED BY <5>1
      <4> QED BY <2>2, <4>1, <4>2 DEF InPlace
    <3>2. CASE Len(q) = 1
      BY <1>5, <3>1, <3>2 DEF RightKinds, ResponseKinds
    <3>3. CASE Len(q) = 2
      BY <1>5, <3>1, <3>3 DEF RightKinds, ResponseKinds
    <3> QED BY <1>5, <3>2, <3>3
  <2>4. detectPrompt(m) \in LoginOnes => FoundAt(d, m) # 0
    <3>1. SUFFICES ASSUME detectPrompt(m) \in LoginOnes, FoundAt(d, m) = 0 PROVE FALSE
      OBVIOUS
    <3>2. PICK i \in DOMAIN p : p[i].type = detectPrompt(m)
      BY <2>1, <3>1 DEF Request
    <3>3. i \in DOMAIN d.prompts /\ d.prompts[i].type = detectPrompt(m)
      BY <1>4, <1>5, <3>2
    <3> QED BY <1>3, <3>1, <3>3, FoundType
  <2>5. Kinded(d)
    BY <1>5, <2>3 DEF Kinded
  <2>6. Idle(Answered(d, batch).data)
    BY <1>2, <1>3, <2>5, KindedLeft
  <2> QED BY <1>1, <1>3, <1>5, <2>3, <2>4, <2>6, GivenRight DEF m
<1> QED BY <1>6, <1>7

\* Whatever PAM asks, in conversations of any length: a login request for one or
\* two messages is one that slotRequestChanged answers, and PAM gets the user's
\* name for a name and the password for a password when it asks for one thing
\* (insertPrompt, getResponse).
THEOREM LoginAnswered == Spec => []LoginPromptsAnswered
<1>1. Init => AnsweredInv
  <2> SUFFICES ASSUME Init PROVE AnsweredInv
    OBVIOUS
  <2>1. data.sent = FALSE /\ data.prompts = <<>> /\ phase = "idle" /\ batch = <<>>
    BY DEF Init
  <2>2. IdleKinds /\ RequestMade
    BY <2>1 DEF IdleKinds, Idle, RequestMade
  <2>3. LoginPromptsAnswered
    BY <2>1 DEF LoginPromptsAnswered
  <2> QED BY <2>2, <2>3, InitIInv DEF AnsweredInv
<1>2. AnsweredInv /\ IInv' /\ [Next]_vars => AnsweredInv'
  <2> SUFFICES ASSUME AnsweredInv, IInv', [Next]_vars
               PROVE  IdleKinds' /\ RequestMade' /\ LoginPromptsAnswered'
    BY DEF AnsweredInv
  <2>1. CASE \E msgs \in Batches : Converse(msgs)
    BY <2>1, ConverseRight
  <2>2. CASE DaemonReplies
    BY <2>2, ReplyRight
  <2>3. CASE DaemonGone
    <3>1. phase' = "failed"
      BY <2>3 DEF DaemonGone
    <3> QED BY <3>1 DEF IdleKinds, RequestMade, LoginPromptsAnswered
  <2>4. CASE UNCHANGED vars
    <3>1. data' = data /\ phase' = phase /\ batch' = batch /\ answers' = answers
      BY <2>4 DEF vars
    <3> QED BY <3>1 DEF AnsweredInv, IdleKinds, RequestMade, LoginPromptsAnswered, Answerable
  <2> QED BY <2>1, <2>2, <2>3, <2>4 DEF Next
<1>3. AnsweredInv => LoginPromptsAnswered
  BY DEF AnsweredInv
<1> QED BY <1>1, <1>2, <1>3, Inductive, PTL DEF Spec
=============================================================================
