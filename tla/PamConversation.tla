-------------------------- MODULE PamConversation --------------------------
(***************************************************************************)
(* The conversation between PAM and the daemon that a login helper        *)
(* carries on (src/helper/backend/PamBackend.cpp: PamBackend::converse    *)
(* and PamData), with what the daemon answers (Display::slotRequestChanged *)
(* and AuthRequest).                                                      *)
(*                                                                        *)
(* The PAM stack is external: it may send any messages, one conversation  *)
(* at a time.  A message is its style, the words detectPrompt looks for   *)
(* and a text that tells it from others.  A response is whether it is the *)
(* user's name or the password, and the request it was given for.         *)
(***************************************************************************)
EXTENDS Integers, Sequences, SequencesExt

CONSTANTS
    PromptWords,  \* the sets of words a hidden prompt may contain
    InfoWords,    \* the sets of words an information may contain
    Texts,        \* what else tells two messages apart
    MaxBatch,     \* bound: messages in one conversation
    MaxRounds     \* bound: conversations

Words == {"password", "again", "new", "current", "changing"}

ASSUME ConstantsAssumption ==
    /\ PromptWords \subseteq SUBSET Words /\ InfoWords \subseteq SUBSET Words
    /\ MaxBatch \in Nat /\ MaxRounds \in Nat

VARIABLES
    data,     \* PamData: m_currentRequest.prompts, m_sent
    phase,    \* "idle" (PAM's own code), "asking", "failed", "crashed"
    batch,    \* the messages of the last conversation
    answers,  \* what it gave PAM for each of them
    used,     \* history: the responses given to PAM
    twice,    \* history: a response was given to PAM a second time
    round     \* conversations so far: the number of the present request

vars == <<data, phase, batch, answers, used, twice, round>>

-----------------------------------------------------------------------------
(***************************************************************************)
(* Messages and prompts                                                   *)
(***************************************************************************)

Echoed == [style: {"PAM_PROMPT_ECHO_ON"}, words: {{}}, text: Texts]
Hidden == [style: {"PAM_PROMPT_ECHO_OFF"}, words: PromptWords, text: Texts]
Notes == [style: {"PAM_TEXT_INFO"}, words: InfoWords, text: Texts]
             \cup [style: {"PAM_ERROR_MSG"}, words: {{}}, text: Texts]
PamMessages == Echoed \cup Hidden \cup Notes
IsPrompt(m) == m \in Echoed \cup Hidden

Responses == [kind: {"user", "password", "empty"}, request: 0..MaxRounds]
Empty == [kind |-> "empty", request |-> 0]

PromptTypes == {"UNKNOWN", "CHANGE_CURRENT", "CHANGE_NEW", "CHANGE_REPEAT",
                "LOGIN_USER", "LOGIN_PASSWORD"}
\* The messages of the requests made up in advance are none of PAM's.
Predicted == "predicted"
PromptRecords == [type: PromptTypes, text: Texts \cup {Predicted}, response: Responses]
Prompt(t, text) == [type |-> t, text |-> text, response |-> Empty]

loginRequest == <<Prompt("LOGIN_USER", Predicted), Prompt("LOGIN_PASSWORD", Predicted)>>
changePassNoOldRequest == <<Prompt("CHANGE_NEW", Predicted), Prompt("CHANGE_REPEAT", Predicted)>>
changePassRequest == <<Prompt("CHANGE_CURRENT", Predicted)>> \o changePassNoOldRequest

PamDatas == [prompts: Seq(PromptRecords), sent: BOOLEAN]

\* The types of the helper's state.  Once every answer is used up m_sent is
\* off again: a request sent has prompts.
TypeOK ==
    /\ data \in PamDatas
    /\ phase \in {"idle", "asking", "failed", "crashed"}
    /\ batch \in Seq(PamMessages) /\ answers \in Seq(Responses)
    /\ used \subseteq Responses /\ twice \in BOOLEAN /\ round \in 0..MaxRounds
    /\ data.sent => data.prompts # <<>>

Init ==
    /\ data = [prompts |-> <<>>, sent |-> FALSE]
    /\ phase = "idle" /\ batch = <<>> /\ answers = <<>>
    /\ used = {} /\ twice = FALSE /\ round = 0

-----------------------------------------------------------------------------
(***************************************************************************)
(* PamData                                                                *)
(***************************************************************************)

\* Every message that is not a hidden prompt, notes too, counts as LOGIN_USER.
detectPrompt(m) ==
    CASE m \notin Hidden -> "LOGIN_USER"
      [] m \in Hidden /\ "password" \notin m.words -> "UNKNOWN"
      [] m \in Hidden /\ {"password", "again"} \subseteq m.words -> "CHANGE_REPEAT"
      [] m \in Hidden /\ m.words \cap {"password", "again", "new"} = {"password", "new"}
            -> "CHANGE_NEW"
      [] m \in Hidden /\ m.words = {"password", "current"} -> "CHANGE_CURRENT"
      [] OTHER -> "LOGIN_PASSWORD"

\* The place of the prompt a message is about, 0 if it is not there.  The
\* text of an unknown prompt matters only against prompts of other types.
FoundAt(d, m) ==
    LET Fits == {i \in DOMAIN d.prompts :
                    \/ d.prompts[i].type = detectPrompt(m)
                    \/ detectPrompt(m) = "UNKNOWN" /\ d.prompts[i].text = m.text}
    IN IF Fits = {} THEN 0 ELSE CHOOSE i \in Fits : \A j \in Fits : i <= j

\* insertPrompt, when the prompt is not stored: answers to other prompts are
\* thrown away, then what PAM will ask next is guessed.
WithoutAnswers(d) ==
    IF d.sent THEN [prompts |-> <<>>, sent |-> FALSE] ELSE d

Guess(d, m, predict) ==
    LET t == detectPrompt(m)
    IN [d EXCEPT !.prompts =
            CASE predict /\ t = "LOGIN_USER" -> loginRequest
              [] predict /\ t = "CHANGE_CURRENT" -> changePassRequest
              [] predict /\ t = "CHANGE_NEW" -> changePassNoOldRequest
              [] OTHER -> Append(@, Prompt(t, m.text))]

InsertedPrompt(d, m, predict) ==
    LET i == FoundAt(d, m)
    IN IF i = 0 THEN Guess(WithoutAnswers(d), m, predict)
       ELSE IF d.sent THEN d ELSE [d EXCEPT !.prompts = [d.prompts EXCEPT ![i].text = m.text]]

\* its result: false for a prompt that was sent to the daemon before.
NeedsRequest(d, m) == FoundAt(d, m) = 0 \/ ~d.sent

\* handleInfo
AfterInfo(d, m, predict) ==
    IF "changing" \in m.words /\ predict THEN [d EXCEPT !.prompts = changePassRequest] ELSE d

\* The first loop of converse: the request it leaves, and whether the last
\* prompt needs it sent.
Hear(b, m, predict) ==
    IF IsPrompt(m)
    THEN [data |-> InsertedPrompt(b.data, m, predict), new |-> NeedsRequest(b.data, m)]
    ELSE IF m.style = "PAM_TEXT_INFO"
    THEN [data |-> AfterInfo(b.data, m, predict), new |-> b.new]
    ELSE b

Heard(d, msgs) ==
    LET after[k \in 0..Len(msgs)] ==
            IF k = 0 THEN [data |-> d, new |-> FALSE]
            ELSE Hear(after[k - 1], msgs[k], Len(msgs) = 1)
    IN after[Len(msgs)]

\* completeRequest: a reply about other prompts is ignored.
Completed(d, reply) ==
    IF /\ Len(reply) = Len(d.prompts)
       /\ \A i \in DOMAIN reply : /\ reply[i].type = d.prompts[i].type
                                  /\ reply[i].text = d.prompts[i].text
    THEN [prompts |-> reply, sent |-> TRUE]
    ELSE d

\* getResponse destroys the prompt whose response it returns.
Mutant_KeepPrompt(d, i) == d
Mutant_StaySent(d, i) == IF i = 0 THEN d ELSE [d EXCEPT !.prompts = RemoveAt(@, i)]
Without(d, i) ==
    LET left == IF i = 0 THEN d.prompts ELSE RemoveAt(d.prompts, i)
    IN [prompts |-> left, sent |-> d.sent /\ left # <<>>]

ResponseAt(d, i) == IF i = 0 THEN Empty ELSE d.prompts[i].response

\* The second loop of converse: what PAM gets for each message.
Answer(b, m) ==
    LET i == FoundAt(b.data, m)
    IN [data |-> Without(b.data, i), got |-> Append(b.got, ResponseAt(b.data, i))]

Answered(d, msgs) ==
    LET after[k \in 0..Len(msgs)] ==
            IF k = 0 THEN [data |-> d, got |-> <<>>]
            ELSE Answer(after[k - 1], msgs[k])
    IN after[Len(msgs)]

-----------------------------------------------------------------------------
(***************************************************************************)
(* PamBackend::converse                                                   *)
(***************************************************************************)

\* Display::slotRequestChanged; a request of any other length is left alone.
Mutant_PasswordFirst(n) == IF n = 2 THEN <<"password", "user">> ELSE <<"password">>
ResponseKinds(n) == IF n = 2 THEN <<"user", "password">> ELSE <<"password">>
Answerable(d) == Len(d.prompts) \in {1, 2}
ReplyOf(d) ==
    [i \in DOMAIN d.prompts |->
        [d.prompts[i] EXCEPT !.response = [kind |-> ResponseKinds(Len(d.prompts))[i],
                                           request |-> round]]]

\* The responses go to PAM through resp[i]->resp, where resp points to one
\* pointer: beyond the first message this writes through whatever lies behind
\* it, and PAM's own array keeps the null it was made with.
GiveToPam(d, msgs) ==
    LET a == Answered(d, msgs)
    IN \/ /\ data' = a.data
          /\ answers' = [k \in DOMAIN msgs |-> IF k = 1 THEN a.got[1] ELSE Empty]
          /\ phase' = "idle"
          /\ used' = used \cup ({answers'[k] : k \in DOMAIN msgs} \ {Empty})
          /\ twice' = (twice \/ \E k \in DOMAIN msgs : answers'[k] \in used)
       \/ /\ Len(msgs) > 1
          /\ phase' = "crashed" /\ data' = data /\ answers' = <<>>
          /\ UNCHANGED <<used, twice>>

Batches == UNION {[1..n -> PamMessages] : n \in 1..MaxBatch}

Converse(msgs) ==
    /\ phase = "idle" /\ round < MaxRounds
    /\ round' = round + 1
    /\ batch' = msgs
    /\ LET h == Heard(data, msgs)
       IN \/ /\ h.new /\ ~h.data.sent /\ h.data.prompts # <<>>
             /\ data' = h.data
             /\ phase' = "asking" /\ answers' = <<>>
             /\ UNCHANGED <<used, twice>>
          \/ /\ ~(h.new /\ ~h.data.sent /\ h.data.prompts # <<>>)
             /\ GiveToPam(h.data, msgs)

\* HelperApp::request returns the daemon's reply.
DaemonReplies ==
    /\ phase = "asking" /\ Answerable(data)
    /\ GiveToPam(Completed(data, ReplyOf(data)), batch)
    /\ UNCHANGED <<batch, round>>

\* The daemon is gone: the reply has no prompts, converse returns PAM_CONV_ERR.
DaemonGone ==
    /\ phase = "asking"
    /\ phase' = "failed"
    /\ UNCHANGED <<data, batch, answers, used, twice, round>>

Next == (\E msgs \in Batches : Converse(msgs)) \/ DaemonReplies \/ DaemonGone

Spec == Init /\ [][Next]_vars

-----------------------------------------------------------------------------
(***************************************************************************)
(* Properties                                                             *)
(***************************************************************************)

\* As long as no password is to be changed, the helper never sends a request
\* for one or two messages that the daemon does not answer; and asked for one
\* thing, a user name prompt gets the user's name and a password prompt the
\* password, whatever was guessed, sent, used and thrown away before
\* (insertPrompt).  (A user name, a password and an unknown hidden prompt in one
\* conversation make a request of three, which slotRequestChanged never answers.)
LoginTypes == {"UNKNOWN", "LOGIN_USER", "LOGIN_PASSWORD"}
LoginPromptsAnswered ==
    /\ (/\ phase = "asking" /\ Len(batch) <= 2
        /\ \A i \in DOMAIN data.prompts : data.prompts[i].type \in LoginTypes)
         => Answerable(data)
    /\ phase = "idle" /\ Len(batch) = 1 =>
         \A k \in DOMAIN answers :
             IsPrompt(batch[k]) =>
                 /\ detectPrompt(batch[k]) = "LOGIN_USER" => answers[k].kind = "user"
                 /\ detectPrompt(batch[k]) = "LOGIN_PASSWORD" => answers[k].kind = "password"

\* A prompt that is repeated, a password to be tried again, is asked of the
\* daemon again: none of its responses is used for two password prompts.
\* (A guessed request gives two responses of different kinds.)
OneAnswerOneUse == ~twice

=============================================================================
