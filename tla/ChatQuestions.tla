---------------------------- MODULE ChatQuestions ----------------------------
(***************************************************************************)
(* A question in the learner's chat: the page sends it with the last       *)
(* messages (workspace-app.tsx, chat-ai.ts, chat-attachments.ts) to the    *)
(* route that asks a model (app/api/chat/route.ts).                        *)
(***************************************************************************)
EXTENDS Naturals, Sequences, Arrangements

CONSTANTS
    Window,         \* MAX_HISTORY_MESSAGES (24 in the code)
    MaxQuestions    \* bound on the questions asked (model bound)

VARIABLES
    env,        \* CHAT_PROVIDER and the keys of the web server
    room,       \* what was asked and replied
    question,   \* the turns that wait for a reply, and who is asked
    asked       \* how many questions were asked

vars == <<env, room, question, asked>>

(* What a question carries: text, an image, a text file of up to 12,000    *)
(* characters, or a longer one (up to 24,000).                             *)
Contents == {"text", "image", "file", "longFile"}

NoQuestion == [to |-> "none", turns |-> <<>>]

Init ==
    /\ env \in [provider: {"openai", "gemini", "auto"}, openai: BOOLEAN, gemini: BOOLEAN]
    /\ room = <<>> /\ question = NoQuestion /\ asked = 0

----------------------------------------------------------------------------
(* The route *)

(* historyUsesOpenAiVision *)
Vision(turns) == \E i \in DOMAIN turns : turns[i] = "image"

(* isHistoryTurn: the text of a file may have 12,000 characters. *)
Invalid(turns) == \E i \in DOMAIN turns : turns[i] = "longFile"

(* Who is asked first; "mock" and "error" are answers of the route. *)
Recipient(turns) ==
    CASE Invalid(turns) -> "error"
      [] ~Invalid(turns) /\ Vision(turns) -> IF env.openai THEN "openai" ELSE "error"
      [] ~Invalid(turns) /\ ~Vision(turns) ->
            IF ~env.openai /\ (~env.gemini \/ env.provider = "openai") THEN "mock"
            ELSE IF env.provider = "gemini" /\ ~env.gemini THEN "error"
            ELSE IF env.provider # "openai" /\ env.gemini THEN "gemini" ELSE "openai"

----------------------------------------------------------------------------
(* The page *)

(* buildHistory: error messages are left out. *)
Turns(content) ==
    LET all == Append(Kept(room, {i \in DOMAIN room : room[i] # "error"}), content)
    IN  SubSeq(all, IF Len(all) > Window THEN Len(all) - Window + 1 ELSE 1, Len(all))

Sends(content) ==
    /\ question = NoQuestion /\ asked < MaxQuestions
    /\ question' = [to |-> Recipient(Turns(content)), turns |-> Turns(content)]
    /\ room' = Append(room, content)
    /\ asked' = asked + 1
    /\ UNCHANGED env

(* Gemini's quota is exhausted and there is a key for OpenAI. *)
FallsBack ==
    /\ question.to = "gemini" /\ env.provider = "auto" /\ env.openai
    /\ question' = [question EXCEPT !.to = "openai"]
    /\ UNCHANGED <<env, room, asked>>

(* The model replies, or the page does: without a key, without the route.  *)
Replied ==
    /\ question # NoQuestion
    /\ room' = Append(room, "reply")
    /\ question' = NoQuestion
    /\ UNCHANGED <<env, asked>>

Errs ==
    /\ question.to \in {"openai", "gemini", "error"}
    /\ room' = Append(room, "error")
    /\ question' = NoQuestion
    /\ UNCHANGED <<env, asked>>

(* loadRoleGap begins the room anew. *)
LoadsRoles ==
    /\ room # <<>>
    /\ room' = <<>>
    /\ UNCHANGED <<env, question, asked>>

Next == FallsBack \/ Replied \/ Errs \/ LoadsRoles \/ \E c \in Contents : Sends(c)

Spec == Init /\ [][Next]_vars

----------------------------------------------------------------------------
(* Properties *)

(* The chat keeps its types. *)
TypeOK ==
    /\ room \in Seq(Contents \cup {"reply", "error"})
    /\ question \in [to: {"none", "openai", "gemini", "mock", "error"},
                     turns: Seq(Contents \cup {"reply"})]
    /\ asked \in 0..MaxQuestions

==============================================================================
