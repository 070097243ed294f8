---------------------------- MODULE Conversation ----------------------------
(* What the caches of the MLX runner promise to a model: whatever is reused  *)
(* of earlier requests, what the layers hold is the beginning of the current *)
(* conversation, one token of the prompt is always left to evaluate, and a   *)
(* forward adds exactly the tokens that stay in the conversation.            *)
EXTENDS Sequences, Integers

CONSTANTS Token

VARIABLES
  live,    \* the tokens whose effect the layers hold
  prompt,  \* the prompt of the current request
  stage,   \* "idle", "prefill" or "decode"
  broken   \* a snapshot has lost its data: nothing is promised any more

conversationVars == <<live, prompt, stage, broken>>

StartsWith(s, t) == Len(t) <= Len(s) /\ SubSeq(s, 1, Len(t)) = t

ConversationInit == live = <<>> /\ prompt = <<>> /\ stage = "idle" /\ broken = FALSE

\* A request reuses part of what it has in common with earlier ones.
Reuse ==
  /\ stage = "idle" /\ stage' = "prefill"
  /\ StartsWith(prompt', live') /\ Len(live') < Len(prompt')

\* The prompt is evaluated.
Evaluate ==
  /\ stage = "prefill" /\ prompt' = prompt
  /\ StartsWith(prompt, live') /\ StartsWith(live', live) /\ live' # live
  /\ stage' = IF live' = prompt THEN "decode" ELSE "prefill"

\* Tokens are generated; none may be confirmed.
Generate ==
  /\ stage = "decode" /\ UNCHANGED <<prompt, stage>>
  /\ StartsWith(live', live)

\* The request ends, whether or not it was complete.
End == stage # "idle" /\ stage' = "idle" /\ live' = live /\ prompt' = <<>>

ConversationNext ==
  \/ (Reuse \/ Evaluate \/ Generate \/ End) /\ broken' = broken
  \/ broken'

ConversationSpec == ConversationInit /\ [][ConversationNext]_conversationVars

=============================================================================
