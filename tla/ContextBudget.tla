--------------------------- MODULE ContextBudget ---------------------------
(***************************************************************************)
(* The size of a conversation against the window of the model: the limits  *)
(* AgentRuntime.invoke derives from AGENT_CONTEXT_WINDOW_TOKENS, the       *)
(* summary of the history, and agent_api/context_budget.py, which moves    *)
(* long tool results to files and refuses a request that is still too      *)
(* large.  Sizes are in tokens, as the approximate counter sees them.      *)
(*                                                                         *)
(* The middleware that summarises is the library's and is wrapped around   *)
(* the check.  The check raises a ContextOverflowError, which it catches   *)
(* once: it then summarises as if the trigger had been reached.  It cuts   *)
(* off the oldest messages, never the newest, however large, and never a   *)
(* tool call from its results, so more may stay than was asked for; a cut  *)
(* that is not possible leaves the request as it is.  The summary is kept  *)
(* only if the model answers.                                              *)
(***************************************************************************)
EXTENDS Naturals

CONSTANTS
  Windows,    \* values of AGENT_CONTEXT_WINDOW_TOKENS
  Shares,     \* a message is one of these shares of the window
  MaxCalls    \* bounds the model calls of a behaviour

ASSUME WindowsAccepted == Windows \subseteq Nat \ {0}
ASSUME BoundsAccepted == Shares \subseteq Nat \ {0} /\ MaxCalls \in Nat

VARIABLES
  window,     \* the configured window
  overhead,   \* system prompt, memory and tool schemas
  history,    \* the messages of the conversation, or their last summary and on
  newest,     \* those of them that no cut takes away
  widest,     \* the largest of them, the results of its calls included
  sent,       \* the messages that the model call sends
  large,      \* the largest of those, the results of its calls included
  summary,    \* how much of it is a summary made for this call
  tried,      \* whether a cut was tried for it: "no", "cut" or "uncut"
  phase,      \* where the turn is
  calls       \* how many model calls were made

budgetVars ==
  <<window, overhead, history, newest, widest, sent, large, summary, tried, phase, calls>>

requestVars ==
  <<window, overhead, history, newest, widest, sent, large, summary, tried, calls>>

AtLeast(bound, n) == IF n < bound THEN bound ELSE n
AtMost(bound, n) == IF n > bound THEN bound ELSE n

InputBudget == AtLeast(1, (window * 7) \div 10)

Trigger == AtLeast(1, (window * 4) \div 10)

KeepTokens == AtLeast(1, AtMost(20000, InputBudget \div 5))

\* math.ceil(approximate * 1.5)
Estimate(tokens) == (3 * tokens + 1) \div 2

\* 24,000 characters, four to a token; and what replaces a longer result.
ResultLimit == 6000
PreviewSize == 820

Sizes == {AtLeast(1, window \div s) : s \in Shares}

BudgetTypeOK ==
  /\ window \in Windows
  /\ overhead \in Nat \ {0}
  /\ {history, newest, widest, sent, large, summary} \subseteq Nat
  /\ tried \in {"no", "cut", "uncut"}
  /\ phase \in {"idle", "summarise", "check", "tools", "refused"}
  /\ calls \in 0..MaxCalls

BudgetInit ==
  /\ window \in Windows
  /\ overhead \in Sizes
  /\ history = 0 /\ newest = 0 /\ widest = 0
  /\ sent = 0 /\ large = 0 /\ summary = 0
  /\ tried = "no" /\ phase = "idle"
  /\ calls = 0

-----------------------------------------------------------------------------
\* A model call, with the messages since the last one.  The trigger is held
\* against the messages, with or without what is sent along.
Call(older, new) ==
  /\ calls < MaxCalls
  /\ calls' = calls + 1
  /\ history' = history + older + new
  /\ newest' = new /\ widest' = AtLeast(new, widest)
  /\ sent' = history' /\ large' = widest'
  /\ summary' = 0 /\ tried' = "no"
  /\ \E counted \in {history', history' + overhead} :
       phase' = IF counted >= Trigger THEN "summarise" ELSE "check"
  /\ UNCHANGED <<window, overhead>>

\* The answer of the last turn and a new message.  A refused turn leaves its
\* message in the conversation.
BudgetAsk ==
  /\ phase \in {"idle", "refused"}
  /\ \E n \in Sizes, answer \in Sizes \cup {0} : Call(answer, n)

CanCut == history > KeepTokens /\ history > newest

\* What is kept fits into KeepTokens, unless it is the newest alone or the cut
\* would have fallen between a call and its results.  The size of the summary
\* is the model's.
Suffix(w) == {k \in {newest, AtLeast(newest, KeepTokens), KeepTokens + w} : k < history}

Summarise ==
  /\ phase = "summarise" /\ CanCut
  /\ \E n \in Sizes, w \in {newest, widest} : \E k \in Suffix(w) :
       sent' = k + n /\ summary' = n /\ large' = w
  /\ tried' = "cut" /\ phase' = "check"
  /\ UNCHANGED <<window, overhead, history, newest, widest, calls>>

\* Nothing to cut off: the handler is called with the messages as they are.
CannotCut ==
  /\ phase = "summarise" /\ ~CanCut
  /\ tried' = "uncut" /\ phase' = "check"
  /\ UNCHANGED <<window, overhead, history, newest, widest, sent, large, summary, calls>>

\* The call of the summary fails, and it may take the turn with it.
SummaryFails ==
  /\ phase = "summarise" /\ CanCut
  /\ phase' = "idle"
  /\ UNCHANGED requestVars

Fits == Estimate(sent + overhead) <= InputBudget

\* The exception is not one that the summarisation catches.
Uncaught == phase' = "refused"

\* ContextBudgetExceeded, caught the first time.
Overflow == phase' = IF tried = "no" THEN "summarise" ELSE "refused"

\* The model answers, or calls tools.
Answered ==
  /\ history' = sent /\ widest' = large
  /\ phase' \in {"idle", "tools"}
  /\ UNCHANGED <<window, overhead, newest, sent, large, summary, tried, calls>>

CheckBudget ==
  /\ phase = "check"
  /\ \/ Fits /\ Answered
     \/ /\ ~Fits /\ Overflow
        /\ UNCHANGED requestVars

\* The provider fails, or finds the request too large itself: a
\* ContextOverflowError again.
ModelFails ==
  /\ phase = "check" /\ Fits
  /\ phase' = "idle" \/ (tried = "no" /\ phase' = "summarise")
  /\ UNCHANGED requestVars

Offloaded(size) == IF size > ResultLimit THEN PreviewSize ELSE size

\* Two tools the model called at once: its message and their results.
Results ==
  /\ phase = "tools"
  /\ \E call, n, o \in Sizes : Call(0, call + Offloaded(n) + Offloaded(o))

\* backend.write fails and is re-raised.
OffloadFails ==
  /\ phase = "tools" /\ \E n \in Sizes : n > ResultLimit
  /\ phase' = "idle"
  /\ UNCHANGED requestVars

BudgetNext ==
  \/ BudgetAsk \/ Summarise \/ CannotCut \/ SummaryFails
  \/ CheckBudget \/ ModelFails \/ Results \/ OffloadFails

BudgetSpec == BudgetInit /\ [][BudgetNext]_budgetVars

-----------------------------------------------------------------------------
(* Properties.                                                             *)

\* The length of a conversation alone never gets a request refused.  Either one
\* message that is sent, with the results of its calls, is larger than all that
\* is to be kept, or what no cut makes smaller, system prompt, memory, tools and
\* the summary itself, takes more than four fifteenths of the budget.
LengthNeverRefuses ==
  phase = "refused" =>
    large > KeepTokens \/ 15 * (overhead + summary) > 4 * InputBudget

-----------------------------------------------------------------------------
(* The inductive invariant.                                                *)

\* What a model call sends: the whole history before a cut was tried.
SentInv ==
  /\ phase = "summarise" => tried = "no"
  /\ phase \in {"summarise", "check"} /\ tried = "no" => sent = history

\* After that a part of it and the summary, or a history that is all kept.
TriedInv ==
  /\ newest <= widest /\ newest <= large
  /\ phase \in {"check", "refused"} /\ tried = "cut" /\ large <= KeepTokens
       => sent <= 2 * KeepTokens + summary /\ summary > 0
  /\ phase \in {"check", "refused"} /\ tried = "uncut" /\ large <= KeepTokens
       => sent <= KeepTokens

RefusedInv == phase = "refused" => tried # "no" /\ ~Fits

BudgetInv == BudgetTypeOK /\ SentInv /\ TriedInv /\ RefusedInv
=============================================================================
