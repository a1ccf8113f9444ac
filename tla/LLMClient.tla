------------------------------- MODULE LLMClient -------------------------------
(***************************************************************************)
(* One request to the language model (llm/failover.py): the configured     *)
(* providers are tried in order, the primary one last while its circuit    *)
(* breaker is open, until one answers or refuses.  What happened is left   *)
(* in a context variable that callers read afterwards, and a row is added  *)
(* to the log of calls.                                                    *)
(*                                                                         *)
(* The breaker is shared by every request of the process; a call is one    *)
(* step, and between two calls other requests and the cool-down may move   *)
(* the breaker at will.                                                    *)
(***************************************************************************)
EXTENDS Integers, Sequences, SequencesExt

CONSTANTS
  Providers,   \* the clients, a sequence; the first is the preferred one
  Configured,  \* those of them that have a model id
  None

VARIABLES
  breakerOpen, \* now < _open_until of the primary's breaker
  outcome,     \* the context variable: None, or the last call's LLMOutcome
  calls        \* attempts since the last reset

llmVars == <<breakerOpen, outcome, calls>>

Primary == Providers[1]

\* What a provider does with a request: answers; fails in a way that another
\* provider may not (rate limit, timeout, 5xx); fails in any other way.
Answers == {"served", "unavailable", "refused"}

LLMInit == breakerOpen = FALSE /\ outcome = None /\ calls = 0

\* _ordered: the primary is demoted, not excluded, while its breaker is open.
Ordered ==
  LET configured == SelectSeq(Providers, LAMBDA p : p \in Configured)
  IN IF Primary \in Configured /\ breakerOpen
     THEN Append(Tail(configured), Primary)
     ELSE configured

\* The providers a call reaches, given what each would say.
Tried(says) ==
  LET stops == {i \in DOMAIN Ordered : says[Ordered[i]] # "unavailable"}
  IN IF stops = {} THEN Ordered
     ELSE SubSeq(Ordered, 1, CHOOSE i \in stops : \A j \in stops : i <= j)

\* complete_json and _record.  ok says whether the caller gets an answer: it
\* does not when the row of the log cannot be written, although the outcome,
\* which is set first, says otherwise.
Complete(says, logged) ==
  LET tried == Tried(says)
      last == IF tried = <<>> THEN None ELSE tried[Len(tried)]
      allFailed == last # None /\ says[last] = "unavailable"
  IN /\ outcome' = [used |-> IF allFailed THEN None ELSE last,
                    fallback |-> ~allFailed /\ last \notin {None, Primary},
                    allFailed |-> allFailed,
                    ok |-> logged /\ last # None /\ says[last] = "served"]
     /\ breakerOpen' =
          IF Primary \notin Range(tried) THEN breakerOpen
          ELSE CASE says[Primary] = "unavailable" -> TRUE
                 [] says[Primary] = "served" -> FALSE
                 [] says[Primary] = "refused" -> breakerOpen
     /\ calls' = calls + 1

\* reset_llm_outcome, and then build_llm_client raises: nothing is recorded.
NoClient == outcome' = None /\ calls' = calls + 1 /\ UNCHANGED breakerOpen

ResetOutcome == outcome' = None /\ calls' = 0 /\ UNCHANGED breakerOpen

\* Other requests trip and reset the breaker, and its cool-down passes.
MoveBreaker == breakerOpen' = ~breakerOpen /\ UNCHANGED <<outcome, calls>>

==============================================================================
