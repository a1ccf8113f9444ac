---------------------------- MODULE MCChatSession -----------------------------
(* Bounds for TLC on the space of two sessions and two runs. *)
EXTENDS ChatSession

\* One session at a time waits for an answer or a name, and one run at a time is
\* in a race for its status; the other session and run do all else meanwhile.
MCOneAtATime ==
  /\ Cardinality({s \in Sessions : asked[s] # <<>> \/ naming[s] # NoRun}) <= 1
  /\ Cardinality(discarding \union overruled) <= 1

==============================================================================
