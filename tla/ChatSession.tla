----------------------------- MODULE ChatSession -----------------------------
(***************************************************************************)
(* The chat orchestrator: sessions that start, resume, cancel and replace  *)
(* Auto runs, each with at most one run it is bound to and at most one     *)
(* question ("cancel, suspend or keep your current run?") to be answered   *)
(* before anything else (chat_assistant/orchestrator.py, session_store.py, *)
(* confirmation_store.py).                                                 *)
(*                                                                         *)
(* handle_message runs on the event loop without awaiting, so one message  *)
(* is handled at a time and no request handler interleaves with it; worker *)
(* threads, the threadpool and the watchdog do.  AutoRun is the detailed   *)
(* model of a run; here its worker may end with any outcome it can have.   *)
(***************************************************************************)
EXTENDS RunStates, Integers, Sequences, FiniteSets

CONSTANTS Sessions, Runs, NoRun

ASSUME NoRunAssumption == NoRun \notin Runs

VARIABLES
  status,   \* pipeline_runs.status
  working,  \* runs that have a worker thread
  discarding, \* stored runs that DELETE or the watchdog read as SUSPENDED
  overruled,  \* runs whose status was last written by one who had read an older one
  binding,  \* chat_run_sessions.active_run_id
  naming,   \* chat_run_sessions.pending_suspension_name_run_id
  asked,    \* unresolved chat_confirmations of each session, oldest first
  turn      \* the message the event loop is handling

runVars == <<status, working, discarding, overruled>>
chatVars == <<binding, naming, asked>>
vars == <<runVars, chatVars, turn>>

Messages == {"new", "resume", "cancel", "retry", "other"}

\* What a message asks to be started: a new run, or a stored one.
NewRun == "new_run"
Targets == Runs \union {NewRun}

Question == [run : Runs, target : Targets, lapsed : BOOLEAN]

NoTurn == [session |-> NoRun, step |-> "idle"]
Turn ==
  [session : Sessions, step : {"act"}, message : Messages, active : Runs \union {NoRun}]
    \union [session : Sessions, step : {"replace"}, choice : {"cancel", "suspend"},
            active : Runs, target : Targets]
    \union [session : Sessions, step : {"start"}, target : Targets,
            suspended : Runs \union {NoRun}]

TypeOK ==
  /\ status \in [Runs -> RunState \union {NoRow}]
  /\ working \subseteq Runs
  /\ discarding \subseteq Runs
  /\ overruled \subseteq Runs
  /\ binding \in [Sessions -> Runs \union {NoRun}]
  /\ naming \in [Sessions -> Runs \union {NoRun}]
  /\ asked \in [Sessions -> Seq(Question)]
  /\ turn \in Turn \union {NoTurn}

Init ==
  /\ status = [r \in Runs |-> NoRow]
  /\ working = {}
  /\ discarding = {}
  /\ overruled = {}
  /\ binding = [s \in Sessions |-> NoRun]
  /\ naming = [s \in Sessions |-> NoRun]
  /\ asked = [s \in Sessions |-> <<>>]
  /\ turn = NoTurn

Idle == turn = NoTurn
Active(r) == r # NoRun /\ status[r] \in ActiveStates

\* A transition whose check holds when it writes.
Move(r, to) ==
  /\ status' = [status EXCEPT ![r] = to]
  /\ overruled' = overruled \ {r}

\* A transition that was checked against an older status.
Overrule(r, to) ==
  /\ status' = [status EXCEPT ![r] = to]
  /\ overruled' = overruled \union {r}

MoveAndSpawn(r) == Move(r, "running") /\ working' = working \union {r}

------------------------------------------------------------------------------
(* The gates of handle_message.                                            *)

Last(seq) == seq[Len(seq)]
Front(seq) == SubSeq(seq, 1, Len(seq) - 1)

\* get_pending looks at the latest unresolved question only.
Pending(s) == asked[s] # <<>> /\ ~ Last(asked[s]).lapsed

\* An ambiguous answer is met with the same question and changes nothing, so
\* only "no" and the two choices are steps.
Decline(s) ==
  /\ Idle /\ Pending(s)
  /\ asked' = [asked EXCEPT ![s] = Front(@)]
  /\ UNCHANGED <<runVars, binding, naming, turn>>

Choose(s, choice) ==
  /\ Idle /\ Pending(s)
  /\ asked' = [asked EXCEPT ![s] = Front(@)]
  /\ turn' = [session |-> s, step |-> "replace", choice |-> choice,
              active |-> Last(asked[s]).run, target |-> Last(asked[s]).target]
  /\ UNCHANGED <<runVars, binding, naming>>

\* A question that has lapsed is marked when the next message comes.
DropLapsed(s) ==
  asked' = [asked EXCEPT ![s] = IF @ # <<>> /\ Last(@).lapsed THEN Front(@) ELSE @]

\* The message after a suspend is taken as the run's name, or as "skip".
Name(s) ==
  /\ Idle /\ ~Pending(s)
  /\ naming[s] # NoRun
  /\ DropLapsed(s)
  /\ naming' = [naming EXCEPT ![s] = NoRun]
  /\ UNCHANGED <<runVars, binding, turn>>

\* Mutant: a message with attachments leaves the prompt for a name standing.
ReceiveKeepsPrompt(s, m) ==
  /\ Idle /\ ~Pending(s)
  /\ DropLapsed(s)
  /\ binding' = [binding EXCEPT ![s] = IF Active(@) THEN @ ELSE NoRun]
  /\ turn' = [session |-> s, step |-> "act", message |-> m, active |-> binding'[s]]
  /\ UNCHANGED <<runVars, naming>>

\* Any other message: _active_run_id forgets a binding to a run that is no
\* longer active, and the intent is classified against what is left.  ("new"
\* stands for a message that completes the inputs of a reconciliation.)  A
\* message with attachments drops the prompt for a name.
Receive(s, m) ==
  /\ Idle /\ ~Pending(s)
  /\ DropLapsed(s)
  /\ naming' = [naming EXCEPT ![s] = NoRun]
  /\ binding' = [binding EXCEPT ![s] = IF Active(@) THEN @ ELSE NoRun]
  /\ turn' = [session |-> s, step |-> "act", message |-> m, active |-> binding'[s]]
  /\ UNCHANGED runVars

------------------------------------------------------------------------------
(* Acting on the message.  The run may have moved since it was read active: *)
(* classifying a new reconciliation asks the LLM in between.               *)

\* CANCEL; an illegal transition is caught by the route and nothing changes.
CancelRun ==
  /\ turn.step = "act" /\ turn.message = "cancel"
  /\ IF turn.active # NoRun /\ Legal(status[turn.active], "cancelling")
     THEN Move(turn.active, "cancelling")
     ELSE UNCHANGED <<status, overruled>>
  /\ turn' = NoTurn
  /\ UNCHANGED <<working, discarding, chatVars>>

\* RETRY: only of a failed run with a checkpoint.
RetryRun ==
  /\ turn.step = "act" /\ turn.message = "retry"
  /\ \/ turn.active # NoRun /\ status[turn.active] = "failed" /\ MoveAndSpawn(turn.active)
     \/ UNCHANGED <<status, working, overruled>>
  /\ turn' = NoTurn
  /\ UNCHANGED <<discarding, chatVars>>

\* STATUS, INSIGHTS, small talk, inputs still missing.
Reply ==
  /\ turn.step = "act" /\ turn.message \in {"other", "new", "resume"}
  /\ turn' = NoTurn
  /\ UNCHANGED <<runVars, chatVars>>

\* The runs "resume <name>" can be about (stored_run_lookup.find): the suspended
\* ones, which have a pipeline_run_suspensions row.  AutoRun models the rows.
Found(m, target) ==
  IF m = "new" THEN target = NewRun
  ELSE m = "resume" /\ target \in Runs /\ status[target] = "suspended"

\* Mutant: no return after the question is staged.
AskAndStart ==
  /\ turn.step = "act" /\ turn.active # NoRun
  /\ \E target \in Targets :
       /\ Found(turn.message, target)
       /\ asked' = [asked EXCEPT ![turn.session] =
            Append(@, [run |-> turn.active, target |-> target, lapsed |-> FALSE])]
       /\ turn' = [session |-> turn.session, step |-> "start", target |-> target,
                   suspended |-> NoRun]
  /\ UNCHANGED <<runVars, binding, naming>>

\* The session has an active run: ask first, keeping what was asked for.
Ask ==
  /\ turn.step = "act" /\ turn.active # NoRun
  /\ \E target \in Targets :
       /\ Found(turn.message, target)
       /\ asked' = [asked EXCEPT ![turn.session] =
            Append(@, [run |-> turn.active, target |-> target, lapsed |-> FALSE])]
  /\ turn' = NoTurn
  /\ UNCHANGED <<runVars, binding, naming>>

\* It has none: start at once.
Proceed ==
  /\ turn.step = "act" /\ turn.active = NoRun
  /\ \E target \in Targets :
       /\ Found(turn.message, target)
       /\ turn' = [session |-> turn.session, step |-> "start", target |-> target,
                   suspended |-> NoRun]
  /\ UNCHANGED <<runVars, chatVars>>

------------------------------------------------------------------------------
(* _execute_staged_action: stop the run asked about, then start.           *)

StartNext(suspended) ==
  turn' = [session |-> turn.session, step |-> "start", target |-> turn.target,
           suspended |-> suspended]

\* Mutant: a run that cannot be suspended is left as it is.
ReplaceRunNoFallback ==
  /\ turn.step = "replace"
  /\ LET r == turn.active IN
     \/ turn.choice = "suspend" /\ ~ Legal(status[r], "suspending")
          /\ StartNext(NoRun) /\ UNCHANGED <<status, overruled>>
     \/ turn.choice = "suspend" /\ Legal(status[r], "suspending")
          /\ Move(r, "suspending") /\ StartNext(r)
     \/ turn.choice = "cancel" /\ Legal(status[r], "cancelling")
          /\ Move(r, "cancelling") /\ StartNext(NoRun)
  /\ UNCHANGED <<working, discarding, chatVars>>

\* "suspend": a running run is asked to park, a failed one with a checkpoint is
\* parked, any other is cancelled instead.
Suspend(r) ==
  /\ \/ Legal(status[r], "suspending") /\ Move(r, "suspending")
     \/ status[r] = "failed" /\ Move(r, "suspended")
  /\ StartNext(r)

Cancel(r) ==
  /\ Legal(status[r], "cancelling")
  /\ Move(r, "cancelling")
  /\ StartNext(NoRun)

\* Neither is legal: transition() raises, the route answers "something went
\* wrong", and the question is already answered.
GiveUp == turn' = NoTurn /\ UNCHANGED <<status, overruled>>

ReplaceRun ==
  /\ turn.step = "replace"
  /\ LET r == turn.active
         cannotSuspend == turn.choice = "cancel" \/ ~ Legal(status[r], "suspending")
     IN \/ turn.choice = "suspend" /\ Suspend(r)
        \/ cannotSuspend /\ Cancel(r)
        \/ cannotSuspend /\ ~ Legal(status[r], "cancelling") /\ GiveUp
  /\ UNCHANGED <<working, discarding, chatVars>>

\* The next message of the session is taken as the name of the run that was
\* suspended, if one was.
NameAsked(s, r) ==
  IF r = NoRun THEN naming ELSE [naming EXCEPT ![s] = r]

\* _start_run_from_state or _resume_stored_run, then the question for a name.
\* A start may fail (unreadable file, unidentified systems, stale data); an
\* exception skips the question for the name.
Start ==
  /\ turn.step = "start"
  /\ turn' = NoTurn
  /\ \/ \E r \in Runs :
          /\ IF turn.target = NewRun THEN status[r] = NoRow
             ELSE r = turn.target /\ status[r] = "suspended"
          /\ MoveAndSpawn(r)
          /\ binding' = [binding EXCEPT ![turn.session] = r]
          /\ naming' = NameAsked(turn.session, turn.suspended)
     \/ /\ naming' \in {naming, NameAsked(turn.session, turn.suspended)}
        /\ UNCHANGED <<status, working, overruled, binding>>
  /\ UNCHANGED <<discarding, asked>>

------------------------------------------------------------------------------
(* Everything else.                                                        *)

\* What transition() may have read of a run whose worker now writes: the present
\* status, or RUNNING, which a request to stop, or the discard of a run that was
\* resumed meanwhile, was then written over.
MayHaveRead(r) ==
  IF status[r] \in {"cancelling", "suspending", "cancelled"}
  THEN {status[r], "running"} ELSE {status[r]}

\* A worker's stream ends and _finish asks for the outcome's status.  It sees a
\* request to stop only at its gates, so it may end otherwise.  transition() reads
\* the status, checks the edge, and writes without looking again; nothing else of
\* the worker shows between read and write, so what it read is chosen here.  If the
\* edge is illegal _finish raises and the status stays, as it does when the
\* write that came between read the status first and so was the last one.
EndWorker(r) ==
  /\ r \in working
  /\ working' = working \ {r}
  /\ \E read \in MayHaveRead(r),
        outcome \in {"waiting_for_input", "completed", "failed", "cancelled", "suspended"} :
       /\ outcome = "cancelled" => read = "cancelling"
       /\ outcome = "suspended" => read = "suspending"
       /\ \/ ~ Legal(read, outcome) /\ UNCHANGED <<status, overruled>>
          \/ read # status[r] /\ UNCHANGED <<status, overruled>>
          \/ read = status[r] /\ Legal(read, outcome) /\ Move(r, outcome)
          \/ read # status[r] /\ Legal(read, outcome) /\ Overrule(r, outcome)
  /\ UNCHANGED <<discarding, chatVars, turn>>

\* The pages of the application: answer, retry and resume spawn a worker, the
\* others ask it to stop or park a failed run.
UserMoves(r) ==
  /\ Idle
  /\ \/ status[r] \in {"waiting_for_input", "failed", "suspended"} /\ MoveAndSpawn(r)
     \/ /\ \/ Legal(status[r], "cancelling") /\ Move(r, "cancelling")
           \/ Legal(status[r], "suspending") /\ Move(r, "suspending")
           \/ status[r] = "failed" /\ Move(r, "suspended")
        /\ UNCHANGED working
  /\ UNCHANGED <<discarding, chatVars, turn>>

\* DELETE or expiry of a stored run, in the threadpool or the watchdog: the read ...
ReadStored(r) ==
  /\ status[r] = "suspended" /\ r \notin discarding
  /\ discarding' = discarding \union {r}
  /\ UNCHANGED <<status, working, overruled, chatVars, turn>>

\* ... and the write of its transition.  A resume that came between may itself
\* have read the status first, and then its write is the last one.
Discard(r) ==
  /\ r \in discarding
  /\ discarding' = discarding \ {r}
  /\ \/ status[r] = "suspended" /\ Move(r, "cancelled")
     \/ status[r] # "suspended" /\ Overrule(r, "cancelled")
     \/ status[r] # "suspended" /\ UNCHANGED <<status, overruled>>
  /\ UNCHANGED <<working, chatVars, turn>>

\* The questions of a session whose time is over: the oldest ones.
Lapsed(s) == {i \in DOMAIN asked[s] : asked[s][i].lapsed}

\* DEFAULT_TTL_SECONDS pass since the oldest other question was asked.
Lapse(s) ==
  /\ Pending(s)
  /\ asked' = [asked EXCEPT ![s][Cardinality(Lapsed(s)) + 1].lapsed = TRUE]
  /\ UNCHANGED <<runVars, binding, naming, turn>>

\* Mutant: the comparison with the clock the wrong way round.
ClearExpiredBackwards ==
  /\ \E s \in Sessions : Lapsed(s) # DOMAIN asked[s]
  /\ asked' = [s \in Sessions |-> SubSeq(asked[s], 1, Cardinality(Lapsed(s)))]
  /\ UNCHANGED <<runVars, binding, naming, turn>>

\* The watchdog's tick.
ClearExpired ==
  /\ \E s \in Sessions : Lapsed(s) # {}
  /\ asked' = [s \in Sessions |->
       SubSeq(asked[s], Cardinality(Lapsed(s)) + 1, Len(asked[s]))]
  /\ UNCHANGED <<runVars, binding, naming, turn>>

\* The process stops; at boot orphans fail and their sessions are unbound.
Restart ==
  /\ working' = {} /\ discarding' = {} /\ overruled' = {}
  /\ status' = [r \in Runs |-> IF status[r] \in OrphanStates THEN "failed" ELSE status[r]]
  /\ binding' = [s \in Sessions |->
       IF binding[s] # NoRun /\ status[binding[s]] \in OrphanStates
       THEN NoRun ELSE binding[s]]
  /\ turn' = NoTurn
  /\ UNCHANGED <<naming, asked>>

Handle == CancelRun \/ RetryRun \/ Reply \/ Ask \/ Proceed \/ ReplaceRun \/ Start

Next ==
  \/ Handle
  \/ \E s \in Sessions :
       \/ Decline(s) \/ Choose(s, "cancel") \/ Choose(s, "suspend") \/ Name(s) \/ Lapse(s)
       \/ \E m \in Messages : Receive(s, m)
  \/ \E r \in Runs : EndWorker(r) \/ UserMoves(r) \/ ReadStored(r) \/ Discard(r)
  \/ ClearExpired \/ Restart

Spec == Init /\ [][Next]_vars

\* Time passes and the watchdog ticks; nothing else has to happen: nobody has to
\* write, click, end or restart.
Fairness ==
  /\ WF_vars(ClearExpired)
  /\ \A s \in Sessions : WF_vars(Lapse(s))

FairSpec == Spec /\ Fairness

------------------------------------------------------------------------------
(* Properties.                                                             *)

\* A message is taken for the answer to what was asked.  The question is about
\* the run the session is bound to: whatever happened since it was asked (other
\* sessions, the pages, a restart), the answer never stops a run the session has
\* since replaced.  And a session never waits for a name and for an answer at
\* once, so neither is taken for the other.
AnswerMeetsItsQuestion ==
  \A s \in Sessions :
    /\ \A i \in DOMAIN asked[s] : binding[s] \in {asked[s][i].run, NoRun}
    /\ naming[s] # NoRun => asked[s] = <<>>

\* A run that goes on: it runs or waits, or has a worker that nobody asked to stop.
Live(r) ==
  \/ status[r] \in {"running", "waiting_for_input"}
  \/ r \in working /\ status[r] \notin {"cancelling", "suspending"}

\* "Concurrent runs are never supported" (_execute_staged_action): the session
\* is bound to another run, or to none, only when the run it was bound to is
\* asked to stop or has stopped, though it moves between the reads of a turn.  The
\* one exception is the gap in transition(): who read the status before that request
\* may write over it, and then the run goes on.
NeverDropsALiveRun ==
  [][\A s \in Sessions, r \in Runs :
       binding[s] = r /\ binding'[s] # r => r \in overruled' \/ ~ Live(r)']_vars

\* A question does not wait forever: it is answered, or it lapses and the
\* watchdog clears it though the session never writes again (clear_expired).
ConfirmationEnds ==
  \A s \in Sessions : asked[s] # <<>> ~> asked[s] = <<>>

==============================================================================
