------------------------- MODULE ChatSessionProofs -------------------------
(***************************************************************************)
(* The safety of ChatSession for any number of sessions and runs.          *)
(*                                                                         *)
(* The heart is what a message may rely on between the gates and the act:  *)
(* the session it came from has no question and no prompt for a name, and  *)
(* is bound to the run the message was classified against, or to none.     *)
(***************************************************************************)
EXTENDS ChatSession, FiniteSetTheorems, TLAPS

AtMostOneAsked == \A s \in Sessions : Len(asked[s]) <= 1

\* The message being handled passed the gates of its session.
GatesPassed ==
  turn # NoTurn => asked[turn.session] = <<>> /\ naming[turn.session] = NoRun

\* A worker is at a run that runs or that was asked to stop, or a late discard has
\* marked its run as cancelled; and what a late writer writes is none of the former.
WorkerOK ==
  /\ \A r \in working :
       \/ status[r] \in {"running", "cancelling", "suspending"}
       \/ status[r] = "cancelled" /\ r \in overruled
  /\ \A r \in overruled : status[r] \notin {"running", "cancelling", "suspending"}

\* What was read of the binding still holds, though the run itself may have
\* moved; a run is started only when the bound one is on its way out, or was until
\* its status was written over.
StillBound ==
  turn # NoTurn =>
    LET bound == binding[turn.session] IN
    /\ turn.step = "act" => bound = turn.active
    /\ turn.step = "replace" => bound \in {turn.active, NoRun}
    /\ turn.step = "start" /\ bound # NoRun => bound \in overruled \/ ~ Live(bound)

ChatInv ==
  /\ TypeOK
  /\ AtMostOneAsked
  /\ GatesPassed
  /\ WorkerOK
  /\ StillBound
  /\ AnswerMeetsItsQuestion

------------------------------------------------------------------------------
(* Sequences of one element.                                               *)

LEMMA NoElement == ASSUME NEW S, NEW q \in Seq(S), Len(q) = 0 PROVE q = <<>>
OBVIOUS

LEMMA OneElement ==
  ASSUME NEW S, NEW q \in Seq(S), Len(q) = 1
  PROVE  q # <<>> /\ DOMAIN q = {1} /\ q[1] \in S
<1>1. q # <<>>
  OBVIOUS
<1>2. DOMAIN q = {1}
  OBVIOUS
<1>3. q[1] \in S
  OBVIOUS
<1> QED
  BY <1>1, <1>2, <1>3

LEMMA SetFirst ==
  ASSUME NEW S, NEW q \in Seq(S), NEW e \in S, Len(q) = 1
  PROVE  /\ [q EXCEPT ![1] = e] \in Seq(S) /\ Len([q EXCEPT ![1] = e]) = 1
         /\ [q EXCEPT ![1] = e][1] = e
<1>1. 1 \in DOMAIN q
  OBVIOUS
<1> QED
  BY <1>1

------------------------------------------------------------------------------
(* What the types say.                                                     *)

LEMMA TurnTypes ==
  TypeOK /\ turn # NoTurn =>
    /\ turn.session \in Sessions
    /\ turn.step \in {"act", "replace", "start"}
    /\ turn.step = "act" => turn.active \in Runs \union {NoRun}
    /\ turn.step = "replace" => turn.active \in Runs /\ turn.target \in Targets
    /\ turn.step = "start" => turn.target \in Targets /\ turn.suspended \in Runs \union {NoRun}
BY DEF TypeOK, Turn

LEMMA NotIdle == turn.step \in {"act", "replace", "start"} => turn # NoTurn
BY DEF NoTurn

\* A session has no question, or one that is first and last.
LEMMA ShortAsked ==
  ASSUME TypeOK, AtMostOneAsked, NEW s \in Sessions
  PROVE  \/ asked[s] = <<>> /\ Len(asked[s]) = 0
         \/ /\ asked[s] # <<>> /\ Len(asked[s]) = 1 /\ DOMAIN asked[s] = {1}
            /\ Last(asked[s]) = asked[s][1] /\ Front(asked[s]) = <<>>
            /\ asked[s][1] \in Question
<1> DEFINE q == asked[s]
<1>1. q \in Seq(Question) /\ Len(q) \in Nat /\ Len(q) <= 1 /\ DOMAIN q = 1..Len(q)
  BY DEF TypeOK, AtMostOneAsked
<1>2. CASE Len(q) = 0
  BY <1>1, <1>2, NoElement
<1>3. CASE Len(q) = 1
  <2>1. q # <<>> /\ DOMAIN q = {1} /\ q[1] \in Question
    BY <1>1, <1>3, OneElement
  <2>2. SubSeq(q, 1, 0) = <<>>
    BY <1>1
  <2> QED
    BY <1>3, <2>1, <2>2 DEF Last, Front
<1>4. Len(q) = 0 \/ Len(q) = 1
  <2>1. \A n \in Nat : n <= 1 => n = 0 \/ n = 1
    OBVIOUS
  <2> HIDE DEF q
  <2> QED
    BY <1>1, <2>1
<1> QED
  BY <1>2, <1>3, <1>4

LEMMA LapsedCount ==
  ASSUME TypeOK, AtMostOneAsked, NEW s \in Sessions
  PROVE  Cardinality(Lapsed(s)) =
           IF asked[s] # <<>> /\ asked[s][1].lapsed THEN 1 ELSE 0
<1>1. DOMAIN asked[s] = {} \/ DOMAIN asked[s] = {1}
  BY ShortAsked
<1>2. CASE asked[s] # <<>> /\ asked[s][1].lapsed
  <2>1. Lapsed(s) = {1}
    BY <1>1, <1>2, ShortAsked DEF Lapsed
  <2> QED
    BY <1>2, <2>1, FS_Singleton
<1>3. CASE ~ (asked[s] # <<>> /\ asked[s][1].lapsed)
  <2>1. Lapsed(s) = {}
    BY <1>1, <1>3, ShortAsked DEF Lapsed
  <2> QED
    BY <1>3, <2>1, FS_EmptySet
<1> QED
  BY <1>2, <1>3

\* A session that passes the gate for answers has no question left.
LEMMA GateClears ==
  ASSUME TypeOK, AtMostOneAsked, NEW s \in Sessions, ~ Pending(s), DropLapsed(s)
  PROVE  asked' = [asked EXCEPT ![s] = <<>>]
<1>1. asked[s] = <<>> \/ (asked[s] # <<>> /\ Last(asked[s]).lapsed /\ Front(asked[s]) = <<>>)
  BY ShortAsked DEF Pending
<1> QED
  BY <1>1 DEF DropLapsed, TypeOK

------------------------------------------------------------------------------
(* The gates.                                                              *)

LEMMA InitChat == Init => ChatInv
BY DEF Init, ChatInv, TypeOK, AtMostOneAsked, GatesPassed, WorkerOK, StillBound,
       AnswerMeetsItsQuestion, NoTurn

LEMMA DeclineChat == ASSUME NEW s \in Sessions PROVE ChatInv /\ Decline(s) => ChatInv'
<1> SUFFICES ASSUME ChatInv, Decline(s) PROVE ChatInv'
  OBVIOUS
<1>1. asked' = [asked EXCEPT ![s] = <<>>] /\ turn = NoTurn
  BY ShortAsked DEF ChatInv, Decline, Pending, Idle
<1> QED
  BY <1>1 DEF ChatInv, Decline, runVars, TypeOK, AtMostOneAsked, GatesPassed, WorkerOK, StillBound,
              AnswerMeetsItsQuestion

LEMMA ChooseChat ==
  ASSUME NEW s \in Sessions, NEW choice \in {"cancel", "suspend"}
  PROVE  ChatInv /\ Choose(s, choice) => ChatInv'
<1> SUFFICES ASSUME ChatInv, Choose(s, choice) PROVE ChatInv'
  OBVIOUS
<1>1. /\ asked' = [asked EXCEPT ![s] = <<>>]
      /\ asked[s] # <<>> /\ DOMAIN asked[s] = {1}
      /\ Last(asked[s]) = asked[s][1] /\ asked[s][1] \in Question
  BY ShortAsked DEF ChatInv, Choose, Pending
<1>2. /\ turn' = [session |-> s, step |-> "replace", choice |-> choice,
                  active |-> asked[s][1].run, target |-> asked[s][1].target]
      /\ UNCHANGED <<status, working, discarding, overruled, binding, naming>>
  BY <1>1 DEF Choose, runVars
<1>3. TypeOK'
  <2>1. turn' \in Turn
    BY <1>1, <1>2 DEF Turn, Question
  <2> QED
    BY <1>1, <1>2, <2>1 DEF ChatInv, TypeOK
<1>4. binding[s] \in {asked[s][1].run, NoRun} /\ naming[s] = NoRun
  BY <1>1 DEF ChatInv, AnswerMeetsItsQuestion
<1>5. GatesPassed' /\ StillBound'
  BY <1>1, <1>2, <1>4 DEF ChatInv, TypeOK, GatesPassed, StillBound
<1>6. AtMostOneAsked' /\ WorkerOK' /\ AnswerMeetsItsQuestion'
  BY <1>1, <1>2 DEF ChatInv, TypeOK, AtMostOneAsked, WorkerOK, AnswerMeetsItsQuestion
<1> QED
  BY <1>3, <1>5, <1>6 DEF ChatInv

LEMMA NameChat == ASSUME NEW s \in Sessions PROVE ChatInv /\ Name(s) => ChatInv'
<1> SUFFICES ASSUME ChatInv, Name(s) PROVE ChatInv'
  OBVIOUS
<1>1. asked' = [asked EXCEPT ![s] = <<>>] /\ turn = NoTurn
  BY GateClears DEF ChatInv, Name, Idle
<1> QED
  BY <1>1 DEF ChatInv, Name, runVars, TypeOK, AtMostOneAsked, GatesPassed, WorkerOK, StillBound,
              AnswerMeetsItsQuestion

LEMMA ReceiveChat ==
  ASSUME NEW s \in Sessions, NEW m \in Messages
  PROVE  ChatInv /\ Receive(s, m) => ChatInv'
<1> SUFFICES ASSUME ChatInv, Receive(s, m) PROVE ChatInv'
  OBVIOUS
<1>1. asked' = [asked EXCEPT ![s] = <<>>]
  BY GateClears DEF ChatInv, Receive
<1>2. PICK b \in {binding[s], NoRun} : binding' = [binding EXCEPT ![s] = b]
  BY DEF Receive
<1>3. /\ turn' = [session |-> s, step |-> "act", message |-> m, active |-> b]
      /\ naming' = [naming EXCEPT ![s] = NoRun]
      /\ UNCHANGED <<status, working, discarding, overruled>>
  BY <1>2 DEF ChatInv, TypeOK, Receive, runVars
<1>4. TypeOK'
  <2>1. b \in Runs \union {NoRun}
    BY <1>2 DEF ChatInv, TypeOK
  <2>2. turn' \in Turn
    BY <1>3, <2>1 DEF Turn
  <2> QED
    BY <1>1, <1>2, <1>3, <2>1, <2>2 DEF ChatInv, TypeOK
<1>5. GatesPassed' /\ StillBound'
  BY <1>1, <1>2, <1>3 DEF ChatInv, TypeOK, GatesPassed, StillBound
<1>6. AtMostOneAsked' /\ WorkerOK' /\ AnswerMeetsItsQuestion'
  BY <1>1, <1>2, <1>3 DEF ChatInv, TypeOK, AtMostOneAsked, WorkerOK, AnswerMeetsItsQuestion
<1> QED
  BY <1>4, <1>5, <1>6 DEF ChatInv

------------------------------------------------------------------------------
(* Acting on the message.                                                  *)

\* What the rows and workers of the runs are, and a worker's claim to its run.
RunsOK ==
  /\ status \in [Runs -> RunState \union {NoRow}]
  /\ working \subseteq Runs /\ discarding \subseteq Runs /\ overruled \subseteq Runs
  /\ WorkerOK

LEMMA RunsAreOK == ChatInv => RunsOK
BY DEF ChatInv, TypeOK, RunsOK

\* Steps that end the turn and change nothing of the sessions.
LEMMA TurnEnds ==
  ASSUME ChatInv, RunsOK', UNCHANGED chatVars, turn' = NoTurn
  PROVE  ChatInv'
BY DEF chatVars, RunsOK, ChatInv, TypeOK, AtMostOneAsked, GatesPassed, StillBound,
       AnswerMeetsItsQuestion

\* A legal transition of a run, or a request to park a failed one.
LEMMA MoveRuns ==
  ASSUME RunsOK, NEW r \in Runs, NEW to \in RunState, Move(r, to), UNCHANGED discarding,
         \/ working' = working \union {r} /\ to = "running"
         \/ working' = working \ {r}
         \/ UNCHANGED working /\ to \in {"cancelling", "suspending"}
         \/ UNCHANGED working /\ status[r] = "failed"
  PROVE  RunsOK'
BY DEF RunsOK, Move, WorkerOK, RunState

LEMMA CancelRunChat == ChatInv /\ CancelRun => ChatInv'
<1> SUFFICES ASSUME ChatInv, CancelRun PROVE ChatInv'
  OBVIOUS
<1>1. turn.active \in Runs \union {NoRun}
  BY TurnTypes, NotIdle DEF ChatInv, CancelRun
<1>2. CASE turn.active # NoRun /\ Legal(status[turn.active], "cancelling")
  <2>1. RunsOK'
    BY <1>1, <1>2, RunsAreOK, MoveRuns DEF CancelRun, RunState
  <2> QED
    BY <2>1, TurnEnds DEF CancelRun
<1>3. CASE ~ (turn.active # NoRun /\ Legal(status[turn.active], "cancelling"))
  <2>1. RunsOK'
    BY <1>3, RunsAreOK DEF CancelRun, RunsOK, WorkerOK
  <2> QED
    BY <2>1, TurnEnds DEF CancelRun
<1> QED
  BY <1>2, <1>3

LEMMA RetryRunChat == ChatInv /\ RetryRun => ChatInv'
<1> SUFFICES ASSUME ChatInv, RetryRun PROVE ChatInv'
  OBVIOUS
<1>1. turn.active \in Runs \union {NoRun} /\ "running" \in RunState
  BY TurnTypes, NotIdle DEF ChatInv, RetryRun, RunState
<1>2. CASE turn.active # NoRun /\ MoveAndSpawn(turn.active)
  <2>1. RunsOK'
    BY <1>1, <1>2, RunsAreOK, MoveRuns DEF RetryRun, MoveAndSpawn
  <2> QED
    BY <2>1, TurnEnds DEF RetryRun
<1>3. CASE UNCHANGED <<status, working, overruled>>
  <2>1. RunsOK'
    BY <1>3, RunsAreOK DEF RetryRun, RunsOK, WorkerOK
  <2> QED
    BY <2>1, TurnEnds DEF RetryRun
<1> QED
  BY <1>2, <1>3 DEF RetryRun

LEMMA ReplyChat == ChatInv /\ Reply => ChatInv'
BY RunsAreOK, TurnEnds DEF Reply, runVars, RunsOK, WorkerOK

LEMMA AskChat == ChatInv /\ Ask => ChatInv'
<1> SUFFICES ASSUME ChatInv, Ask PROVE ChatInv'
  OBVIOUS
<1> DEFINE s == turn.session
<1>1. /\ s \in Sessions /\ turn.active \in Runs
      /\ asked[s] = <<>> /\ naming[s] = NoRun /\ binding[s] = turn.active
  BY TurnTypes, NotIdle DEF ChatInv, Ask, GatesPassed, StillBound
<1>2. PICK target \in Targets :
        asked' = [asked EXCEPT ![s] =
          Append(@, [run |-> turn.active, target |-> target, lapsed |-> FALSE])]
  BY DEF Ask
<1> DEFINE q == [run |-> turn.active, target |-> target, lapsed |-> FALSE]
<1>3. q \in Question /\ q.run = turn.active
  BY <1>1 DEF Question
<1> HIDE DEF q
<1>4. Append(<<>>, q) = <<q>> /\ <<q>> \in Seq(Question) /\ Len(<<q>>) = 1 /\ DOMAIN <<q>> = {1}
      /\ <<q>>[1] = q
  BY <1>3
<1>5. asked' = [asked EXCEPT ![s] = <<q>>]
  BY <1>1, <1>2, <1>4 DEF q
<1>6. UNCHANGED <<status, working, discarding, overruled, binding, naming>> /\ turn' = NoTurn
  BY DEF Ask, runVars
<1>7. TypeOK'
  BY <1>4, <1>5, <1>6 DEF ChatInv, TypeOK
<1>8. AtMostOneAsked'
  BY <1>4, <1>5 DEF ChatInv, TypeOK, AtMostOneAsked
<1>9. AnswerMeetsItsQuestion'
  BY <1>1, <1>3, <1>4, <1>5, <1>6 DEF ChatInv, TypeOK, AnswerMeetsItsQuestion
<1> QED
  BY <1>6, <1>7, <1>8, <1>9 DEF ChatInv, GatesPassed, WorkerOK, StillBound

LEMMA ProceedChat == ChatInv /\ Proceed => ChatInv'
<1> SUFFICES ASSUME ChatInv, Proceed PROVE ChatInv'
  OBVIOUS
<1>1. turn # NoTurn /\ turn.session \in Sessions /\ binding[turn.session] = NoRun
  BY TurnTypes, NotIdle DEF ChatInv, Proceed, StillBound
<1>2. PICK target \in Targets :
        turn' = [session |-> turn.session, step |-> "start", target |-> target,
                 suspended |-> NoRun]
  BY DEF Proceed
<1>3. turn' \in Turn
  BY <1>1, <1>2 DEF Turn
<1>4. UNCHANGED <<status, working, discarding, overruled, binding, naming, asked>>
  BY DEF Proceed, runVars, chatVars
<1> QED
  BY <1>1, <1>2, <1>3, <1>4 DEF ChatInv, TypeOK, AtMostOneAsked, GatesPassed, WorkerOK,
                                StillBound, AnswerMeetsItsQuestion

LEMMA ReplaceRunChat == ChatInv /\ ReplaceRun => ChatInv'
<1> SUFFICES ASSUME ChatInv, ReplaceRun PROVE ChatInv'
  OBVIOUS
<1>0. turn # NoTurn /\ turn.active \in Runs
  BY TurnTypes, NotIdle DEF ChatInv, ReplaceRun
<1> PICK r \in Runs : r = turn.active
  BY <1>0
<1>1. /\ turn # NoTurn /\ turn.session \in Sessions /\ r \in Runs /\ turn.target \in Targets
      /\ binding[turn.session] \in {r, NoRun}
  BY TurnTypes, NotIdle DEF ChatInv, ReplaceRun, StillBound
<1>2. UNCHANGED <<working, discarding, binding, naming, asked>>
  BY DEF ReplaceRun, chatVars
<1>3. ASSUME NEW to \in {"suspending", "suspended", "cancelling"}, Move(r, to),
             to = "suspended" => status[r] = "failed",
             NEW suspended \in {r, NoRun}, StartNext(suspended)
      PROVE  ChatInv'
  <2>1. turn' = [session |-> turn.session, step |-> "start", target |-> turn.target,
                 suspended |-> suspended] /\ turn' \in Turn
    BY <1>1, <1>3 DEF StartNext, Turn
  <2>2. RunsOK'
    BY <1>1, <1>2, <1>3, RunsAreOK, MoveRuns DEF RunState
  <2>3. TypeOK' /\ WorkerOK'
    BY <1>2, <2>1, <2>2 DEF ChatInv, TypeOK, RunsOK
  <2>4. r \notin overruled' /\ status'[r] = to
    BY <1>1, <1>3 DEF Move, ChatInv, TypeOK
  <2>5. ~ Live(r)'
    BY <1>3, <2>3, <2>4 DEF WorkerOK, Live
  <2>6. GatesPassed' /\ StillBound'
    BY <1>1, <1>2, <2>1, <2>5 DEF ChatInv, GatesPassed, StillBound
  <2> QED
    BY <1>2, <2>3, <2>6 DEF ChatInv, AtMostOneAsked, AnswerMeetsItsQuestion
<1>4. CASE Suspend(r)
  BY <1>3, <1>4 DEF Suspend
<1>5. CASE Cancel(r)
  BY <1>3, <1>5 DEF Cancel
<1>6. CASE GiveUp
  <2>1. RunsOK'
    BY <1>2, <1>6, RunsAreOK DEF GiveUp, RunsOK, WorkerOK
  <2> QED
    BY <1>2, <1>6, <2>1, TurnEnds DEF GiveUp, chatVars
<1> QED
  BY <1>4, <1>5, <1>6 DEF ReplaceRun

LEMMA StartChat == ChatInv /\ Start => ChatInv'
<1> SUFFICES ASSUME ChatInv, Start PROVE ChatInv'
  OBVIOUS
<1> DEFINE s == turn.session
<1>1. /\ s \in Sessions /\ turn.suspended \in Runs \union {NoRun} /\ asked[s] = <<>>
  BY TurnTypes, NotIdle DEF ChatInv, Start, GatesPassed
<1>2. PICK n \in Runs \union {NoRun} : naming' = [naming EXCEPT ![s] = n]
  BY <1>1 DEF Start, NameAsked, ChatInv, TypeOK
<1>3. PICK b \in Runs \union {NoRun} : binding' = [binding EXCEPT ![s] = b]
  <2>1. CASE \E q \in Runs : binding' = [binding EXCEPT ![s] = q]
    BY <2>1
  <2>2. CASE UNCHANGED binding
    BY <1>1, <2>2 DEF ChatInv, TypeOK
  <2> QED
    BY <2>1, <2>2 DEF Start
<1>4. RunsOK'
  <2>1. ASSUME NEW r \in Runs, MoveAndSpawn(r) PROVE RunsOK'
    BY <2>1, RunsAreOK, MoveRuns DEF Start, MoveAndSpawn, RunState
  <2>2. CASE UNCHANGED <<status, working, overruled>>
    BY <2>2, RunsAreOK DEF Start, RunsOK, WorkerOK
  <2> QED
    BY <2>1, <2>2 DEF Start
<1>5. UNCHANGED asked /\ turn' = NoTurn
  BY DEF Start
<1>6. TypeOK' /\ WorkerOK'
  BY <1>2, <1>3, <1>4, <1>5 DEF ChatInv, TypeOK, RunsOK
<1>7. AnswerMeetsItsQuestion'
  BY <1>1, <1>2, <1>3, <1>5 DEF ChatInv, TypeOK, AnswerMeetsItsQuestion
<1> QED
  BY <1>5, <1>6, <1>7 DEF ChatInv, AtMostOneAsked, GatesPassed, StillBound

------------------------------------------------------------------------------
(* Everything else.                                                        *)

\* A step outside of the chat does not make a run live again while a message
\* is about to start one, unless it is one that writes over a request to stop.
LEMMA RunsMove ==
  ASSUME ChatInv, UNCHANGED <<chatVars, turn>>, RunsOK',
         \/ turn = NoTurn
         \/ \A r \in Runs : r \in overruled \/ ~ Live(r) => r \in overruled' \/ ~ Live(r)'
  PROVE  ChatInv'
<1>1. TypeOK' /\ AtMostOneAsked' /\ GatesPassed' /\ WorkerOK' /\ AnswerMeetsItsQuestion'
  BY DEF chatVars, RunsOK, ChatInv, TypeOK, AtMostOneAsked, GatesPassed, AnswerMeetsItsQuestion
<1>2. StillBound'
  <2>1. turn # NoTurn => binding[turn.session] \in Runs \union {NoRun}
    BY TurnTypes DEF ChatInv, TypeOK
  <2>2. CASE turn = NoTurn
    BY <2>2 DEF StillBound
  <2>3. CASE turn # NoTurn /\ \A r \in Runs :
               r \in overruled \/ ~ Live(r) => r \in overruled' \/ ~ Live(r)'
    BY <2>1, <2>3 DEF chatVars, ChatInv, StillBound
  <2> QED
    BY <2>2, <2>3
<1> QED
  BY <1>1, <1>2 DEF ChatInv

LEMMA EndWorkerChat == ASSUME NEW r \in Runs PROVE ChatInv /\ EndWorker(r) => ChatInv'
<1> SUFFICES ASSUME ChatInv, EndWorker(r) PROVE ChatInv'
  OBVIOUS
<1>1. r \in working /\ working' = working \ {r} /\ UNCHANGED <<discarding, chatVars, turn>>
  BY DEF EndWorker
<1>2. PICK read \in MayHaveRead(r),
           outcome \in {"waiting_for_input", "completed", "failed", "cancelled", "suspended"} :
        \/ UNCHANGED <<status, overruled>>
        \/ read = status[r] /\ Legal(read, outcome) /\ Move(r, outcome)
        \/ Overrule(r, outcome)
  BY DEF EndWorker
<1>3. RunsOK /\ WorkerOK
  BY RunsAreOK DEF RunsOK
<1>4. CASE UNCHANGED <<status, overruled>>
  <2>1. RunsOK'
    BY <1>1, <1>3, <1>4 DEF RunsOK, WorkerOK
  <2>2. \A p \in Runs : p \in overruled \/ ~ Live(p) => p \in overruled' \/ ~ Live(p)'
    BY <1>1, <1>4 DEF Live
  <2> QED
    BY <1>1, <2>1, <2>2, RunsMove
<1>5. CASE read = status[r] /\ Legal(read, outcome) /\ Move(r, outcome)
  <2>1. RunsOK'
    BY <1>1, <1>3, <1>5, MoveRuns DEF RunState
  <2>2. status[r] \in {"running", "cancelling", "suspending"}
    BY <1>1, <1>3, <1>5 DEF WorkerOK, Legal
  <2>3. \A p \in Runs : p \in overruled \/ ~ Live(p) => p \in overruled' \/ ~ Live(p)'
    <3>1. CASE status[r] = "running"
      BY <1>1, <1>3, <1>5, <3>1 DEF RunsOK, WorkerOK, Move, Live
    <3>2. CASE status[r] \in {"cancelling", "suspending"}
      <4>1. outcome \notin {"running", "waiting_for_input"}
        BY <1>5, <3>2 DEF Legal
      <4> QED
        BY <1>1, <1>3, <1>5, <3>2, <4>1 DEF RunsOK, WorkerOK, Move, Live
    <3> QED
      BY <2>2, <3>1, <3>2
  <2> QED
    BY <1>1, <2>1, <2>3, RunsMove
<1>6. CASE Overrule(r, outcome)
  <2>1. RunsOK'
    BY <1>1, <1>3, <1>6 DEF Overrule, RunsOK, WorkerOK, RunState
  <2>2. \A p \in Runs : p \in overruled \/ ~ Live(p) => p \in overruled' \/ ~ Live(p)'
    BY <1>1, <1>3, <1>6 DEF Overrule, RunsOK, Live
  <2> QED
    BY <1>1, <2>1, <2>2, RunsMove
<1> QED
  BY <1>2, <1>4, <1>5, <1>6

LEMMA UserMovesChat == ASSUME NEW r \in Runs PROVE ChatInv /\ UserMoves(r) => ChatInv'
<1> SUFFICES ASSUME ChatInv, UserMoves(r) PROVE ChatInv'
  OBVIOUS
<1>1. UNCHANGED <<discarding, chatVars, turn>> /\ turn = NoTurn
  BY DEF UserMoves, Idle
<1>2. RunsOK'
  BY <1>1, RunsAreOK, MoveRuns DEF UserMoves, MoveAndSpawn, RunState
<1> QED
  BY <1>1, <1>2, RunsMove

LEMMA ReadStoredChat == ASSUME NEW r \in Runs PROVE ChatInv /\ ReadStored(r) => ChatInv'
<1> SUFFICES ASSUME ChatInv, ReadStored(r) PROVE ChatInv'
  OBVIOUS
<1>1. /\ UNCHANGED <<status, working, overruled, chatVars, turn>>
      /\ discarding' = discarding \union {r}
  BY DEF ReadStored
<1>2. RunsOK'
  BY <1>1, RunsAreOK DEF RunsOK, WorkerOK
<1>3. \A p \in Runs : p \in overruled \/ ~ Live(p) => p \in overruled' \/ ~ Live(p)'
  BY <1>1 DEF Live
<1> QED
  BY <1>1, <1>2, <1>3, RunsMove

LEMMA DiscardChat == ASSUME NEW r \in Runs PROVE ChatInv /\ Discard(r) => ChatInv'
<1> SUFFICES ASSUME ChatInv, Discard(r) PROVE ChatInv'
  OBVIOUS
<1>1. UNCHANGED <<working, chatVars, turn>> /\ discarding' = discarding \ {r}
  BY DEF Discard
<1>2. RunsOK /\ WorkerOK
  BY RunsAreOK DEF RunsOK
<1>3. CASE status[r] = "suspended" /\ Move(r, "cancelled")
  <2>1. r \notin working
    BY <1>2, <1>3 DEF WorkerOK
  <2>2. RunsOK'
    BY <1>1, <1>2, <1>3, <2>1 DEF Move, RunsOK, WorkerOK, RunState
  <2>3. \A p \in Runs : p \in overruled \/ ~ Live(p) => p \in overruled' \/ ~ Live(p)'
    BY <1>1, <1>2, <1>3, <2>1 DEF Move, RunsOK, Live
  <2> QED
    BY <1>1, <2>2, <2>3, RunsMove
<1>4. CASE Overrule(r, "cancelled")
  <2>1. RunsOK'
    BY <1>1, <1>2, <1>4 DEF Overrule, RunsOK, WorkerOK, RunState
  <2>2. \A p \in Runs : p \in overruled \/ ~ Live(p) => p \in overruled' \/ ~ Live(p)'
    BY <1>1, <1>2, <1>4 DEF Overrule, RunsOK, Live
  <2> QED
    BY <1>1, <2>1, <2>2, RunsMove
<1>5. CASE UNCHANGED <<status, overruled>>
  <2>1. RunsOK'
    BY <1>1, <1>2, <1>5 DEF RunsOK, WorkerOK
  <2>2. \A p \in Runs : p \in overruled \/ ~ Live(p) => p \in overruled' \/ ~ Live(p)'
    BY <1>1, <1>5 DEF Live
  <2> QED
    BY <1>1, <2>1, <2>2, RunsMove
<1> QED
  BY <1>3, <1>4, <1>5 DEF Discard

\* Questions that go, or lapse, leave at most what was asked.
LEMMA QuestionsAge ==
  ASSUME ChatInv, UNCHANGED <<runVars, binding, naming, turn>>,
         asked' \in [Sessions -> Seq(Question)],
         \A s \in Sessions :
           \/ asked'[s] = <<>>
           \/ /\ asked[s] # <<>> /\ Len(asked'[s]) = 1
              /\ asked'[s][1].run = asked[s][1].run
  PROVE  ChatInv'
<1>1. TypeOK' /\ WorkerOK' /\ StillBound'
  BY DEF runVars, ChatInv, TypeOK, WorkerOK, StillBound, Live
<1>2. GatesPassed'
  BY TurnTypes DEF ChatInv, GatesPassed
<1>3. AtMostOneAsked'
  <2> SUFFICES ASSUME NEW s \in Sessions PROVE Len(asked'[s]) <= 1
    BY DEF AtMostOneAsked
  <2>1. CASE asked'[s] = <<>>
    BY <2>1
  <2>2. CASE Len(asked'[s]) = 1
    BY <2>2
  <2> QED
    BY <2>1, <2>2
<1>4. AnswerMeetsItsQuestion'
  <2> SUFFICES ASSUME NEW s \in Sessions, asked'[s] # <<>>
               PROVE  /\ \A i \in DOMAIN asked'[s] : binding[s] \in {asked'[s][i].run, NoRun}
                      /\ naming[s] = NoRun
    BY DEF AnswerMeetsItsQuestion
  <2>1. asked[s] # <<>> /\ asked'[s] \in Seq(Question) /\ Len(asked'[s]) = 1
        /\ asked'[s][1].run = asked[s][1].run
    OBVIOUS
  <2>2. DOMAIN asked'[s] = {1}
    BY <2>1
  <2>3. 1 \in DOMAIN asked[s]
    BY <2>1, ShortAsked DEF ChatInv
  <2> QED
    BY <2>1, <2>2, <2>3 DEF ChatInv, AnswerMeetsItsQuestion
<1> QED
  BY <1>1, <1>2, <1>3, <1>4 DEF ChatInv

LEMMA LapseChat == ASSUME NEW s \in Sessions PROVE ChatInv /\ Lapse(s) => ChatInv'
<1> SUFFICES ASSUME ChatInv, Lapse(s) PROVE ChatInv'
  OBVIOUS
<1>1. /\ asked[s] # <<>> /\ asked[s] \in Seq(Question) /\ Len(asked[s]) = 1
      /\ asked[s][1] \in Question /\ ~ asked[s][1].lapsed
  BY ShortAsked DEF ChatInv, TypeOK, Lapse, Pending
<1>2. Cardinality(Lapsed(s)) + 1 = 1
  BY <1>1, LapsedCount DEF ChatInv
<1> DEFINE e == [asked[s][1] EXCEPT !.lapsed = TRUE]
           q == [asked[s] EXCEPT ![1] = e]
<1>3. asked' = [asked EXCEPT ![s] = q]
  BY <1>2 DEF Lapse
<1>4. q \in Seq(Question) /\ Len(q) = 1 /\ q[1].run = asked[s][1].run
  <2>1. e \in Question /\ e.run = asked[s][1].run
    BY <1>1 DEF Question
  <2> HIDE DEF e
  <2> QED
    BY <1>1, <2>1, SetFirst
<1> HIDE DEF q
<1>5. asked' \in [Sessions -> Seq(Question)]
  BY <1>3, <1>4 DEF ChatInv, TypeOK
<1>6. \A t \in Sessions :
        \/ asked'[t] = <<>>
        \/ asked[t] # <<>> /\ Len(asked'[t]) = 1 /\ asked'[t][1].run = asked[t][1].run
  BY <1>1, <1>3, <1>4, ShortAsked DEF ChatInv, TypeOK
<1> QED
  BY <1>5, <1>6, QuestionsAge DEF Lapse

LEMMA ClearExpiredChat == ChatInv /\ ClearExpired => ChatInv'
<1> SUFFICES ASSUME ChatInv, ClearExpired PROVE ChatInv'
  OBVIOUS
<1>1. ASSUME NEW s \in Sessions
      PROVE  asked'[s] \in {asked[s], <<>>}
  <2>1. asked'[s] = SubSeq(asked[s], Cardinality(Lapsed(s)) + 1, Len(asked[s]))
    BY DEF ClearExpired
  <2>2. Cardinality(Lapsed(s)) \in {0, 1} /\ (Cardinality(Lapsed(s)) = 1 => asked[s] # <<>>)
    BY LapsedCount DEF ChatInv
  <2>3. asked[s] \in Seq(Question) /\ Len(asked[s]) \in {0, 1}
    BY ShortAsked DEF ChatInv, TypeOK
  <2>4. SubSeq(asked[s], 1, Len(asked[s])) = asked[s]
    BY <2>3
  <2>5. SubSeq(asked[s], 2, Len(asked[s])) = <<>>
    <3>1. /\ SubSeq(asked[s], 2, Len(asked[s])) \in Seq(Question)
          /\ Len(SubSeq(asked[s], 2, Len(asked[s]))) = 0
      BY <2>3
    <3> QED
      BY <3>1, NoElement
  <2> QED
    BY <2>1, <2>2, <2>4, <2>5
<1>2. asked' \in [Sessions -> Seq(Question)]
  <2>1. \A s \in Sessions : asked'[s] \in Seq(Question)
    <3>1. <<>> \in Seq(Question)
      OBVIOUS
    <3> QED
      BY <1>1, <3>1 DEF ChatInv, TypeOK
  <2>2. asked' = [s \in Sessions |-> asked'[s]]
    BY DEF ClearExpired
  <2> QED
    BY <2>1, <2>2
<1> QED
  BY <1>1, <1>2, ShortAsked, QuestionsAge DEF ClearExpired, ChatInv

LEMMA RestartChat == ChatInv /\ Restart => ChatInv'
<1> SUFFICES ASSUME ChatInv, Restart PROVE ChatInv'
  OBVIOUS
<1>1. RunsOK'
  BY DEF Restart, ChatInv, TypeOK, RunsOK, WorkerOK, RunState
<1>2. /\ binding' \in [Sessions -> Runs \union {NoRun}]
      /\ \A s \in Sessions : binding'[s] \in {binding[s], NoRun}
  BY DEF Restart, ChatInv, TypeOK
<1>3. UNCHANGED <<naming, asked>> /\ turn' = NoTurn
  BY DEF Restart
<1>4. TypeOK' /\ WorkerOK' /\ AtMostOneAsked'
  BY <1>1, <1>2, <1>3 DEF ChatInv, TypeOK, RunsOK, AtMostOneAsked
<1>5. AnswerMeetsItsQuestion'
  BY <1>2, <1>3 DEF ChatInv, AnswerMeetsItsQuestion
<1> QED
  BY <1>3, <1>4, <1>5 DEF ChatInv, GatesPassed, StillBound

------------------------------------------------------------------------------
(* The theorems.                                                           *)

LEMMA NextChat == ChatInv /\ [Next]_vars => ChatInv'
<1> SUFFICES ASSUME ChatInv, [Next]_vars PROVE ChatInv'
  OBVIOUS
<1>1. CASE Handle
  BY <1>1, CancelRunChat, RetryRunChat, ReplyChat, AskChat, ProceedChat, ReplaceRunChat,
     StartChat DEF Handle
<1>2. ASSUME NEW s \in Sessions,
             \/ Decline(s) \/ Choose(s, "cancel") \/ Choose(s, "suspend") \/ Name(s) \/ Lapse(s)
             \/ \E m \in Messages : Receive(s, m)
      PROVE  ChatInv'
  BY <1>2, DeclineChat, ChooseChat, NameChat, LapseChat, ReceiveChat
<1>3. ASSUME NEW r \in Runs, EndWorker(r) \/ UserMoves(r) \/ ReadStored(r) \/ Discard(r)
      PROVE  ChatInv'
  BY <1>3, EndWorkerChat, UserMovesChat, ReadStoredChat, DiscardChat
<1>4. CASE ClearExpired \/ Restart
  BY <1>4, ClearExpiredChat, RestartChat
<1>5. CASE UNCHANGED vars
  BY <1>5 DEF vars, runVars, chatVars, ChatInv, TypeOK, AtMostOneAsked, GatesPassed,
              WorkerOK, StillBound, Live, AnswerMeetsItsQuestion
<1> QED
  BY <1>1, <1>2, <1>3, <1>4, <1>5 DEF Next

\* Every table of the chat keeps its type, and a session has at most one
\* question, no prompt beside it, and the binding its message was read with.
THEOREM ChatInvHolds == Spec => []ChatInv
  BY InitChat, NextChat, PTL DEF Spec

\* For any number of sessions and runs: an answer is about the run the session
\* is bound to, and is never mistaken for a name, nor a name for an answer.
THEOREM AnswersMeetQuestions == Spec => []AnswerMeetsItsQuestion
<1>1. ChatInv => AnswerMeetsItsQuestion
  BY DEF ChatInv
<1> QED
  BY <1>1, ChatInvHolds, PTL

\* A binding changes at a message's gate, at a start, and at boot.
LEMMA BindingStep ==
  ASSUME ChatInv, [Next]_vars, NEW s \in Sessions, NEW r \in Runs,
         binding[s] = r, binding'[s] # r
  PROVE  r \in overruled' \/ ~ Live(r)'
<1>1. r # NoRun /\ WorkerOK
  BY NoRunAssumption DEF ChatInv
<1>2. ASSUME NEW t \in Sessions, NEW m \in Messages, Receive(t, m)
      PROVE  r \in overruled' \/ ~ Live(r)'
  <2>1. t = s /\ ~ Active(r)
    BY <1>2 DEF Receive, ChatInv, TypeOK
  <2>2. r \in overruled \/ ~ Live(r)
    BY <1>1, <2>1 DEF WorkerOK, Active, ActiveStates, Live
  <2> QED
    BY <1>2, <2>2 DEF Receive, runVars, Live
<1>3. CASE Start
  <2>1. turn # NoTurn /\ turn.session \in Sessions /\ turn.step = "start"
    BY <1>3, TurnTypes, NotIdle DEF Start, ChatInv
  <2>2. turn.session = s
    BY <1>3, <2>1 DEF Start, ChatInv, TypeOK
  <2>3. r \in overruled \/ ~ Live(r)
    BY <1>1, <2>1, <2>2 DEF ChatInv, StillBound
  <2>4. PICK q \in Runs : Move(q, "running") /\ working' = working \union {q} /\ binding'[s] = q
    BY <1>3, <2>2 DEF Start, MoveAndSpawn, ChatInv, TypeOK
  <2> QED
    BY <2>3, <2>4 DEF Move, ChatInv, TypeOK, Live
<1>4. CASE Restart
  BY <1>4 DEF Restart, OrphanStates, ChatInv, TypeOK, Live
<1>5. CASE UNCHANGED binding
  BY <1>5
<1>6. \/ UNCHANGED binding \/ Start \/ Restart
      \/ \E t \in Sessions : \E m \in Messages : Receive(t, m)
  BY DEF Next, vars, chatVars, Handle, CancelRun, RetryRun, Reply, Ask, Proceed, ReplaceRun,
         Decline, Choose, Name, Lapse, EndWorker, UserMoves, ReadStored, Discard, ClearExpired
<1> QED
  BY <1>2, <1>3, <1>4, <1>5, <1>6

\* For any number of sessions and runs, whatever the pages, workers, expiry and
\* the boot sweep do between the reads of a turn: no session turns from a run that
\* goes on, unless someone who had read an older status wrote over its request.
THEOREM LiveRunsAreKept == Spec => NeverDropsALiveRun
<1>1. ChatInv /\ [Next]_vars =>
        [\A s \in Sessions, r \in Runs :
           binding[s] = r /\ binding'[s] # r => r \in overruled' \/ ~ Live(r)']_vars
  BY BindingStep
<1> QED
  BY <1>1, ChatInvHolds, PTL DEF Spec, NeverDropsALiveRun

==============================================================================
