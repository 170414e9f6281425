----------------------------- MODULE SucdProofs -----------------------------
(***************************************************************************)
(* bcpsucd never ends by log.Fatal(), exits gracefully, answers ok only    *)
(* when the limits are in force, and implements QuotaService, for any      *)
(* number of clients, calls, files, kills and restarts.                    *)
(***************************************************************************)
EXTENDS Sucd, TLAPS

\* What main() relies on between its steps.
MainOK ==
    /\ main # "fatal"
    /\ main = "bind" => socket = "none"
    /\ main \in {"stop", "drain", "select"} => isShutdown = TRUE

\* After GracefulStop() no handler is left, and later requests are refused.
HandlersAreDone == main \in {"select", "exited"} => \A k \in Ids : ~ InHandler(calls[k])

\* How the answer of a call and the state of its handler fit together.
AnswersFit ==
    \A k \in Ids :
        /\ calls[k].state = "unmade" => calls[k].answer = "none"
        /\ calls[k].state \in {"orphan", "over"} => calls[k].answer # "none"
        /\ calls[k].answer \in {"ok", "error"} => calls[k].state = "over"
        /\ calls[k].answer = "ok" => calls[k].todo = {}

BeforeAreAnswered == \A k \in Ids : calls[k].before \subseteq Answered
SetIsInForce ==
    \A k \in Ids : ~ DryRun =>
        \A x \in calls[k].lines \ calls[k].todo : quota[x] \notin calls[k].before \cup {<<>>}

IInv ==
    TypeOK /\ MainOK /\ HandlersAreDone /\ AnswersFit /\ BeforeAreAnswered /\ SetIsInForce

LEMMA StopsAreBounded == MaxStops \in Nat
  BY SucdAssumption

LEMMA NoIdIsEmpty == \A k \in Ids : k # <<>> /\ k[1] \in Clients
  BY DEF Ids

LEMMA InitInv == Init => IInv
<1> SUFFICES ASSUME Init PROVE IInv
  OBVIOUS
<1>1. TypeOK
  <2>1. Unmade \in CallType
    BY DEF Unmade, CallType
  <2>2. 0 \in 0 .. MaxStops
    BY StopsAreBounded
  <2> QED BY <2>1, <2>2 DEF Init, TypeOK
<1>2. \A k \in Ids : calls[k] = Unmade
  BY DEF Init
<1>3. MainOK /\ HandlersAreDone
  BY DEF Init, MainOK, HandlersAreDone
<1>4. AnswersFit /\ BeforeAreAnswered /\ SetIsInForce
  BY <1>2 DEF Unmade, AnswersFit, BeforeAreAnswered, SetIsInForce
<1> QED BY <1>1, <1>3, <1>4 DEF IInv

\* Steps that do not set limits and make no calls: it is enough that answers stay answers.
LEMMA QuietStep ==
  ASSUME BeforeAreAnswered, SetIsInForce, quota' = quota,
         \A k \in Ids :
            /\ calls'[k].lines = calls[k].lines /\ calls'[k].todo = calls[k].todo
            /\ calls'[k].before = calls[k].before
            /\ k \in Answered => calls'[k].answer = calls[k].answer
  PROVE  BeforeAreAnswered' /\ SetIsInForce'
<1>1. Answered \subseteq Answered'
  BY DEF Answered
<1> QED BY <1>1 DEF BeforeAreAnswered, SetIsInForce

\* The steps of main() and of the clients that leave calls alone.
LEMMA MainStep ==
  ASSUME IInv,
         \/ RemoveSocket \/ Listen \/ Chmod \/ SigTerm \/ GracefulStop \/ GracefulStopReturns
         \/ ServeReturns \/ Exit \/ Restart \/ \E c \in Clients : Dial(c)
  PROVE  IInv'
<1> USE DEF IInv
<1>1. calls' = calls /\ quota' = quota
  BY DEF RemoveSocket, Listen, Chmod, SigTerm, GracefulStop, GracefulStopReturns, ServeReturns,
         Exit, Restart, Dial
<1>2. TypeOK'
  <2>1. phase' \in [Clients -> {"idle", "connected", "waiting"}]
    <3>1. CASE Exit
      BY <3>1 DEF Exit
    <3>2. CASE \E c \in Clients : Dial(c)
      <4> PICK c \in Clients : Dial(c)
        BY <3>2
      <4> QED BY DEF Dial, TypeOK
    <3>3. CASE phase' = phase
      BY <3>3 DEF TypeOK
    <3> QED BY <3>1, <3>2, <3>3
         DEF RemoveSocket, Listen, Chmod, SigTerm, GracefulStop, GracefulStopReturns,
             ServeReturns, Restart
  <2>2. stops' \in 0 .. MaxStops
    BY StopsAreBounded
       DEF TypeOK, RemoveSocket, Listen, Chmod, SigTerm, GracefulStop, GracefulStopReturns,
           ServeReturns, Exit, Restart, Dial
  <2>3. /\ main' \in {"start", "bind", "chmod", "signal", "stop", "drain", "select",
                      "exited", "fatal", "killed"}
        /\ isShutdown' \in BOOLEAN /\ serving' \in BOOLEAN
        /\ socket' \in {"none", "stale", "private", "live"}
    BY DEF TypeOK, RemoveSocket, Listen, Chmod, SigTerm, GracefulStop, GracefulStopReturns,
           ServeReturns, Exit, Restart, Dial, daemon
  <2> QED BY <1>1, <2>1, <2>2, <2>3 DEF TypeOK
<1>3. MainOK'
  BY DEF TypeOK, MainOK, RemoveSocket, Listen, Chmod, SigTerm, GracefulStop,
         GracefulStopReturns, ServeReturns, Exit, Restart, Dial, daemon
<1>4. HandlersAreDone'
  BY <1>1 DEF TypeOK, HandlersAreDone, Drained, RemoveSocket, Listen, Chmod, SigTerm,
         GracefulStop, GracefulStopReturns, ServeReturns, Exit, Restart, Dial, daemon
<1>5. AnswersFit' /\ BeforeAreAnswered' /\ SetIsInForce'
  BY <1>1 DEF AnswersFit, BeforeAreAnswered, SetIsInForce, Answered
<1> QED BY <1>2, <1>3, <1>4, <1>5

LEMMA KillStep ==
  ASSUME IInv, Kill
  PROVE  IInv'
<1> USE DEF IInv
<1>1. ASSUME NEW k \in Ids
      PROVE  /\ calls'[k] \in CallType
             /\ calls'[k].lines = calls[k].lines /\ calls'[k].todo = calls[k].todo
             /\ calls'[k].before = calls[k].before
             /\ ~ Made(k) => calls'[k] = calls[k]
             /\ Made(k) =>
                  /\ calls'[k].state = IF calls[k].state \in {"running", "orphan"}
                                       THEN "orphan" ELSE "over"
                  /\ calls'[k].answer = IF calls[k].answer = "none" THEN "unavailable"
                                        ELSE calls[k].answer
  <2>1. calls[k] \in CallType
    BY <1>1 DEF TypeOK
  <2>2. calls'[k] = IF Made(k) THEN Broken(calls[k]) ELSE calls[k]
    BY <1>1 DEF Kill
  <2>3. CASE Made(k)
    BY <2>1, <2>2, <2>3 DEF CallType, Broken
  <2> QED BY <2>1, <2>2, <2>3 DEF CallType
<1>2. calls' \in [Ids -> CallType]
  BY <1>1 DEF Kill
<1>3. TypeOK'
  <2>1. phase' \in [Clients -> {"idle", "connected", "waiting"}]
    BY DEF Kill
  <2>2. stops' \in 0 .. MaxStops
    BY StopsAreBounded DEF TypeOK, Kill
  <2>3. /\ main' = "killed" /\ serving' = FALSE /\ socket' \in {"none", "stale"}
        /\ isShutdown' = isShutdown /\ quota' = quota
    BY DEF Kill
  <2> QED BY <1>2, <2>1, <2>2, <2>3 DEF TypeOK
<1>4. MainOK' /\ HandlersAreDone'
  BY DEF Kill, MainOK, HandlersAreDone
<1>5. AnswersFit'
  <2> SUFFICES ASSUME NEW k \in Ids
               PROVE  /\ calls'[k].state = "unmade" => calls'[k].answer = "none"
                      /\ calls'[k].state \in {"orphan", "over"} => calls'[k].answer # "none"
                      /\ calls'[k].answer \in {"ok", "error"} => calls'[k].state = "over"
                      /\ calls'[k].answer = "ok" => calls'[k].todo = {}
    BY DEF AnswersFit
  <2>1. CASE Made(k)
    BY <1>1, <2>1 DEF AnswersFit
  <2>2. CASE ~ Made(k)
    BY <1>1, <2>2 DEF AnswersFit
  <2> QED BY <2>1, <2>2
<1>6. BeforeAreAnswered' /\ SetIsInForce'
  <2>1. \A k \in Ids : k \in Answered => calls'[k].answer = calls[k].answer
    BY <1>1 DEF Answered
  <2> QED BY <1>1, <2>1, QuietStep DEF Kill
<1> QED BY <1>3, <1>4, <1>5, <1>6

\* The steps that follow change calls, and leave main() alone.
LEMMA CallsOnly ==
  ASSUME TypeOK, MainOK, UNCHANGED <<daemon, stops>>,
         phase' \in [Clients -> {"idle", "connected", "waiting"}],
         calls' \in [Ids -> CallType], quota' \in [Xids -> Ids \cup {<<>>}]
  PROVE  TypeOK' /\ MainOK'
<1>1. main' = main /\ isShutdown' = isShutdown /\ serving' = serving /\ socket' = socket
  BY DEF daemon
<1>2. TypeOK'
  BY <1>1 DEF TypeOK
<1>3. MainOK'
  BY <1>1 DEF MainOK
<1> QED BY <1>2, <1>3

LEMMA RequestStep ==
  ASSUME IInv, NEW k \in Ids, NEW req \in Requests, NEW file \in Files,
         SetQuotaRequest(k, req, file)
  PROVE  IInv'
<1> USE DEF IInv
<1> DEFINE accepted == main \in {"signal", "stop"}
           made == [req |-> req, lines |-> LimitsOf(file), todo |-> LimitsOf(file),
                    before |-> Answered, state |-> IF accepted THEN "received" ELSE "over",
                    answer |-> IF accepted THEN "none" ELSE "unavailable"]
<1>1. calls' = [calls EXCEPT ![k] = made]
  BY DEF SetQuotaRequest
<1>2. made \in CallType
  BY DEF CallType, LimitsOf, Scanned, Answered
<1>3. calls[k].state = "unmade"
  BY DEF SetQuotaRequest, IsNext, Made
<1>4. k \notin Answered
  BY <1>3 DEF AnswersFit, Answered
<1>5. calls' \in [Ids -> CallType] /\ calls'[k] = made
      /\ \A j \in Ids : j # k => calls'[j] = calls[j]
  BY <1>1, <1>2 DEF TypeOK
<1>6. phase' \in [Clients -> {"idle", "connected", "waiting"}]
  BY NoIdIsEmpty DEF SetQuotaRequest, TypeOK
<1>7. TypeOK' /\ MainOK'
  BY <1>5, <1>6, CallsOnly DEF TypeOK, SetQuotaRequest
<1>8. main' = main /\ quota' = quota
  BY DEF SetQuotaRequest, daemon
<1>9. HandlersAreDone'
  BY <1>5, <1>8 DEF HandlersAreDone, InHandler
<1>10. AnswersFit'
  BY <1>5 DEF AnswersFit
<1>11. Answered' = Answered
  BY <1>4, <1>5 DEF Answered
<1>12. BeforeAreAnswered'
  BY <1>5, <1>11 DEF BeforeAreAnswered
<1>13. SetIsInForce'
  BY <1>5, <1>8 DEF SetIsInForce
<1> QED BY <1>7, <1>9, <1>10, <1>12, <1>13

LEMMA SetLimitsStep ==
  ASSUME IInv, NEW k \in Ids, NEW x \in Xids, SetLimits(k, x)
  PROVE  IInv'
<1> USE DEF IInv
<1>1. /\ calls' \in [Ids -> CallType]
      /\ calls'[k] = [calls[k] EXCEPT !.todo = @ \ {x}]
      /\ \A j \in Ids : j # k => calls'[j] = calls[j]
  BY DEF SetLimits, TypeOK, CallType
<1>2. \A j \in Ids : /\ calls'[j].lines = calls[j].lines /\ calls'[j].before = calls[j].before
                     /\ calls'[j].state = calls[j].state /\ calls'[j].answer = calls[j].answer
                     /\ calls'[j].todo = IF j = k THEN calls[j].todo \ {x} ELSE calls[j].todo
  <2> TAKE j \in Ids
  <2>1. calls[j] \in CallType
    BY DEF TypeOK
  <2>2. CASE j = k
    BY <1>1, <2>1, <2>2 DEF CallType
  <2>3. CASE j # k
    BY <1>1, <2>3
  <2> QED BY <2>2, <2>3
<1>3. UNCHANGED <<daemon, stops, phase>>
  BY DEF SetLimits, Unchanged
<1>4. TypeOK' /\ MainOK'
  BY <1>1, <1>3, CallsOnly DEF TypeOK, SetLimits
<1>5. HandlersAreDone'
  BY <1>2, <1>3 DEF HandlersAreDone, InHandler, daemon
<1>6. AnswersFit'
  BY <1>2 DEF AnswersFit
<1>7. Answered' = Answered
  BY <1>2 DEF Answered
<1>8. BeforeAreAnswered'
  BY <1>2, <1>7 DEF BeforeAreAnswered
<1>9. \A j \in Ids : k \notin calls[j].before
  BY DEF SetLimits, AnswersFit, Answered, BeforeAreAnswered
<1>10. SetIsInForce'
  <2> SUFFICES ASSUME NEW j \in Ids, ~ DryRun, NEW y \in calls'[j].lines \ calls'[j].todo
               PROVE  quota'[y] \notin calls'[j].before \cup {<<>>}
    BY DEF SetIsInForce
  <2>1. y \in Xids
    BY <1>2 DEF TypeOK, CallType
  <2>2. quota' = [quota EXCEPT ![x] = k]
    BY DEF SetLimits
  <2>3. CASE y = x
    BY <1>2, <1>9, <2>1, <2>2, <2>3, NoIdIsEmpty DEF TypeOK
  <2>4. CASE y # x
    BY <1>2, <2>1, <2>2, <2>4 DEF TypeOK, SetIsInForce
  <2> QED BY <2>3, <2>4
<1> QED BY <1>4, <1>5, <1>6, <1>8, <1>10

\* What is left: a step changes the state or the answer of one call.
LEMMA OneCall ==
  ASSUME IInv, NEW k \in Ids, NEW call \in CallType, calls' = [calls EXCEPT ![k] = call],
         UNCHANGED <<daemon, stops>>, quota' = quota,
         phase' \in [Clients -> {"idle", "connected", "waiting"}],
         call.lines = calls[k].lines, call.todo = calls[k].todo, call.before = calls[k].before,
         k \in Answered => call.answer = calls[k].answer,
         InHandler(call) => InHandler(calls[k]), call.state # "unmade",
         call.state \in {"orphan", "over"} => call.answer # "none",
         call.answer \in {"ok", "error"} => call.state = "over",
         call.answer = "ok" => call.todo = {}
  PROVE  IInv'
<1> USE DEF IInv
<1>1. calls' \in [Ids -> CallType] /\ calls'[k] = call
      /\ \A j \in Ids : j # k => calls'[j] = calls[j]
  BY DEF TypeOK
<1>2. TypeOK' /\ MainOK'
  BY <1>1, CallsOnly DEF TypeOK
<1>3. HandlersAreDone'
  <2>1. main' = main
    BY DEF daemon
  <2>2. \A j \in Ids : InHandler(calls'[j]) => InHandler(calls[j])
    BY <1>1
  <2> QED BY <2>1, <2>2 DEF HandlersAreDone
<1>4. AnswersFit'
  BY <1>1 DEF AnswersFit
<1>5. BeforeAreAnswered' /\ SetIsInForce'
  BY <1>1, QuietStep
<1> QED BY <1>2, <1>3, <1>4, <1>5

LEMMA DeadlineStep ==
  ASSUME IInv, NEW k \in Ids, Deadline(k)
  PROVE  IInv'
<1> DEFINE call == [calls[k] EXCEPT !.answer = "deadline"]
<1>1. calls[k] \in CallType /\ call \in CallType
  BY DEF IInv, TypeOK, CallType
<1>2. calls' = [calls EXCEPT ![k] = call] /\ UNCHANGED <<daemon, stops>> /\ quota' = quota
  BY DEF Deadline
<1>3. phase' \in [Clients -> {"idle", "connected", "waiting"}]
  BY NoIdIsEmpty DEF Deadline, IInv, TypeOK
<1>4. /\ call.lines = calls[k].lines /\ call.todo = calls[k].todo
      /\ call.before = calls[k].before /\ call.state = calls[k].state
      /\ call.answer = "deadline"
  BY <1>1 DEF CallType
<1>5. k \notin Answered /\ call.state # "unmade"
  BY <1>4 DEF Deadline, Made, Answered
<1> HIDE DEF call
<1> QED BY <1>1, <1>2, <1>3, <1>4, <1>5, OneCall DEF InHandler

LEMMA SetQuotaStep ==
  ASSUME IInv, NEW k \in Ids, SetQuota(k)
  PROVE  IInv'
<1> DEFINE state == IF Refused(k[1], calls[k].req) THEN "refused" ELSE "running"
           call == [calls[k] EXCEPT !.state = state]
<1>1. state \in {"refused", "running"}
  OBVIOUS
<1> HIDE DEF state
<1>2. calls[k] \in CallType /\ call \in CallType
  BY <1>1 DEF IInv, TypeOK, CallType
<1>3. calls' = [calls EXCEPT ![k] = call] /\ UNCHANGED <<daemon, stops>> /\ quota' = quota
  BY DEF SetQuota, Unchanged, state
<1>4. phase' \in [Clients -> {"idle", "connected", "waiting"}]
  BY DEF SetQuota, Unchanged, IInv, TypeOK
<1>5. /\ call.lines = calls[k].lines /\ call.todo = calls[k].todo
      /\ call.before = calls[k].before /\ call.state = state
      /\ call.answer = calls[k].answer
  BY <1>2 DEF CallType
<1>6. calls[k].state = "received" /\ calls[k].answer \notin {"ok", "error"}
  BY DEF SetQuota, IInv, AnswersFit
<1> HIDE DEF call
<1> QED BY <1>1, <1>2, <1>3, <1>4, <1>5, <1>6, OneCall DEF InHandler

LEMMA CommandExitsStep ==
  ASSUME IInv, NEW k \in Ids, CommandExits(k)
  PROVE  IInv'
<1> DEFINE state == IF calls[k].state = "running" THEN "finished" ELSE "over"
           call == [calls[k] EXCEPT !.state = state]
<1>1. calls[k] \in CallType /\ call \in CallType
  BY DEF IInv, TypeOK, CallType
<1>2. calls' = [calls EXCEPT ![k] = call] /\ UNCHANGED <<daemon, stops>> /\ quota' = quota
  BY DEF CommandExits, Unchanged, IInv, TypeOK
<1>3. phase' \in [Clients -> {"idle", "connected", "waiting"}]
  BY DEF CommandExits, Unchanged, IInv, TypeOK
<1>4. /\ call.lines = calls[k].lines /\ call.todo = calls[k].todo
      /\ call.before = calls[k].before /\ call.state = state
      /\ call.answer = calls[k].answer
  BY <1>1 DEF CallType
<1>5. calls[k].state \in {"running", "orphan"}
  BY DEF CommandExits
<1>6. /\ calls[k].answer \notin {"ok", "error"}
      /\ calls[k].state = "orphan" => calls[k].answer # "none"
  BY <1>5 DEF IInv, AnswersFit
<1> HIDE DEF call
<1> QED BY <1>1, <1>2, <1>3, <1>4, <1>5, <1>6, OneCall DEF InHandler

LEMMA AnswerStep ==
  ASSUME IInv, NEW k \in Ids, Answer(k)
  PROVE  IInv'
<1> DEFINE answer == IF calls[k].answer = "none" THEN AnswerTo(calls[k]) ELSE calls[k].answer
           call == [calls[k] EXCEPT !.state = "over", !.answer = answer]
<1>1. calls[k].state \in {"refused", "finished"} /\ calls[k] \in CallType
  BY DEF Answer, IInv, TypeOK
<1>2. /\ answer \in {"ok", "error", "deadline", "unavailable"}
      /\ answer = "ok" => calls[k].todo = {}
      /\ calls[k].answer \notin {"ok", "error"}
  BY <1>1 DEF IInv, AnswersFit, AnswerTo, CallType
<1> HIDE DEF answer
<1>3. call \in CallType
  BY <1>1, <1>2 DEF CallType
<1>4. calls' = [calls EXCEPT ![k] = call] /\ UNCHANGED <<daemon, stops>> /\ quota' = quota
  <2>1. call = [calls[k] EXCEPT !.state = "over",
                                !.answer = IF @ = "none" THEN AnswerTo(calls[k]) ELSE @]
    BY <1>1 DEF CallType, answer
  <2> HIDE DEF call
  <2> QED BY <2>1 DEF Answer
<1>5. phase' \in [Clients -> {"idle", "connected", "waiting"}]
  BY NoIdIsEmpty DEF Answer, IInv, TypeOK
<1>6. /\ call.lines = calls[k].lines /\ call.todo = calls[k].todo
      /\ call.before = calls[k].before /\ call.state = "over" /\ call.answer = answer
  BY <1>1 DEF CallType
<1>7. k \notin Answered
  BY <1>2 DEF Answered
<1> HIDE DEF call
<1> QED BY <1>2, <1>3, <1>4, <1>5, <1>6, <1>7, OneCall DEF InHandler

LEMMA NextStep == IInv /\ [Next]_vars => IInv'
<1> SUFFICES ASSUME IInv, [Next]_vars PROVE IInv'
  OBVIOUS
<1>1. CASE Daemon
  BY <1>1, MainStep DEF Daemon
<1>2. CASE Handler
  BY <1>2, SetQuotaStep, AnswerStep DEF Handler
<1>3. CASE Command
  BY <1>3, SetLimitsStep, CommandExitsStep DEF Command
<1>4. CASE Client
  <2>1. CASE \E c \in Clients : Dial(c)
    BY <2>1, MainStep
  <2>2. CASE \E k \in Ids, req \in Requests, file \in Files : SetQuotaRequest(k, req, file)
    BY <2>2, RequestStep
  <2>3. CASE \E k \in Ids : Deadline(k)
    BY <2>3, DeadlineStep
  <2> QED BY <1>4, <2>1, <2>2, <2>3 DEF Client
<1>5. CASE SigTerm
  BY <1>5, MainStep
<1>6. CASE Kill
  BY <1>6, KillStep
<1>7. CASE Restart
  BY <1>7, MainStep
<1>8. CASE UNCHANGED vars
  <2>1. UNCHANGED <<daemon, stops>> /\ phase' = phase /\ calls' = calls /\ quota' = quota
    BY <1>8 DEF vars, daemon
  <2>2. TypeOK' /\ MainOK'
    BY <2>1, CallsOnly DEF IInv, TypeOK
  <2>3. HandlersAreDone' /\ AnswersFit'
    BY <2>1 DEF IInv, HandlersAreDone, AnswersFit, daemon
  <2>4. BeforeAreAnswered' /\ SetIsInForce'
    BY <2>1, QuietStep DEF IInv
  <2> QED BY <2>2, <2>3, <2>4 DEF IInv
<1> QED BY <1>1, <1>2, <1>3, <1>4, <1>5, <1>6, <1>7, <1>8 DEF Next

LEMMA SpecInv == Spec => []IInv
  BY InitInv, NextStep, PTL DEF Spec

\* The states of main(), of the socket, the clients, the calls and the limits.
THEOREM TypeCorrect == Spec => []TypeOK
  BY SpecInv, PTL DEF IInv

\* bcpsucd.go sets isShutdown before GracefulStop(), and NewServer() removes the socket
\* before it listens.
THEOREM NeverFatalCorrect == Spec => []NeverFatal
<1>1. IInv => NeverFatal
  BY DEF IInv, MainOK, NeverFatal
<1> QED BY <1>1, SpecInv, PTL

\* GracefulStop() has waited for the handlers, and a handler ends with an answer.
THEOREM ExitIsGracefulCorrect == Spec => []ExitIsGraceful
<1>1. IInv => ExitIsGraceful
  <2> SUFFICES ASSUME IInv, main = "exited", NEW k \in Ids, Made(k)
               PROVE  calls[k].answer # "none" /\ calls[k].state \in {"orphan", "over"}
    BY DEF ExitIsGraceful
  <2>1. calls[k].state \in {"orphan", "over"}
    BY DEF IInv, TypeOK, CallType, HandlersAreDone, InHandler, Made
  <2> QED BY <2>1 DEF IInv, AnswersFit
<1> QED BY <1>1, SpecInv, PTL

\* quotad.SetQuota(): calls that have been answered set nothing any more, so that what a
\* call that is ok has set is its own or of a call that was made meanwhile.
THEOREM OkIsInForceCorrect == Spec => []OkIsInForce
<1>1. IInv => OkIsInForce
  BY DEF IInv, AnswersFit, SetIsInForce, OkIsInForce
<1> QED BY <1>1, SpecInv, PTL

-----------------------------------------------------------------------------
\* The refinement.

StateOf(call) == IF call.state \in {"received", "running", "orphan"} THEN "open" ELSE "closed"
AnswerOf(call) == IF call.state = "unmade" THEN "unmade"
                  ELSE IF call.answer \in {"deadline", "unavailable"} THEN "lost"
                  ELSE call.answer

LEMMA PromisedFields ==
  ASSUME NEW call
  PROVE  Promised(call) = [lines |-> call.lines, todo |-> call.todo, before |-> call.before,
                           state |-> StateOf(call), answer |-> AnswerOf(call)]
  BY DEF Promised, StateOf, AnswerOf

LEMMA GiveUpMaps ==
  ASSUME NEW lost \in SUBSET Ids, NEW closed \in SUBSET Ids,
         \A k \in lost : AnswerOf(calls[k]) = "none",
         \A k \in closed : StateOf(calls[k]) = "open",
         \A k \in Ids :
            /\ calls'[k].lines = calls[k].lines /\ calls'[k].todo = calls[k].todo
            /\ calls'[k].before = calls[k].before
            /\ AnswerOf(calls'[k]) = IF k \in lost THEN "lost" ELSE AnswerOf(calls[k])
            /\ StateOf(calls'[k]) = IF k \in closed THEN "closed" ELSE StateOf(calls[k]),
         quota' = quota
  PROVE  Service!GiveUp(lost, closed)
<1> DEFINE abs == [j \in Ids |-> Promised(calls[j])]
<1>1. \A k \in lost : abs[k].answer = "none"
  BY PromisedFields
<1>2. \A k \in closed : abs[k].state = "open"
  BY PromisedFields
<1>3. ASSUME NEW k \in Ids
      PROVE  Promised(calls'[k]) = IF k \in closed THEN Service!Closed(Service!Lost(k, lost))
                                   ELSE Service!Lost(k, lost)
  <2>1. abs[k] = [lines |-> calls[k].lines, todo |-> calls[k].todo, before |-> calls[k].before,
                  state |-> StateOf(calls[k]), answer |-> AnswerOf(calls[k])]
    BY PromisedFields
  <2>2. Promised(calls'[k]) =
          [lines |-> calls[k].lines, todo |-> calls[k].todo, before |-> calls[k].before,
           state |-> IF k \in closed THEN "closed" ELSE StateOf(calls[k]),
           answer |-> IF k \in lost THEN "lost" ELSE AnswerOf(calls[k])]
    BY PromisedFields
  <2>3. Service!Lost(k, lost) =
          [lines |-> calls[k].lines, todo |-> calls[k].todo, before |-> calls[k].before,
           state |-> StateOf(calls[k]),
           answer |-> IF k \in lost THEN "lost" ELSE AnswerOf(calls[k])]
    BY <2>1 DEF Service!Lost
  <2> HIDE DEF abs
  <2>4. CASE k \in closed
    BY <2>2, <2>3, <2>4 DEF Service!Closed
  <2> QED BY <2>2, <2>3, <2>4
<1>4. abs' = [k \in Ids |-> IF k \in closed THEN Service!Closed(Service!Lost(k, lost))
                           ELSE Service!Lost(k, lost)]
  BY <1>3
<1> QED BY <1>1, <1>2, <1>4 DEF Service!GiveUp

\* The steps that change one call without its limits give it up, end it, or change nothing
\* that users see.
LEMMA OneGivenUp ==
  ASSUME TypeOK, NEW k \in Ids, NEW call \in CallType, calls' = [calls EXCEPT ![k] = call],
         quota' = quota,
         call.lines = calls[k].lines, call.todo = calls[k].todo, call.before = calls[k].before,
         \/ AnswerOf(call) = AnswerOf(calls[k])
         \/ AnswerOf(call) = "lost" /\ AnswerOf(calls[k]) = "none",
         \/ StateOf(call) = StateOf(calls[k])
         \/ StateOf(call) = "closed" /\ StateOf(calls[k]) = "open"
  PROVE  \E lost, closed \in SUBSET Ids : Service!GiveUp(lost, closed)
<1> DEFINE lost == IF AnswerOf(call) = AnswerOf(calls[k]) THEN {} ELSE {k}
           closed == IF StateOf(call) = StateOf(calls[k]) THEN {} ELSE {k}
<1>1. calls'[k] = call /\ \A j \in Ids : j # k => calls'[j] = calls[j]
  BY DEF TypeOK
<1>2. ASSUME NEW j \in Ids
      PROVE  /\ calls'[j].lines = calls[j].lines /\ calls'[j].todo = calls[j].todo
             /\ calls'[j].before = calls[j].before
             /\ AnswerOf(calls'[j]) = IF j \in lost THEN "lost" ELSE AnswerOf(calls[j])
             /\ StateOf(calls'[j]) = IF j \in closed THEN "closed" ELSE StateOf(calls[j])
  <2>1. CASE j = k
    BY <1>1, <2>1
  <2>2. CASE j # k
    BY <1>1, <2>2
  <2> QED BY <2>1, <2>2
<1>3. lost \in SUBSET Ids /\ closed \in SUBSET Ids
  OBVIOUS
<1>4. \A j \in lost : AnswerOf(calls[j]) = "none"
  OBVIOUS
<1>5. \A j \in closed : StateOf(calls[j]) = "open"
  OBVIOUS
<1> HIDE DEF lost, closed
<1>6. Service!GiveUp(lost, closed)
  BY <1>2, <1>3, <1>4, <1>5, GiveUpMaps
<1> QED BY <1>3, <1>6

LEMMA DeadlineMaps ==
  ASSUME IInv, NEW k \in Ids, Deadline(k)
  PROVE  Service!Next
<1> DEFINE call == [calls[k] EXCEPT !.answer = "deadline"]
<1>1. calls[k] \in CallType /\ call \in CallType
  BY DEF IInv, TypeOK, CallType
<1>2. /\ call.lines = calls[k].lines /\ call.todo = calls[k].todo
      /\ call.before = calls[k].before /\ call.state = calls[k].state
      /\ call.answer = "deadline"
  BY <1>1 DEF CallType
<1>3. calls' = [calls EXCEPT ![k] = call] /\ quota' = quota /\ calls[k].answer = "none"
      /\ calls[k].state # "unmade"
  BY DEF Deadline, Made
<1> HIDE DEF call
<1>4. \E lost, closed \in SUBSET Ids : Service!GiveUp(lost, closed)
  BY <1>1, <1>2, <1>3, OneGivenUp DEF AnswerOf, StateOf, IInv
<1> QED BY <1>4 DEF Service!Next

LEMMA SetQuotaMaps ==
  ASSUME IInv, NEW k \in Ids, SetQuota(k)
  PROVE  Service!Next
<1> DEFINE state == IF Refused(k[1], calls[k].req) THEN "refused" ELSE "running"
           call == [calls[k] EXCEPT !.state = state]
<1>1. state \in {"refused", "running"} /\ calls' = [calls EXCEPT ![k] = call]
      /\ quota' = quota /\ calls[k].state = "received"
  BY DEF SetQuota
<1> HIDE DEF state
<1>2. calls[k] \in CallType /\ call \in CallType
  BY <1>1 DEF IInv, TypeOK, CallType
<1>3. /\ call.lines = calls[k].lines /\ call.todo = calls[k].todo
      /\ call.before = calls[k].before /\ call.state = state
      /\ call.answer = calls[k].answer
  BY <1>2 DEF CallType
<1> HIDE DEF call
<1>4. \E lost, closed \in SUBSET Ids : Service!GiveUp(lost, closed)
  BY <1>1, <1>2, <1>3, OneGivenUp DEF AnswerOf, StateOf, IInv
<1> QED BY <1>4 DEF Service!Next

LEMMA CommandExitsMaps ==
  ASSUME IInv, NEW k \in Ids, CommandExits(k)
  PROVE  Service!Next
<1> DEFINE state == IF calls[k].state = "running" THEN "finished" ELSE "over"
           call == [calls[k] EXCEPT !.state = state]
<1>1. calls[k] \in CallType /\ call \in CallType
  BY DEF IInv, TypeOK, CallType
<1>2. calls' = [calls EXCEPT ![k] = call] /\ quota' = quota
      /\ calls[k].state \in {"running", "orphan"} /\ state \in {"finished", "over"}
  BY DEF CommandExits, IInv, TypeOK
<1>3. /\ call.lines = calls[k].lines /\ call.todo = calls[k].todo
      /\ call.before = calls[k].before /\ call.state = state
      /\ call.answer = calls[k].answer
  BY <1>1 DEF CallType
<1> HIDE DEF call, state
<1>4. \E lost, closed \in SUBSET Ids : Service!GiveUp(lost, closed)
  BY <1>1, <1>2, <1>3, OneGivenUp DEF AnswerOf, StateOf, IInv
<1> QED BY <1>4 DEF Service!Next

LEMMA KillMaps ==
  ASSUME IInv, Kill
  PROVE  Service!Next
<1> DEFINE lost == {k \in Ids : AnswerOf(calls[k]) = "none"}
           closed == {k \in Ids : calls[k].state = "received"}
<1>1. ASSUME NEW k \in Ids
      PROVE  /\ calls'[k].lines = calls[k].lines /\ calls'[k].todo = calls[k].todo
             /\ calls'[k].before = calls[k].before
             /\ AnswerOf(calls'[k]) = IF k \in lost THEN "lost" ELSE AnswerOf(calls[k])
             /\ StateOf(calls'[k]) = IF k \in closed THEN "closed" ELSE StateOf(calls[k])
  <2>1. calls[k] \in CallType
    BY <1>1 DEF IInv, TypeOK
  <2>2. calls'[k] = IF Made(k) THEN Broken(calls[k]) ELSE calls[k]
    BY <1>1 DEF Kill
  <2>3. CASE Made(k)
    <3>1. /\ calls'[k].lines = calls[k].lines /\ calls'[k].todo = calls[k].todo
          /\ calls'[k].before = calls[k].before
          /\ calls'[k].state = IF calls[k].state \in {"running", "orphan"}
                               THEN "orphan" ELSE "over"
          /\ calls'[k].answer = IF calls[k].answer = "none" THEN "unavailable"
                                ELSE calls[k].answer
      BY <2>1, <2>2, <2>3 DEF CallType, Broken
    <3>2. AnswerOf(calls'[k]) = IF AnswerOf(calls[k]) = "none" THEN "lost"
                                ELSE AnswerOf(calls[k])
      BY <2>3, <3>1 DEF Made, AnswerOf
    <3>3. StateOf(calls'[k]) = IF calls[k].state = "received" THEN "closed"
                               ELSE StateOf(calls[k])
      BY <2>3, <3>1 DEF Made, StateOf
    <3> QED BY <3>1, <3>2, <3>3
  <2>4. CASE ~ Made(k)
    BY <2>2, <2>4 DEF Made, AnswerOf, StateOf
  <2> QED BY <2>3, <2>4
<1>2. \A k \in closed : StateOf(calls[k]) = "open"
  BY DEF StateOf
<1>3. quota' = quota
  BY DEF Kill
<1>4. Service!GiveUp(lost, closed)
  BY <1>1, <1>2, <1>3, GiveUpMaps
<1> QED BY <1>4 DEF Service!Next

\* A client that waits gets the answer; otherwise the handler ends unseen.
LEMMA AnswerMaps ==
  ASSUME IInv, NEW k \in Ids, Answer(k)
  PROVE  Service!Next
<1> DEFINE answer == IF calls[k].answer = "none" THEN AnswerTo(calls[k]) ELSE calls[k].answer
           call == [calls[k] EXCEPT !.state = "over", !.answer = answer]
           abs == [j \in Ids |-> Promised(calls[j])]
<1>1. calls[k].state \in {"refused", "finished"} /\ calls[k] \in CallType
  BY DEF Answer, IInv, TypeOK
<1>2. /\ answer \in {"ok", "error", "deadline", "unavailable"}
      /\ calls[k].answer = "none" => answer \in {"ok", "error"}
      /\ calls[k].answer # "none" => answer = calls[k].answer
      /\ answer = "ok" => calls[k].todo = {}
  BY <1>1 DEF IInv, AnswersFit, AnswerTo, CallType
<1>3. calls' = [calls EXCEPT ![k] = call] /\ quota' = quota
  <2>1. call = [calls[k] EXCEPT !.state = "over",
                                !.answer = IF @ = "none" THEN AnswerTo(calls[k]) ELSE @]
    BY <1>1 DEF CallType
  <2> HIDE DEF call
  <2> QED BY <2>1 DEF Answer
<1> HIDE DEF answer
<1>4. /\ call \in CallType
      /\ call.lines = calls[k].lines /\ call.todo = calls[k].todo
      /\ call.before = calls[k].before /\ call.state = "over" /\ call.answer = answer
  BY <1>1, <1>2 DEF CallType
<1> HIDE DEF call
<1>5. CASE calls[k].answer = "none"
  <2>1. abs[k] = [lines |-> calls[k].lines, todo |-> calls[k].todo, before |-> calls[k].before,
                  state |-> "closed", answer |-> "none"]
    BY <1>1, <1>5 DEF Promised
  <2>2. Promised(call) = [lines |-> calls[k].lines, todo |-> calls[k].todo,
                          before |-> calls[k].before, state |-> "closed", answer |-> answer]
    BY <1>2, <1>4, <1>5 DEF Promised
  <2>3. Promised(call) = [abs[k] EXCEPT !.answer = answer]
    <3> HIDE DEF abs
    <3> QED BY <2>1, <2>2
  <2>4. abs' = [abs EXCEPT ![k].answer = answer]
    <3>1. calls'[k] = call /\ \A j \in Ids : j # k => calls'[j] = calls[j]
      BY <1>3 DEF IInv, TypeOK
    <3>2. \A j \in Ids : abs'[j] = IF j = k THEN [abs[k] EXCEPT !.answer = answer] ELSE abs[j]
      BY <2>3, <3>1
    <3> QED BY <3>2
  <2>5. abs[k].answer = "none" /\ abs[k].state = "closed" /\ abs[k].todo = calls[k].todo
    BY <2>1
  <2>6. Service!Reply(k, answer)
    BY <1>2, <1>3, <2>4, <2>5 DEF Service!Reply
  <2> QED BY <1>2, <1>5, <2>6 DEF Service!Next
<1>6. CASE calls[k].answer # "none"
  <2>1. \E lost, closed \in SUBSET Ids : Service!GiveUp(lost, closed)
    BY <1>1, <1>2, <1>3, <1>4, <1>6, OneGivenUp DEF AnswerOf, StateOf, IInv
  <2> QED BY <2>1 DEF Service!Next
<1> QED BY <1>5, <1>6

LEMMA SetLimitsMaps ==
  ASSUME IInv, NEW k \in Ids, NEW x \in Xids, SetLimits(k, x)
  PROVE  Service!Next
<1> DEFINE call == [calls[k] EXCEPT !.todo = @ \ {x}]
           abs == [j \in Ids |-> Promised(calls[j])]
<1>1. /\ calls[k].state \in {"running", "orphan"} /\ x \in calls[k].todo
      /\ calls' = [calls EXCEPT ![k] = call]
      /\ quota' = IF DryRun THEN quota ELSE [quota EXCEPT ![x] = k]
  BY DEF SetLimits
<1>2. /\ call.lines = calls[k].lines /\ call.todo = calls[k].todo \ {x}
      /\ call.before = calls[k].before /\ call.state = calls[k].state
      /\ call.answer = calls[k].answer
  BY DEF IInv, TypeOK, CallType
<1> HIDE DEF call
<1>3. abs[k] = [lines |-> calls[k].lines, todo |-> calls[k].todo, before |-> calls[k].before,
                state |-> "open", answer |-> AnswerOf(calls[k])]
  BY <1>1, PromisedFields DEF StateOf
<1>4. Promised(call) = [lines |-> calls[k].lines, todo |-> calls[k].todo \ {x},
                        before |-> calls[k].before, state |-> "open",
                        answer |-> AnswerOf(calls[k])]
  BY <1>1, <1>2, PromisedFields DEF StateOf, AnswerOf
<1>5. Promised(call) = [abs[k] EXCEPT !.todo = @ \ {x}]
  <2> DEFINE todo == calls[k].todo \ {x}
  <2>1. todo = abs[k].todo \ {x}
    BY <1>3
  <2>2. Promised(call) = [abs[k] EXCEPT !.todo = todo]
    <3> HIDE DEF abs
    <3>1. Promised(call) = [lines |-> calls[k].lines, todo |-> todo, before |-> calls[k].before,
                            state |-> "open", answer |-> AnswerOf(calls[k])]
      BY <1>4
    <3> HIDE DEF todo
    <3> QED BY <1>3, <3>1
  <2> HIDE DEF abs, todo
  <2> QED BY <2>1, <2>2
<1>6. abs' = [abs EXCEPT ![k].todo = @ \ {x}]
  <2>1. calls'[k] = call /\ \A j \in Ids : j # k => calls'[j] = calls[j]
    BY <1>1 DEF IInv, TypeOK
  <2>2. \A j \in Ids : abs'[j] = IF j = k THEN [abs[k] EXCEPT !.todo = @ \ {x}] ELSE abs[j]
    BY <1>5, <2>1
  <2> QED BY <2>2
<1>7. abs[k].state = "open" /\ x \in abs[k].todo
  BY <1>1, <1>3
<1>8. Service!SetOne(k, x)
  BY <1>1, <1>6, <1>7 DEF Service!SetOne
<1> QED BY <1>8 DEF Service!Next

LEMMA RequestMaps ==
  ASSUME IInv, NEW k \in Ids, NEW req \in Requests, NEW file \in Files,
         SetQuotaRequest(k, req, file)
  PROVE  Service!Next
<1> DEFINE accepted == main \in {"signal", "stop"}
           lines == LimitsOf(file)
           state == IF accepted THEN "open" ELSE "closed"
           made == [req |-> req, lines |-> lines, todo |-> lines, before |-> Answered,
                    state |-> IF accepted THEN "received" ELSE "over",
                    answer |-> IF accepted THEN "none" ELSE "unavailable"]
           abs == [j \in Ids |-> Promised(calls[j])]
<1>1. calls' = [calls EXCEPT ![k] = made] /\ quota' = quota
  BY DEF SetQuotaRequest
<1>2. calls[k].state = "unmade"
  BY DEF SetQuotaRequest, IsNext, Made
<1>3. Service!Answered = Answered
  <2>0. Service!Answered = {j \in Ids : abs[j].answer \in {"ok", "error"}}
    BY DEF Service!Answered
  <2>1. ASSUME NEW j \in Ids
        PROVE  abs[j].answer \in {"ok", "error"} <=> calls[j].answer \in {"ok", "error"}
    <3>1. abs[j].answer = AnswerOf(calls[j])
      BY PromisedFields
    <3>2. calls[j].state = "unmade" => calls[j].answer = "none"
      BY DEF IInv, AnswersFit
    <3> HIDE DEF abs
    <3> QED BY <3>1, <3>2 DEF AnswerOf
  <2> HIDE DEF abs
  <2> QED BY <2>0, <2>1 DEF Answered
<1>4. Promised(made) =
        [lines |-> lines, todo |-> lines, before |-> Service!Answered, state |-> state,
         answer |-> IF state = "open" THEN "none" ELSE "lost"]
  <2> HIDE DEF lines
  <2>1. CASE accepted
    BY <1>3, <2>1 DEF Promised
  <2>2. CASE ~ accepted
    BY <1>3, <2>2 DEF Promised
  <2> QED BY <2>1, <2>2
<1> HIDE DEF made
<1>5. abs' = [abs EXCEPT ![k] = Promised(made)]
  <2>1. calls'[k] = made /\ \A j \in Ids : j # k => calls'[j] = calls[j]
    BY <1>1 DEF IInv, TypeOK
  <2>2. \A j \in Ids : abs'[j] = IF j = k THEN Promised(made) ELSE abs[j]
    BY <2>1
  <2> QED BY <2>2
<1>6. abs[k].answer = "unmade"
  BY <1>2 DEF Promised
<1>7. Service!Ask(k, lines, state)
  BY <1>1, <1>4, <1>5, <1>6 DEF Service!Ask
<1>8. lines \in SUBSET Xids /\ state \in {"open", "closed"}
  BY DEF LimitsOf, Scanned
<1> HIDE DEF lines, state
<1> QED BY <1>7, <1>8 DEF Service!Next

LEMMA StepMaps == IInv /\ [Next]_vars => [Service!Next]_(Service!vars)
<1> SUFFICES ASSUME IInv, [Next]_vars PROVE [Service!Next]_(Service!vars)
  OBVIOUS
<1>1. CASE Handler
  BY <1>1, SetQuotaMaps, AnswerMaps DEF Handler
<1>2. CASE Command
  BY <1>2, SetLimitsMaps, CommandExitsMaps DEF Command
<1>3. CASE Client /\ ~ \E c \in Clients : Dial(c)
  BY <1>3, RequestMaps, DeadlineMaps DEF Client
<1>4. CASE Kill
  BY <1>4, KillMaps
<1>5. CASE Daemon \/ SigTerm \/ Restart \/ (\E c \in Clients : Dial(c)) \/ UNCHANGED vars
  <2>1. calls' = calls /\ quota' = quota
    BY <1>5 DEF Daemon, RemoveSocket, Listen, Chmod, SigTerm, GracefulStop,
                GracefulStopReturns, ServeReturns, Exit, Restart, Dial, vars
  <2> QED BY <2>1 DEF Service!vars
<1> QED BY <1>1, <1>2, <1>3, <1>4, <1>5 DEF Next

\* quotad.SetQuota(), bcpctl, shutdowns and crashes do to the calls and the limits what
\* QuotaService allows, and nothing else: every step is one of its steps or a stutter.
THEOREM SucdImplementsService == Spec => Implements
<1>1. Init => Service!Init
  <2> SUFFICES ASSUME Init PROVE Service!Init
    OBVIOUS
  <2>1. \A k \in Ids : Promised(calls[k]) = Service!Unmade
    BY DEF Init, Unmade, Promised, Service!Unmade
  <2> QED BY <2>1 DEF Init, Service!Init
<1> QED BY <1>1, StepMaps, SpecInv, PTL DEF Spec, Service!Spec, Implements
-----------------------------------------------------------------------------
\* What the promise alone is worth.

promised == [k \in Ids |-> Promised(calls[k])]
Promise == [lines : SUBSET Xids, todo : SUBSET Xids, before : SUBSET Ids,
            state : {"open", "closed"}, answer : {"unmade", "none", "ok", "error", "lost"}]
Replied == {k \in Ids : promised[k].answer \in {"ok", "error"}}

PromisesAreTyped == promised \in [Ids -> Promise] /\ quota \in [Xids -> Ids \cup {<<>>}]
RepliedAreClosed == \A k \in Replied : promised[k].state = "closed"
OkIsComplete == \A k \in Ids : promised[k].answer = "ok" => promised[k].todo = {}
BeforeAreReplied == \A k \in Ids : promised[k].before \subseteq Replied
PromisedIsInForce ==
    \A k \in Ids : ~ DryRun =>
        \A x \in promised[k].lines \ promised[k].todo :
            quota[x] \notin promised[k].before \cup {<<>>}

\* Whatever has been answered is closed, so that no call that was answered before another one
\* sets limits after it.
ServiceInv ==
    /\ PromisesAreTyped /\ RepliedAreClosed /\ OkIsComplete /\ BeforeAreReplied
    /\ PromisedIsInForce

LEMMA ServiceInit == Service!Init => ServiceInv
<1> SUFFICES ASSUME Service!Init PROVE ServiceInv
  OBVIOUS
<1>1. /\ promised = [k \in Ids |-> Service!Unmade]
      /\ quota = [x \in Xids |-> <<>>]
  BY DEF Service!Init, promised
<1>2. PromisesAreTyped
  BY <1>1 DEF PromisesAreTyped, Promise, Service!Unmade
<1>3. \A k \in Ids : promised[k].answer = "unmade" /\ promised[k].lines = {} /\ promised[k].before = {}
  BY <1>1 DEF Service!Unmade
<1>4. Replied = {}
  BY <1>3 DEF Replied
<1> QED BY <1>2, <1>3, <1>4 DEF ServiceInv, RepliedAreClosed, OkIsComplete, BeforeAreReplied,
                               PromisedIsInForce

LEMMA AskKeeps ==
  ASSUME ServiceInv, NEW k \in Ids, NEW lines \in SUBSET Xids, NEW state \in {"open", "closed"},
         Service!Ask(k, lines, state)
  PROVE  ServiceInv'
<1> DEFINE new == [lines |-> lines, todo |-> lines, before |-> Replied, state |-> state,
                   answer |-> IF state = "open" THEN "none" ELSE "lost"]
<1>0. /\ promised[k].answer = "unmade" /\ quota' = quota
      /\ promised' = [promised EXCEPT ![k] = new]
  BY DEF Service!Ask, Service!Answered, promised, Replied
<1>1. PromisesAreTyped'
  BY <1>0 DEF ServiceInv, PromisesAreTyped, Promise, Replied
<1>2. Replied' = Replied
  BY <1>0 DEF ServiceInv, PromisesAreTyped, Promise, Replied
<1>3. RepliedAreClosed' /\ OkIsComplete'
  BY <1>0, <1>2 DEF ServiceInv, PromisesAreTyped, Promise, Replied, RepliedAreClosed, OkIsComplete
<1>4. BeforeAreReplied'
  BY <1>0, <1>2 DEF ServiceInv, PromisesAreTyped, Promise, BeforeAreReplied
<1>5. PromisedIsInForce'
  BY <1>0 DEF ServiceInv, PromisesAreTyped, Promise, PromisedIsInForce
<1> QED BY <1>1, <1>3, <1>4, <1>5 DEF ServiceInv

\* The caller of the step is open, so that it is in no `before`.
LEMMA SetOneKeeps ==
  ASSUME ServiceInv, NEW k \in Ids, NEW x \in Xids, Service!SetOne(k, x)
  PROVE  ServiceInv'
<1>0. /\ promised[k].state = "open" /\ x \in promised[k].todo
      /\ promised' = [promised EXCEPT ![k].todo = @ \ {x}]
      /\ quota' = IF DryRun THEN quota ELSE [quota EXCEPT ![x] = k]
  BY DEF Service!SetOne, promised
<1>1. PromisesAreTyped'
  BY <1>0 DEF ServiceInv, PromisesAreTyped, Promise
<1>2. Replied' = Replied
  BY <1>0 DEF ServiceInv, PromisesAreTyped, Promise, Replied
<1>3. RepliedAreClosed' /\ OkIsComplete'
  BY <1>0, <1>2 DEF ServiceInv, PromisesAreTyped, Promise, Replied, RepliedAreClosed, OkIsComplete
<1>4. BeforeAreReplied'
  BY <1>0, <1>2 DEF ServiceInv, PromisesAreTyped, Promise, BeforeAreReplied
<1>5. \A j \in Ids : k \notin promised[j].before
  BY <1>0 DEF ServiceInv, RepliedAreClosed, BeforeAreReplied
<1>6. PromisedIsInForce'
  <2> SUFFICES ASSUME NEW j \in Ids, ~ DryRun,
                      NEW y \in promised'[j].lines \ promised'[j].todo
               PROVE  quota'[y] \notin promised'[j].before \cup {<<>>}
    BY DEF PromisedIsInForce
  <2>1. y \in Xids /\ promised'[j].before = promised[j].before
    BY <1>0 DEF ServiceInv, PromisesAreTyped, Promise
  <2>2. CASE y = x
    BY <1>0, <2>1, <2>2, <1>5, NoIdIsEmpty DEF ServiceInv, PromisesAreTyped
  <2>3. CASE y # x
    BY <1>0, <2>1, <2>3 DEF ServiceInv, PromisesAreTyped, Promise, PromisedIsInForce
  <2> QED BY <2>2, <2>3
<1> QED BY <1>1, <1>3, <1>4, <1>6 DEF ServiceInv

LEMMA GiveUpKeeps ==
  ASSUME ServiceInv, NEW lost \in SUBSET Ids, NEW closed \in SUBSET Ids,
         Service!GiveUp(lost, closed)
  PROVE  ServiceInv'
<1> DEFINE Unheard(k) == IF k \in lost THEN [promised[k] EXCEPT !.answer = "lost"] ELSE promised[k]
<1>0. /\ \A k \in lost : promised[k].answer = "none"
      /\ promised' = [k \in Ids |-> IF k \in closed THEN [Unheard(k) EXCEPT !.state = "closed"]
                                    ELSE Unheard(k)]
      /\ quota' = quota
  BY DEF Service!GiveUp, Service!Lost, Service!Closed, promised
<1>2. ASSUME NEW k \in Ids
      PROVE  /\ promised'[k] \in Promise
             /\ promised'[k].lines = promised[k].lines /\ promised'[k].todo = promised[k].todo
             /\ promised'[k].before = promised[k].before
             /\ promised[k].state = "closed" => promised'[k].state = "closed"
             /\ promised'[k].answer = IF k \in lost THEN "lost" ELSE promised[k].answer
  <2>1. promised'[k] = IF k \in closed THEN [Unheard(k) EXCEPT !.state = "closed"] ELSE Unheard(k)
    BY <1>0, <1>2
  <2>2. promised[k] \in Promise
    BY <1>2 DEF ServiceInv, PromisesAreTyped
  <2>3. /\ Unheard(k) \in Promise
        /\ Unheard(k).lines = promised[k].lines /\ Unheard(k).todo = promised[k].todo
        /\ Unheard(k).before = promised[k].before /\ Unheard(k).state = promised[k].state
        /\ Unheard(k).answer = IF k \in lost THEN "lost" ELSE promised[k].answer
    BY <2>2 DEF Promise
  <2> HIDE DEF Unheard
  <2> QED BY <2>1, <2>3 DEF Promise
<1>1. PromisesAreTyped'
  BY <1>0, <1>2 DEF ServiceInv, PromisesAreTyped
<1>4. Replied' = Replied
  BY <1>0, <1>2 DEF Replied
<1>5. RepliedAreClosed' /\ OkIsComplete'
  BY <1>2, <1>4 DEF ServiceInv, Replied, RepliedAreClosed, OkIsComplete
<1>6. BeforeAreReplied'
  BY <1>2, <1>4 DEF ServiceInv, BeforeAreReplied
<1>7. PromisedIsInForce'
  BY <1>0, <1>2 DEF ServiceInv, PromisedIsInForce
<1> QED BY <1>1, <1>5, <1>6, <1>7 DEF ServiceInv

LEMMA ReplyKeeps ==
  ASSUME ServiceInv, NEW k \in Ids, NEW answer \in {"ok", "error"}, Service!Reply(k, answer)
  PROVE  ServiceInv'
<1>0. /\ promised[k].answer = "none" /\ promised[k].state = "closed"
      /\ answer = "ok" => promised[k].todo = {}
      /\ promised' = [promised EXCEPT ![k].answer = answer]
      /\ quota' = quota
  BY DEF Service!Reply, promised
<1>1. PromisesAreTyped'
  BY <1>0 DEF ServiceInv, PromisesAreTyped, Promise
<1>2. Replied' = Replied \cup {k}
  BY <1>0 DEF ServiceInv, PromisesAreTyped, Promise, Replied
<1>3. RepliedAreClosed' /\ OkIsComplete'
  BY <1>0, <1>2 DEF ServiceInv, PromisesAreTyped, Promise, Replied, RepliedAreClosed, OkIsComplete
<1>4. BeforeAreReplied'
  BY <1>0, <1>2 DEF ServiceInv, PromisesAreTyped, Promise, BeforeAreReplied
<1>5. PromisedIsInForce'
  BY <1>0 DEF ServiceInv, PromisesAreTyped, Promise, PromisedIsInForce
<1> QED BY <1>1, <1>3, <1>4, <1>5 DEF ServiceInv

LEMMA ServiceStep == ServiceInv /\ [Service!Next]_(Service!vars) => ServiceInv'
<1> SUFFICES ASSUME ServiceInv, [Service!Next]_(Service!vars) PROVE ServiceInv'
  OBVIOUS
<1>1. CASE \E k \in Ids, lines \in SUBSET Xids, state \in {"open", "closed"} :
             Service!Ask(k, lines, state)
  BY <1>1, AskKeeps
<1>2. CASE \E k \in Ids, x \in Xids : Service!SetOne(k, x)
  BY <1>2, SetOneKeeps
<1>3. CASE \E lost, closed \in SUBSET Ids : Service!GiveUp(lost, closed)
  BY <1>3, GiveUpKeeps
<1>4. CASE \E k \in Ids, answer \in {"ok", "error"} : Service!Reply(k, answer)
  BY <1>4, ReplyKeeps
<1>5. CASE UNCHANGED Service!vars
  <2>1. promised' = promised /\ quota' = quota
    BY <1>5 DEF Service!vars, promised
  <2> QED BY <2>1 DEF ServiceInv, PromisesAreTyped, Replied, RepliedAreClosed, OkIsComplete,
                      BeforeAreReplied, PromisedIsInForce
<1> QED BY <1>1, <1>2, <1>3, <1>4, <1>5 DEF Service!Next

\* However many calls there are and whichever of them are given up: what OkIsInForce says of
\* an answer ok follows from the promise of QuotaService alone, whatever keeps it.
THEOREM PromiseIsEnough == Service!Spec => []Service!OkIsInForce
<1>1. ServiceInv => Service!OkIsInForce
  <2>1. Service!OkIsInForce <=>
          \A k \in Ids : promised[k].answer = "ok" /\ ~ DryRun =>
             \A x \in promised[k].lines : quota[x] \notin promised[k].before \cup {<<>>}
    BY DEF Service!OkIsInForce, promised
  <2> QED BY <2>1 DEF ServiceInv, OkIsComplete, PromisedIsInForce
<1> QED BY <1>1, ServiceInit, ServiceStep, PTL DEF Service!Spec
=============================================================================
