-------------------------------- MODULE Sucd --------------------------------
(***************************************************************************)
(* bcpsucd, the daemon that sets quotas on behalf of `bcpctl setquota`:    *)
(* how it takes over its socket, handles calls concurrently, and shuts     *)
(* down on SIGTERM, while clients give up, commands fail or hang, and the  *)
(* daemon gets killed and is started again.                                *)
(*                                                                         *)
(* gRPC is modelled by what the daemon relies on: each call has a handler  *)
(* of its own, whose end is not tied to the client; GracefulStop() closes  *)
(* the listener, which removes the socket, refuses new calls and waits for *)
(* the handlers; Serve() returns after that.  `setquota --batch` sets      *)
(* limits line by line.                                                    *)
(***************************************************************************)
EXTENDS Naturals, Sequences

CONSTANTS
    Clients,       \* the users that run bcpctl
    ConnAllow,     \* `-conn-allow-uids`
    QuotaAllow,    \* `-quota-allow-uids`
    DryRun,        \* `-quota-dry-run`
    Requests,      \* the requests that are made, of "limits", "wrong fs", "no scope"
    Xids,          \* 1 .. n, the lines of a file, each for an xid of its own
    Files,         \* the files that clients read: line |-> "limits", "comment", "invalid"
                   \* or "too long" for the scanner
    Hangs,         \* whether setquota may hang
    MaxCalls,      \* how many calls each client makes
    MaxStops       \* how often the daemon is told to stop or gets killed

ASSUME SucdAssumption ==
    /\ Xids \subseteq Nat /\ MaxStops \in Nat
    /\ MaxCalls \in [Clients -> Nat]
    /\ Files \subseteq [Xids -> {"limits", "comment", "invalid", "too long"}]
    /\ DryRun \in BOOLEAN

VARIABLES
    main,          \* where main() is: "start", "bind", "chmod", "signal", "stop",
                   \* "drain", "select", "exited", "fatal", "killed"
    isShutdown,
    serving,       \* Serve() has not returned
    socket,        \* the file: "none", "stale", "private" or "live"
    stops,
    phase,         \* what a client does: "idle", "connected", "waiting"
    calls,         \* what has become of each call
    quota          \* the call that has set the limits of an xid last, or <<>>

daemon == <<main, isShutdown, serving, socket>>
vars == <<daemon, stops, phase, calls, quota>>

\* The calls, by client and number.
Ids == UNION {{<<c, i>> : i \in 1 .. MaxCalls[c]} : c \in Clients}
Unmade == [req |-> "none", lines |-> {}, todo |-> {}, before |-> {}, state |-> "unmade",
           answer |-> "none"]
Made(k) == calls[k].state # "unmade"
IsNext(k) == ~ Made(k) /\ \A j \in Ids : j[1] = k[1] /\ j[2] < k[2] => Made(j)

Init ==
    /\ main = "start" /\ isShutdown = FALSE /\ serving = FALSE
    /\ socket \in {"none", "stale"}
    /\ stops = 0
    /\ phase = [c \in Clients |-> "idle"]
    /\ calls = [k \in Ids |-> Unmade]
    /\ quota = [x \in Xids |-> <<>>]

-----------------------------------------------------------------------------
\* main() and grpcd.

\* A bug: the socket is left where it is.
KeepSocket == main = "start" /\ main' = "bind" /\ UNCHANGED <<isShutdown, serving, socket, stops, phase, calls, quota>>

\* NewServer(): remove, listen, chmod.
RemoveSocket ==
    /\ main = "start"
    /\ main' = "bind" /\ socket' = "none"
    /\ UNCHANGED <<isShutdown, serving, stops, phase, calls, quota>>

\* `bind: address already in use` if there is a file.
Listen ==
    /\ main = "bind"
    /\ IF socket = "none" THEN main' = "chmod" /\ socket' = "private"
       ELSE main' = "fatal" /\ UNCHANGED socket
    /\ UNCHANGED <<isShutdown, serving, stops, phase, calls, quota>>

\* Then main() starts Serve() and waits for the signal.
Chmod ==
    /\ main = "chmod"
    /\ main' = "signal" /\ socket' = "live" /\ serving' = TRUE
    /\ UNCHANGED <<isShutdown, stops, phase, calls, quota>>

\* A bug: Serve() is not told that the daemon shuts down.
SigTermUntold ==
    /\ main = "signal" /\ stops < MaxStops
    /\ stops' = stops + 1 /\ main' = "stop"
    /\ UNCHANGED <<isShutdown, serving, socket, phase, calls, quota>>

SigTerm ==
    /\ main = "signal" /\ stops < MaxStops
    /\ stops' = stops + 1
    /\ isShutdown' = TRUE /\ main' = "stop"
    /\ UNCHANGED <<serving, socket, phase, calls, quota>>

\* GracefulStop() closes the listener and tells clients to go away.
GracefulStop ==
    /\ main = "stop"
    /\ main' = "drain" /\ socket' = "none"
    /\ UNCHANGED <<isShutdown, serving, stops, phase, calls, quota>>

\* Handlers that the daemon waits for.
InHandler(call) == call.state \in {"received", "refused", "running", "finished"}

\* Bugs: the daemon does not wait, or waits for connections rather than calls.
NotAwaited == TRUE
Disconnected == \A c \in Clients : phase[c] = "idle"

Drained == \A k \in Ids : ~ InHandler(calls[k])

GracefulStopReturns ==
    /\ main = "drain" /\ Drained
    /\ main' = "select"
    /\ UNCHANGED <<isShutdown, serving, socket, stops, phase, calls, quota>>

\* Serve() has waited for GracefulStop().
ServeReturns ==
    /\ serving /\ main = "select"
    /\ serving' = FALSE
    /\ main' = IF isShutdown THEN main ELSE "fatal"
    /\ UNCHANGED <<isShutdown, socket, stops, phase, calls, quota>>

\* The select: Serve() is done, or the timer fires, and Stop() finds nothing left to do.
Exit ==
    /\ main = "select"
    /\ main' = "exited" /\ serving' = FALSE
    /\ phase' = [c \in Clients |-> "idle"]
    /\ UNCHANGED <<isShutdown, socket, stops, calls, quota>>

\* SIGKILL, or SIGTERM before signal.Notify().  Connections break; the commands that run
\* become orphans.
Broken(call) ==
    [call EXCEPT !.answer = IF @ = "none" THEN "unavailable" ELSE @,
                 !.state = IF @ \in {"running", "orphan"} THEN "orphan" ELSE "over"]
Alive == main \notin {"exited", "fatal", "killed"}
Kill ==
    /\ Alive /\ stops < MaxStops
    /\ stops' = stops + 1
    /\ main' = "killed" /\ serving' = FALSE
    /\ socket' = IF socket = "none" THEN "none" ELSE "stale"
    /\ phase' = [c \in Clients |-> "idle"]
    /\ calls' = [k \in Ids |-> IF Made(k) THEN Broken(calls[k]) ELSE calls[k]]
    /\ UNCHANGED <<isShutdown, quota>>

Restart ==
    /\ ~ Alive
    /\ main' = "start" /\ isShutdown' = FALSE
    /\ UNCHANGED <<serving, socket, stops, phase, calls, quota>>

-----------------------------------------------------------------------------
\* bcpctl.

\* Dial() and its ping.  Where it fails, bcpctl ends without a trace.
Dial(c) ==
    /\ phase[c] = "idle" /\ \E k \in Ids : k[1] = c /\ ~ Made(k)
    /\ socket = "live" /\ serving /\ c \in ConnAllow
    /\ phase' = [phase EXCEPT ![c] = "connected"]
    /\ UNCHANGED <<daemon, stops, calls, quota>>

\* Parse() ends at a line that the scanner does not take, as if the file ended there.
Scanned(file) == {x \in Xids : \A y \in Xids : file[y] = "too long" => x < y}
Accepts(file) == \A x \in Scanned(file) : file[x] # "invalid"
LimitsOf(file) == {x \in Scanned(file) : file[x] = "limits"}

\* SetQuota() of the client.  `before` are the calls that have been answered.
Answered == {k \in Ids : calls[k].answer \in {"ok", "error"}}
SetQuotaRequest(k, req, file) ==
    /\ phase[k[1]] = "connected" /\ IsNext(k) /\ Accepts(file)
    /\ LET accepted == main \in {"signal", "stop"}
       IN /\ calls' = [calls EXCEPT ![k] =
                [req |-> req, lines |-> LimitsOf(file), todo |-> LimitsOf(file),
                 before |-> Answered,
                 state |-> IF accepted THEN "received" ELSE "over",
                 answer |-> IF accepted THEN "none" ELSE "unavailable"]]
          /\ phase' = [phase EXCEPT ![k[1]] = IF accepted THEN "waiting" ELSE "idle"]
    /\ UNCHANGED <<daemon, stops, quota>>

\* The 10 s are over.  bcpctl ends, the handler goes on.
Deadline(k) ==
    /\ Made(k) /\ calls[k].answer = "none"
    /\ phase' = [phase EXCEPT ![k[1]] = "idle"]
    /\ calls' = [calls EXCEPT ![k].answer = "deadline"]
    /\ UNCHANGED <<daemon, stops, quota>>

-----------------------------------------------------------------------------
\* quotad.

Unchanged == UNCHANGED <<daemon, stops, phase>>

\* SetQuota(): Authorize(), then the filesystem, then the scope.
Refused(c, req) ==
    \/ c \notin QuotaAllow
    \/ req = "wrong fs"
    \/ req = "no scope" /\ ~ DryRun

\* A bug: a refusal is sent, and the handler goes on.
SetQuotaGoesOn(k) ==
    /\ calls[k].state = "received"
    /\ calls' = [calls EXCEPT ![k] =
                   [@ EXCEPT !.state = "running",
                             !.answer = IF Refused(k[1], calls[k].req) /\ @ = "none"
                                        THEN "error" ELSE @]]
    /\ phase' = IF Refused(k[1], calls[k].req) /\ calls[k].answer = "none"
                THEN [phase EXCEPT ![k[1]] = "idle"] ELSE phase
    /\ UNCHANGED <<daemon, stops, quota>>

SetQuota(k) ==
    /\ calls[k].state = "received"
    /\ calls' = [calls EXCEPT ![k].state =
                   IF Refused(k[1], calls[k].req) THEN "refused" ELSE "running"]
    /\ UNCHANGED quota /\ Unchanged

\* setquota reads the next line; `cat` sets nothing.
SetLimits(k, x) ==
    /\ calls[k].state \in {"running", "orphan"}
    /\ x \in calls[k].todo /\ \A y \in calls[k].todo : x <= y
    /\ calls' = [calls EXCEPT ![k].todo = @ \ {x}]
    /\ quota' = IF DryRun THEN quota ELSE [quota EXCEPT ![x] = k]
    /\ Unchanged

\* It exits with an error as soon as a line fails, or at the end.  The orphans have no
\* reader for their output and none who writes to their input.
CommandExits(k) ==
    /\ calls[k].state \in {"running", "orphan"}
    /\ calls' = [calls EXCEPT ![k].state = IF @ = "running" THEN "finished" ELSE "over"]
    /\ UNCHANGED quota /\ Unchanged

\* A bug: the exit status of the command is ignored.
AnswerAnyway(call) == IF call.state = "finished" THEN "ok" ELSE "error"

AnswerTo(call) == IF call.state = "finished" /\ call.todo = {} THEN "ok" ELSE "error"

\* The answer is lost if the client has given up.
Answer(k) ==
    /\ calls[k].state \in {"refused", "finished"}
    /\ calls' = [calls EXCEPT ![k] =
                   [calls[k] EXCEPT !.state = "over",
                                    !.answer = IF @ = "none" THEN AnswerTo(calls[k]) ELSE @]]
    /\ phase' = IF calls[k].answer = "none" THEN [phase EXCEPT ![k[1]] = "idle"] ELSE phase
    /\ UNCHANGED <<daemon, stops, quota>>

-----------------------------------------------------------------------------
Daemon ==
    \/ RemoveSocket \/ Listen \/ Chmod
    \/ GracefulStop \/ GracefulStopReturns \/ ServeReturns \/ Exit
Handler == \E k \in Ids : SetQuota(k) \/ Answer(k)
Command == \E k \in Ids : (\E x \in Xids : SetLimits(k, x)) \/ CommandExits(k)
Client ==
    \/ \E c \in Clients : Dial(c)
    \/ \E k \in Ids, req \in Requests, file \in Files : SetQuotaRequest(k, req, file)
    \/ \E k \in Ids : Deadline(k)

Next == Daemon \/ Handler \/ Command \/ Client \/ SigTerm \/ Kill \/ Restart

\* Goroutines run, somebody starts the daemon again, and commands go on unless they hang.
\* Clients and signals may come or not.
Spec ==
    /\ Init /\ [][Next]_vars
    /\ WF_vars(Daemon) /\ WF_vars(Handler) /\ WF_vars(Restart)
    /\ ~ Hangs => WF_vars(Command)

-----------------------------------------------------------------------------
CallType ==
    [req : Requests \cup {"none"}, lines : SUBSET Xids, todo : SUBSET Xids, before : SUBSET Ids,
     state : {"unmade", "received", "refused", "running", "finished", "orphan", "over"},
     answer : {"none", "ok", "error", "deadline", "unavailable"}]

TypeOK ==
    /\ main \in {"start", "bind", "chmod", "signal", "stop", "drain", "select",
                 "exited", "fatal", "killed"}
    /\ isShutdown \in BOOLEAN /\ serving \in BOOLEAN
    /\ socket \in {"none", "stale", "private", "live"}
    /\ stops \in 0 .. MaxStops
    /\ phase \in [Clients -> {"idle", "connected", "waiting"}]
    /\ calls \in [Ids -> CallType]
    /\ quota \in [Xids -> Ids \cup {<<>>}]

\* What users see of the calls, and what still goes on behind it.
Promised(call) ==
    [lines |-> call.lines, todo |-> call.todo, before |-> call.before,
     state |-> IF call.state \in {"received", "running", "orphan"} THEN "open" ELSE "closed",
     answer |-> IF call.state = "unmade" THEN "unmade"
                ELSE IF call.answer \in {"deadline", "unavailable"} THEN "lost"
                ELSE call.answer]

Service == INSTANCE QuotaService
    WITH Calls <- Ids, Unset <- <<>>, calls <- [k \in Ids |-> Promised(calls[k])], quota <- quota

\* quotad.SetQuota() and bcpctl with the daemon's shutdowns and crashes keep the promise of
\* QuotaService: no call is answered before its command has ended, nor twice, and none sets
\* limits after that.
Implements == Service!Spec

\* quotad.SetQuota() answers when the command has ended: once a call is ok, nothing is left
\* of the limits of calls that had been answered when it was made, whatever the calls of
\* other clients, those that timed out, and the orphans of a killed daemon do.
OkIsInForce ==
    \A k \in Ids : calls[k].answer = "ok" /\ ~ DryRun =>
        \A x \in calls[k].lines : quota[x] \notin calls[k].before \cup {<<>>}

\* GracefulStop(): when the daemon has exited in good order, each call has been answered,
\* and no command of it runs any more.
ExitIsGraceful ==
    main = "exited" =>
        \A k \in Ids : Made(k) =>
            calls[k].answer # "none" /\ calls[k].state \in {"orphan", "over"}

\* "Avoid `bind: address already in use`" (NewServer()), and isShutdown is set before
\* Serve() can return: main() never ends with log.Fatal() or FatalS().
NeverFatal == main # "fatal"

\* However the daemon has ended, once it is started again, clients can connect.
StartsAgain == ~ Alive ~> socket = "live"

\* "Timeout, forced shutdown" (bcpsucd.go): SIGTERM ends the daemon.
ShutdownEnds == main = "stop" ~> ~ Alive
=============================================================================
