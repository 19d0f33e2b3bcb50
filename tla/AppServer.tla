------------------------------ MODULE AppServer ------------------------------
(***************************************************************************)
(* The application server: the client of dtu/src/app_server/server.rs, the *)
(* service on the device (dtu/src/app/files/app/setup/Server.kt) and the   *)
(* connection between them, one per request.                               *)
(*                                                                         *)
(* A client connects through a port that adb forwards, writes a header and *)
(* a payload, and reads a header and the rest up to the end of the         *)
(* connection.  On the device a thread accepts connections and hands them  *)
(* to a pool of two, which read the request, run it, answer in three       *)
(* writes and close.  Requests are of four kinds:                          *)
(*   "call"   one call that returns or throws (providers, intents, calls   *)
(*            of system services);                                         *)
(*   "sh"     a process, whose end the handler waits for without a limit;  *)
(*   "shell"  a shell command of a system service, run in a thread of its  *)
(*            own, with a timeout, its output in files the service's       *)
(*            requests share;                                              *)
(*   "bind"   a test or a transaction with an app's service, which has to  *)
(*            be bound first.                                              *)
(* The app dies when a system service has no binder (the exception leaves  *)
(* a plain thread), and may be killed; Android starts it again.            *)
(*                                                                         *)
(* A call may have arguments that travel as text: those of a transaction,  *)
(* or the extras of an intent.  What becomes of them on the way is a pure  *)
(* matter (AppArguments); here they come with it.                          *)
(*                                                                         *)
(* Left out: the values in answers; the limit of 10 on the backlog.        *)
(***************************************************************************)
EXTENDS Naturals, Sequences, FiniteSets

CONSTANTS Requests,   \* requests, each by a client of its own
          Services,   \* the system services the shell commands name
          Binderless, \* those of them that have no binder
          Raw,        \* requests whose answer the client does not decode
          Endless,    \* "sh" requests whose process never ends
          Payloads,   \* sequence of arguments and what becomes of them
          Mixes,      \* the requests made: [kind, service, payload], where a
                      \* payload is a place in Payloads, or 0 for none
          PoolSize,   \* threads that handle requests
          MaxKills    \* bound: times the system kills the app

\* Arguments may be an error in the words for them.  Of others: whether the
\* device can read the text it is sent for them, whether what it reads can be
\* used, and what the callee is given then
ASSUME ServerAssumption ==
  /\ IsFiniteSet(Requests) /\ Raw \subseteq Requests /\ Endless \subseteq Requests
  /\ Binderless \subseteq Services
  /\ \A i \in 1 .. Len(Payloads) : /\ Payloads[i].is \in {"value", "error"}
                                   /\ {Payloads[i].readable, Payloads[i].usable} \subseteq BOOLEAN
  /\ Mixes \subseteq [kind : [Requests -> {"none", "call", "sh", "shell", "bind"}],
                      service : [Requests -> Services],
                      payload : [Requests -> 0 .. Len(Payloads)]]
  /\ \A m \in Mixes, r \in Endless : m.kind[r] \in {"none", "sh"}
  /\ PoolSize \in Nat \ {0} /\ MaxKills \in Nat

VARIABLES
  port,     \* whether adb forwards the port
  up,       \* whether the app runs and listens
  kills,    \* times the app was killed
  queue,    \* connections not yet taken by a thread of the pool, in order
  client,   \* request -> what its client does next
  kind,     \* request -> its kind
  service,  \* request -> the system service of its shell command
  args,     \* request -> its arguments
  sent,     \* request -> parts the client has written: header, payload
  srv,      \* request -> what its handler does next
  answer,   \* request -> the answer its handler made
  out,      \* request -> parts of the answer written: status, length, data
  result,   \* request -> what its client returned
  thread,   \* request -> the thread of its shell command
  files,    \* service -> the requests whose output the service's files hold
  binder,   \* request -> whether it was given the binder of its service
  bound,    \* request -> whether the connection to its service is held
  \* history variables: times a request ran (a shell command: that its result
  \* was reported), the arguments it was called with, and the shell commands
  \* during which (until their output was read) another one of the same service
  \* ran
  ran, given, mixed

asked  == <<kind, service, args>>
conn   == <<client, asked, sent, out, result>>
device == <<thread, files, binder, bound, ran, given, mixed>>
serverVars == <<port, up, kills, queue, srv, answer, conn, device>>

NoArgs == [is |-> "none", readable |-> FALSE, usable |-> FALSE, read |-> << >>]

Nothing == [status |-> "none", why |-> "none", of |-> {}]
Good(of)  == [status |-> "GOOD", why |-> "none", of |-> of]
Failure(why) == [status |-> "FAIL", why |-> why, of |-> {}]

ServerInit ==
  /\ \E m \in Mixes :
       /\ kind = m.kind /\ service = m.service
       /\ args = [r \in Requests |->
                   IF m.payload[r] = 0 THEN NoArgs ELSE Payloads[m.payload[r]]]
  /\ port \in BOOLEAN /\ up \in BOOLEAN /\ kills = 0 /\ queue = << >>
  /\ client = [r \in Requests |-> IF kind[r] = "none" THEN "end" ELSE "start"]
  /\ sent = [r \in Requests |-> 0] /\ out = [r \in Requests |-> 0]
  /\ srv = [r \in Requests |-> "none"]
  /\ answer = [r \in Requests |-> Nothing]
  /\ result = [r \in Requests |-> "none"]
  /\ thread = [r \in Requests |-> "none"]
  /\ files = [s \in Services |-> {}]
  /\ binder = [r \in Requests |-> FALSE] /\ bound = [r \in Requests |-> FALSE]
  /\ ran = [r \in Requests |-> 0] /\ given = [r \in Requests |-> << >>] /\ mixed = {}

-----------------------------------------------------------------------------
(* The client: one request over one connection.                            *)

ClientTo(r, pc) == client' = [client EXCEPT ![r] = pc]

ClientEnds(r, res) ==
  /\ ClientTo(r, "end")
  /\ result' = [result EXCEPT ![r] = res]

\* Words that make no arguments: nothing is sent
RefuseArguments(r) ==
  /\ client[r] = "start" /\ args[r].is = "error"
  /\ ClientEnds(r, "usage")
  /\ UNCHANGED <<port, up, kills, queue, srv, answer, asked, sent, out, device>>

Starts(r) == client[r] = "start" /\ args[r].is # "error"

\* get_app_server: where the connection is refused, because the port is not
\* forwarded, it is forwarded and tried again, once
ForwardPort(r) ==
  /\ Starts(r) /\ ~port
  /\ \/ port' = TRUE /\ UNCHANGED conn
     \/ port' = port /\ ClientEnds(r, "refused") /\ UNCHANGED <<asked, sent, out>>
  /\ UNCHANGED <<up, kills, queue, srv, answer, device>>

\* adb accepts the connection whether or not somebody listens on the device
Connect(r) ==
  /\ Starts(r) /\ port
  /\ ClientTo(r, "header")
  /\ IF up THEN /\ queue' = Append(queue, r)
                /\ srv' = [srv EXCEPT ![r] = "queued"]
           ELSE /\ srv' = [srv EXCEPT ![r] = "reset"]
                /\ UNCHANGED queue
  /\ UNCHANGED <<port, up, kills, answer, asked, sent, out, result, device>>

Closed(r) == srv[r] \in {"closed", "reset"}

\* send_raw_command_serialized: two writes; one on a connection that the
\* other side closed may fail
WritePart(r) ==
  /\ client[r] \in {"header", "payload"}
  /\ \/ /\ sent' = [sent EXCEPT ![r] = @ + 1]
        /\ ClientTo(r, IF client[r] = "header" THEN "payload" ELSE "read")
        /\ srv' = IF srv[r] = "closed" THEN [srv EXCEPT ![r] = "reset"] ELSE srv
        /\ UNCHANGED result
     \/ /\ Closed(r)
        /\ ClientEnds(r, "io")
        /\ UNCHANGED <<sent, srv>>
  /\ UNCHANGED <<port, up, kills, queue, answer, asked, out, device>>

(* Fault: what came is taken for the whole answer.                         *)
ReceivedTruncated(r) ==
  CASE out[r] < 2                                -> "io"
    [] out[r] >= 2 /\ answer[r].status = "FAIL"  -> "server"
    [] OTHER                                     -> "ok"

\* read_response: the header's 12 bytes, then all that follows; the length in
\* the header does not count.  A raw answer is returned as it came, a typed
\* one is decoded first
Decodes(r) == r \notin Raw

Received(r) ==
  CASE out[r] < 2                                               -> "io"
    [] out[r] = 2 /\ (answer[r].status = "FAIL" \/ Decodes(r))  -> "invalid"
    [] out[r] = 3 /\ answer[r].status = "FAIL"                  -> "server"
    [] OTHER                                                    -> "ok"

ReadResponse(r) ==
  /\ client[r] = "read" /\ Closed(r)
  /\ \/ ClientEnds(r, Received(r))
     \/ srv[r] = "reset" /\ ClientEnds(r, "io")
  /\ UNCHANGED <<port, up, kills, queue, srv, answer, asked, sent, out, device>>

-----------------------------------------------------------------------------
(* The server.                                                             *)

SrvTo(r, pc) == srv' = [srv EXCEPT ![r] = pc]

Handling == {r \in Requests : srv[r] \notin {"none", "queued", "closed", "reset"}}

Take ==
  /\ up /\ queue # << >> /\ Cardinality(Handling) < PoolSize
  /\ queue' = Tail(queue)
  /\ SrvTo(Head(queue), "command")
  /\ UNCHANGED <<port, up, kills, answer, conn, device>>

\* ClientHandler.run: the connection is closed however the request ended; what
\* was sent and not read makes it a reset
Close(r, nread) ==
  SrvTo(r, IF sent[r] > nread THEN "reset" ELSE "closed")

Answers(r, a) ==
  /\ answer' = [answer EXCEPT ![r] = a]
  /\ SrvTo(r, "answer")

\* The command's four bytes.  A read that is given part of what it asked for
\* throws at the second attempt (the length passed is that of the array); here
\* that is only logged
ReadCommand(r) ==
  /\ srv[r] = "command" /\ sent[r] > 0
  /\ SrvTo(r, "payload") \/ Close(r, 0)
  /\ UNCHANGED <<port, up, kills, queue, answer, conn, device>>

\* The length and the payload, and the request made of them, its arguments
\* read: a failure is answered
ReadRequest(r) ==
  /\ srv[r] = "payload"
  /\ \/ /\ sent[r] = 2
        /\ IF args[r].is = "value" /\ ~args[r].readable
           THEN Answers(r, Failure("payload"))
           ELSE SrvTo(r, "run") /\ UNCHANGED answer
     \/ Answers(r, Failure("request"))
  /\ UNCHANGED <<port, up, kills, queue, conn, device>>

Ran(r) == ran' = [ran EXCEPT ![r] = @ + 1]

\* One call of the system: providers, intents, transactions, with the
\* arguments written into its parcel or intent.  It throws before the callee
\* is called or, as an exception that the callee returns is, after
RunCall(r) ==
  /\ srv[r] = "run" /\ kind[r] = "call"
  /\ \/ /\ Ran(r)
        /\ Answers(r, Good({r})) \/ Answers(r, Failure("exception"))
        /\ IF args[r].is = "none" THEN UNCHANGED given
           ELSE args[r].usable /\ given' = [given EXCEPT ![r] = args[r].read]
     \/ Answers(r, Failure("exception")) /\ UNCHANGED <<ran, given>>
  /\ UNCHANGED <<port, up, kills, queue, conn, thread, files, binder, bound, mixed>>

\* execCmd: the process is waited for, however long it takes
RunProcess(r) ==
  /\ srv[r] = "run" /\ kind[r] = "sh" /\ r \notin Endless
  /\ Ran(r)
  /\ Answers(r, Good({r}))
  /\ UNCHANGED <<port, up, kills, queue, conn, thread, files, binder, bound, given, mixed>>

\* respond: status, length, data; then the connection is closed.  A write
\* fails where the client is gone
Respond(r) ==
  /\ srv[r] = "answer"
  /\ \/ /\ out' = [out EXCEPT ![r] = @ + 1]
        /\ IF out[r] = 2 THEN Close(r, IF answer[r].why = "request" THEN 1 ELSE 2)
                         ELSE UNCHANGED srv
     \/ client[r] = "end" /\ Close(r, 2) /\ UNCHANGED out
  /\ UNCHANGED <<port, up, kills, queue, answer, client, asked, sent, result, device>>

-----------------------------------------------------------------------------
(* Shell commands of system services.                                      *)

\* The commands of a service that run, or whose output nobody has read yet
Running(s) ==
  {r \in Requests : service[r] = s /\ (thread[r] # "none" \/ srv[r] = "poll")}

\* SystemServiceShellCmd.run makes the files where there are none and starts
\* the thread
StartShell(r) ==
  /\ srv[r] = "run" /\ kind[r] = "shell"
  /\ thread' = [thread EXCEPT ![r] = "open"]
  /\ mixed' = IF Running(service[r]) = {} THEN mixed
              ELSE mixed \cup {r} \cup Running(service[r])
  /\ SrvTo(r, "poll")
  /\ UNCHANGED <<port, up, kills, queue, answer, conn, files, binder, bound, ran, given>>

(* Fault: the files are not truncated.                                     *)
OpenFilesKeeps(r) ==
  /\ thread[r] = "open" /\ service[r] \notin Binderless
  /\ thread' = [thread EXCEPT ![r] = "transact"]
  /\ UNCHANGED <<port, up, kills, queue, srv, answer, conn, files, binder, bound, ran, given, mixed>>

\* runInsideThread opens the files, which truncates those for the output
OpenFiles(r) ==
  /\ thread[r] = "open" /\ service[r] \notin Binderless
  /\ files' = [files EXCEPT ![service[r]] = {}]
  /\ thread' = [thread EXCEPT ![r] = "transact"]
  /\ UNCHANGED <<port, up, kills, queue, srv, answer, conn, binder, bound, ran, given, mixed>>

\* The service writes its output (external), then reports its result or throws
ServiceWrites(r) ==
  /\ thread[r] = "transact"
  /\ files' = [files EXCEPT ![service[r]] = @ \cup {r}]
  /\ thread' = [thread EXCEPT ![r] = "report"]
  /\ UNCHANGED <<port, up, kills, queue, srv, answer, conn, binder, bound, ran, given, mixed>>

\* MyResultReceiver.onTransact adds the result to the request's own queue
ServiceReports(r) ==
  /\ \/ thread[r] = "report" /\ Ran(r) /\ UNCHANGED answer
     \/ /\ thread[r] \in {"transact", "report"} /\ UNCHANGED ran
        /\ answer' = IF srv[r] = "poll" THEN [answer EXCEPT ![r] = Failure("exception")] ELSE answer
  /\ thread' = [thread EXCEPT ![r] = "none"]
  /\ UNCHANGED <<port, up, kills, queue, srv, conn, files, binder, bound, given, mixed>>

(* Fault: waits without a timeout.                                         *)
PollForever(r) ==
  /\ srv[r] = "poll"
  /\ \/ ran[r] = 1 /\ Answers(r, Good(files[service[r]]))
     \/ answer[r] # Nothing /\ Answers(r, answer[r])
  /\ UNCHANGED <<port, up, kills, queue, conn, device>>

\* queue.poll with the request's timeout; the files are read after the result
PollResult(r) ==
  /\ srv[r] = "poll"
  /\ \/ ran[r] = 1 /\ Answers(r, Good(files[service[r]]))
     \/ answer[r] # Nothing /\ Answers(r, answer[r])
     \/ ran[r] = 0 /\ answer[r] = Nothing /\ Answers(r, Failure("timeout"))
  /\ UNCHANGED <<port, up, kills, queue, conn, device>>

-----------------------------------------------------------------------------
(* Tests and transactions with an app's service: RunTest and               *)
(* TransactAppService.                                                     *)

\* bindService, before the lock is taken
BindService(r) ==
  /\ srv[r] = "run" /\ kind[r] = "bind"
  /\ \/ bound' = [bound EXCEPT ![r] = TRUE] /\ SrvTo(r, "bound") /\ UNCHANGED answer
     \/ Answers(r, Failure("couldn't bind")) /\ UNCHANGED bound
  /\ UNCHANGED <<port, up, kills, queue, conn, thread, files, binder, ran, given, mixed>>

\* cond.await, which gives the lock up
AwaitService(r) ==
  /\ srv[r] = "bound"
  /\ SrvTo(r, "await")
  /\ UNCHANGED <<port, up, kills, queue, answer, conn, device>>

\* onServiceConnected and onNullBinding, on the main thread: the signal wakes
\* who waits, and is lost where nobody does yet
ServiceConnected(r) ==
  /\ bound[r] /\ ~binder[r]
  /\ binder' = [binder EXCEPT ![r] = TRUE]
  /\ IF srv[r] = "await" THEN SrvTo(r, "connected") ELSE UNCHANGED srv
  /\ UNCHANGED <<port, up, kills, queue, answer, conn, thread, files, bound, ran, given, mixed>>

NullBinding(r) ==
  /\ bound[r] /\ ~binder[r] /\ srv[r] = "await"
  /\ SrvTo(r, "connected")
  /\ UNCHANGED <<port, up, kills, queue, answer, conn, device>>

ServiceDisconnected(r) ==
  /\ bound[r] /\ binder[r]
  /\ binder' = [binder EXCEPT ![r] = FALSE]
  /\ UNCHANGED <<port, up, kills, queue, srv, answer, conn, thread, files, bound, ran, given, mixed>>

Unbind(r, a) ==
  /\ Answers(r, a)
  /\ bound' = [bound EXCEPT ![r] = FALSE]
  /\ binder' = [binder EXCEPT ![r] = FALSE]

\* innerRun after the wait: the two seconds passed, or the binder is called,
\* which throws before the callee ran or after; whatever happens, run unbinds
AwaitEnds(r) ==
  /\ \/ srv[r] = "await" /\ Unbind(r, Failure("timeout")) /\ UNCHANGED ran
     \/ srv[r] = "connected" /\ ~binder[r] /\ Unbind(r, Failure("null binder")) /\ UNCHANGED ran
     \/ srv[r] = "connected" /\ binder[r] /\ Unbind(r, Good({r})) /\ Ran(r)
     \/ /\ srv[r] = "connected" /\ binder[r] /\ Unbind(r, Failure("exception"))
        /\ Ran(r) \/ UNCHANGED ran
  /\ UNCHANGED <<port, up, kills, queue, conn, thread, files, given, mixed>>

-----------------------------------------------------------------------------
(* The app as a whole.                                                     *)

\* The process ends: every connection is cut, bindings and threads are gone;
\* the files stay
AppEnds ==
  /\ up' = FALSE /\ queue' = << >>
  /\ srv' = [r \in Requests |-> IF srv[r] \in {"none", "closed", "reset"} THEN srv[r]
                                ELSE IF sent[r] = 0 THEN "closed" ELSE "reset"]
  /\ thread' = [r \in Requests |-> "none"]
  /\ binder' = [r \in Requests |-> FALSE] /\ bound' = [r \in Requests |-> FALSE]
  /\ UNCHANGED <<port, answer, conn, files, ran, given, mixed>>

\* The system kills the app
Kill == up /\ kills < MaxKills /\ kills' = kills + 1 /\ AppEnds

\* runInsideThread throws NoSystemServiceBinderException in a thread that
\* nothing guards, which ends the app
NoBinder(r) ==
  /\ thread[r] = "open" /\ service[r] \in Binderless
  /\ AppEnds /\ UNCHANGED kills

\* App.onCreate, am start-service, or Android that starts it again; onCreate
\* listens anew
StartServer ==
  /\ ~up /\ up' = TRUE
  /\ UNCHANGED <<port, kills, queue, srv, answer, conn, device>>

ClientStep(r) ==
  RefuseArguments(r) \/ ForwardPort(r) \/ Connect(r) \/ WritePart(r) \/ ReadResponse(r)

HandlerStep(r) ==
  \/ ReadCommand(r) \/ ReadRequest(r) \/ RunCall(r) \/ RunProcess(r) \/ Respond(r)
  \/ StartShell(r) \/ PollResult(r)
  \/ BindService(r) \/ AwaitService(r) \/ AwaitEnds(r)

\* What the device's other programs do
OthersStep(r) ==
  \/ OpenFiles(r) \/ ServiceWrites(r) \/ ServiceReports(r) \/ NoBinder(r)
  \/ ServiceConnected(r) \/ NullBinding(r) \/ ServiceDisconnected(r)

\* Every request was answered but those that never end, and every shell
\* command is over
Done == /\ \A r \in Requests : client[r] = "end" \/ (r \in Endless /\ srv[r] = "run")
        /\ Handling \subseteq Endless /\ \A r \in Requests : thread[r] = "none"
        /\ UNCHANGED serverVars

ServerNext ==
  \/ \E r \in Requests : ClientStep(r) \/ HandlerStep(r) \/ OthersStep(r)
  \/ Take \/ Kill \/ StartServer \/ Done

\* Threads that can run do; nothing is owed by the services and the system
Fairness ==
  /\ WF_serverVars(Take)
  /\ \A r \in Requests : WF_serverVars(ClientStep(r)) /\ WF_serverVars(HandlerStep(r))

ServerSpec == ServerInit /\ [][ServerNext]_serverVars /\ Fairness

-----------------------------------------------------------------------------
(* The requests of a service share its output files, and a request that    *)
(* timed out leaves its command running.  What a client is given as the    *)
(* output of a shell command is that command's output, all of it and       *)
(* nothing left there by an earlier one, unless another shell command of   *)
(* the same service ran before its output was read.                        *)
ShellOutputOwn ==
  \A r \in Requests :
    kind[r] = "shell" /\ answer[r].status = "GOOD" /\ r \notin mixed => answer[r].of = {r}

NotTried(r) ==
  kind[r] # "shell" /\ answer[r].status = "FAIL" /\ answer[r].why # "exception"

(* What a client returns is what happened: a result was answered by a      *)
(* request that ran exactly once and, where the client decodes it, arrived *)
(* whole; a request whose words, arguments or service were refused, and a  *)
(* test or transaction whose service did not connect in time, was not run, *)
(* then or later; nor was one whose connection was refused; and whatever   *)
(* the connection did, nothing ran twice.  Of an exception this says       *)
(* nothing: the callee may have thrown it, and so may have been run.  Nor  *)
(* of a shell command that timed out, which runs on.                       *)
ResultsAreTrue ==
  \A r \in Requests :
    /\ ran[r] <= 1
    /\ result[r] = "ok" => ran[r] = 1 /\ (r \notin Raw => out[r] = 3)
    /\ result[r] = "refused" => ran[r] = 0
    /\ NotTried(r) => ran[r] = 0
    /\ kind[r] = "bind" /\ answer[r].status = "FAIL" => ~bound[r]

(* No client waits forever: with one process that never ends, and tests    *)
(* whose service never answers, the second thread of the pool serves all   *)
(* the others, and a connection is closed whatever its request did.        *)
ClientsEnd ==
  \A r \in Requests \ Endless : client[r] = "header" ~> client[r] = "end"
=============================================================================
