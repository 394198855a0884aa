--------------------------- MODULE ControlSocket ---------------------------
(***************************************************************************)
(* The control socket (reflink-forest-daemon): one thread serves one       *)
(* connection at a time, reads a line, executes it on the job store and    *)
(* answers.  A client sends its line in pieces, or not to its end, and     *)
(* hangs up whenever it likes.  What workers do with the jobs meanwhile is *)
(* in JobStore and DaemonWorkers.                                          *)
(***************************************************************************)
EXTENDS Integers, Sequences

CONSTANTS
  Client,   \* connections, one request each
  Foreign,  \* those of another user
  Requests, \* what the clients may say: functions from Client to [verb, id]
  MaxSocketErrors, \* bound: errors of the job store
  NoClient

VARIABLES
  request,   \* one of Requests
  sent,      \* clients that sent all of their line
  open,      \* clients with an open connection
  backlog,   \* connections that were not accepted yet
  serving,   \* the connection that is served, or NoClient
  response,  \* its answer before it is written, or NoClient
  answer,    \* [Client -> answer or NoClient]
  jobs,      \* a sequence of job states
  socketErrors,
  executed   \* ghost: [Client -> Nat], how often its request was executed

socketVars == <<request, sent, open, backlog, serving, response, answer, jobs, socketErrors, executed>>

JobState == {"queued", "running", "succeeded", "failed"}

Verb == {"status", "enqueue", "start", "succeed", "fail", "retry", "get", "invalid", "unsupported"}

Reply ==
  {<<"ok">>, <<"error invalid-request">>, <<"error unsupported-request">>, <<"error job-not-found">>,
   <<"error invalid-transition">>, <<"error job-store">>, <<"gone">>, <<"closed">>}
    \cup ({"ok"} \X Nat \X JobState)

\* Requests are parsed lines, and NoClient is no client and no answer.
SocketConstants ==
  /\ Requests \subseteq [Client -> [verb : Verb, id : Nat]] /\ MaxSocketErrors \in Nat
  /\ NoClient \notin Client /\ NoClient \notin Reply
ASSUME SocketAssumption == SocketConstants

\* Every variable has its type.
SocketTypeOK ==
  /\ request \in Requests /\ sent \subseteq Client /\ open \subseteq Client
  /\ backlog \in Seq(Client) /\ serving \in Client \cup {NoClient}
  /\ jobs \in Seq(JobState)
  /\ socketErrors \in 0 .. MaxSocketErrors /\ executed \in [Client -> 0 .. 1]

SocketInit ==
  /\ request \in Requests
  /\ sent = {} /\ open = {} /\ backlog = <<>> /\ serving = NoClient /\ response = NoClient
  /\ answer = [c \in Client |-> NoClient] /\ jobs = <<>> /\ socketErrors = 0
  /\ executed = [c \in Client |-> 0]

-----------------------------------------------------------------------------
\* Clients.
Connect(c) ==
  /\ c \notin open /\ answer[c] = NoClient
  /\ open' = open \cup {c} /\ backlog' = Append(backlog, c)
  /\ UNCHANGED <<request, sent, serving, response, answer, jobs, socketErrors, executed>>

SendLine(c) ==
  /\ c \in open \ sent
  /\ sent' = sent \cup {c}
  /\ UNCHANGED <<request, open, backlog, serving, response, answer, jobs, socketErrors, executed>>

HangUp(c) ==
  /\ c \in open
  /\ open' = open \ {c}
  /\ answer' = [answer EXCEPT ![c] = IF @ = NoClient THEN <<"gone">> ELSE @]
  /\ UNCHANGED <<request, sent, backlog, serving, response, jobs, socketErrors, executed>>

-----------------------------------------------------------------------------
\* Fault: the peer's user is not looked at.
AcceptAny ==
  /\ serving = NoClient /\ backlog # <<>>
  /\ backlog' = Tail(backlog)
  /\ serving' = Head(backlog)
  /\ UNCHANGED <<request, sent, open, response, answer, jobs, socketErrors, executed>>

\* serve_one_with: the connection of another user is closed at once.
Accept ==
  /\ serving = NoClient /\ backlog # <<>>
  /\ backlog' = Tail(backlog)
  /\ IF Head(backlog) \in Foreign
     THEN open' = open \ {Head(backlog)} /\ answer' = [answer EXCEPT ![Head(backlog)] = <<"closed">>] /\ UNCHANGED serving
     ELSE serving' = Head(backlog) /\ UNCHANGED <<open, answer>>
  /\ UNCHANGED <<request, sent, response, jobs, socketErrors, executed>>

\* The transitions of the job store that a command names.
From == [start |-> {"queued"}, succeed |-> {"running"}, fail |-> {"running"}, retry |-> {"failed"}, get |-> JobState]
To(verb, s) ==
  CASE verb = "start" -> "running" [] verb = "succeed" -> "succeeded" [] verb = "fail" -> "failed"
    [] verb = "retry" -> "queued" [] verb = "get" -> s

\* execute and handle_socket_command: <<answer, jobs afterwards>>.
Execute(r) ==
  IF r.verb = "status" THEN <<<<"ok">>, jobs>>
  ELSE IF r.verb = "enqueue" THEN <<<<"ok", Len(jobs) + 1, "queued">>, Append(jobs, "queued")>>
  ELSE IF r.verb = "invalid" THEN <<<<"error invalid-request">>, jobs>>
  ELSE IF r.verb = "unsupported" THEN <<<<"error unsupported-request">>, jobs>>
  ELSE IF r.id \notin DOMAIN jobs THEN <<<<"error job-not-found">>, jobs>>
  ELSE IF jobs[r.id] \notin From[r.verb] THEN <<<<"error invalid-transition">>, jobs>>
  ELSE LET s == To(r.verb, jobs[r.id]) IN <<<<"ok", r.id, s>>, [jobs EXCEPT ![r.id] = s]>>

\* Fault: the end of the stream is not taken for the end of the request.
HandleLine ==
  /\ serving # NoClient /\ response = NoClient /\ serving \in sent
  /\ response' = Execute(request[serving])[1] /\ jobs' = Execute(request[serving])[2]
  /\ executed' = [executed EXCEPT ![serving] = @ + 1]
  /\ UNCHANGED <<request, sent, open, backlog, serving, answer, socketErrors>>

\* The read returns with the line, or with what came before the hang-up, which
\* is no line and is answered without being parsed.
Handle ==
  /\ serving # NoClient /\ response = NoClient
  /\ \/ /\ serving \in sent
        /\ response' = Execute(request[serving])[1] /\ jobs' = Execute(request[serving])[2]
        /\ executed' = [executed EXCEPT ![serving] = @ + 1]
        /\ UNCHANGED socketErrors
     \/ /\ serving \in sent /\ socketErrors < MaxSocketErrors /\ socketErrors' = socketErrors + 1
        /\ Execute(request[serving])[2] # jobs
        /\ response' = <<"error job-store">> /\ jobs' \in {jobs, Execute(request[serving])[2]}
        /\ executed' = [executed EXCEPT ![serving] = @ + 1]
     \/ /\ serving \notin sent /\ serving \notin open
        /\ response' = <<"error invalid-request">>
        /\ UNCHANGED <<jobs, socketErrors, executed>>
  /\ UNCHANGED <<request, sent, open, backlog, serving, answer>>

\* Fault: the next client's connection gets the answer of a lost one.
RespondNext ==
  /\ response # NoClient
  /\ LET c == IF serving \in open \/ backlog = <<>> THEN serving ELSE Head(backlog)
     IN answer' = IF c \in open THEN [answer EXCEPT ![c] = response] ELSE answer
  /\ open' = open \ {serving}
  /\ serving' = NoClient /\ response' = NoClient
  /\ UNCHANGED <<request, sent, backlog, jobs, socketErrors, executed>>

\* The answer is written; to a client that hung up the write fails.
Respond ==
  /\ response # NoClient
  /\ answer' = IF serving \in open THEN [answer EXCEPT ![serving] = response] ELSE answer
  /\ open' = open \ {serving}
  /\ serving' = NoClient /\ response' = NoClient
  /\ UNCHANGED <<request, sent, backlog, jobs, socketErrors, executed>>

SocketNext ==
  \/ \E c \in Client : Connect(c) \/ SendLine(c) \/ HangUp(c)
  \/ Accept \/ Handle \/ Respond

SocketSpec == SocketInit /\ [][SocketNext]_socketVars

-----------------------------------------------------------------------------
\* A command takes effect once, and only if its whole line came from the
\* daemon's own user; a client is told of success only then.
ExecutedOwned == \A c \in Client :
  /\ executed[c] > 0 => c \in sent \ Foreign
  /\ answer[c] # NoClient /\ answer[c][1] = "ok" => executed[c] = 1

\* Who was told of its job, and who could not be
Told == {c \in Client : request[c].verb = "enqueue" /\ answer[c] # NoClient /\ answer[c][1] = "ok"}
Untold == {c \in Client : request[c].verb = "enqueue" /\ executed[c] = 1 /\ c \notin Told
             /\ (answer[c] \in {<<"gone">>, <<"error job-store">>} \/ serving = c)}

\* Every job is the one of another client's enqueue: a client that was told of a
\* job was told of its own, and a client that was not hung up before the answer
\* or got an error of the store.
EnqueuesTold ==
  /\ \A c \in Told : answer[c] \in {<<"ok", id, "queued">> : id \in DOMAIN jobs}
  /\ \E owner \in [DOMAIN jobs -> Told \cup Untold] :
       /\ \A i, j \in DOMAIN jobs : i # j => owner[i] # owner[j]
       /\ \A i \in DOMAIN jobs : owner[i] \in Told => answer[owner[i]] = <<"ok", i, "queued">>

\* The thread gets through its connections, and is held up by one thing only: a
\* client that neither ends its line nor hangs up, for which all others wait.
Answered == []<>((backlog = <<>> /\ serving = NoClient) \/ serving \in open \ sent)

-----------------------------------------------------------------------------
(* What a step preserves: a connection is in one place at a time, it is    *)
(* closed only with an answer, and each job has an owner that is told of   *)
(* it, unless it was being served or was lost.                             *)

Typed ==
  /\ request \in Requests /\ sent \subseteq Client /\ open \subseteq Client
  /\ backlog \in Seq(Client) /\ serving \in (Client \ Foreign) \cup {NoClient}
  /\ response \in Reply \cup {NoClient} /\ (response # NoClient => serving # NoClient)
  /\ answer \in [Client -> Reply \cup {NoClient}] /\ jobs \in Seq(JobState)
  /\ executed \in [Client -> {0, 1}]

\* The place of a connection
Waiting(c) == \E i \in 1 .. Len(backlog) : backlog[i] = c
Connected(c) == Waiting(c) \/ serving = c

Places ==
  /\ \A i, j \in 1 .. Len(backlog) : i # j => backlog[i] # backlog[j]
  /\ \A i \in 1 .. Len(backlog) : backlog[i] # serving
  /\ \A c \in Client : Waiting(c) \/ (serving = c /\ response = NoClient) => executed[c] = 0
  /\ \A c \in open : answer[c] = NoClient
  /\ \A c \in Client \ open : Connected(c) => answer[c] = <<"gone">>
  /\ \A c \in Client \ open : answer[c] = NoClient => executed[c] = 0

\* What c was told, or is about to be
Says(c, a) == a # NoClient /\ (answer[c] = a \/ (serving = c /\ response = a))

Executions == \A c \in Client :
  /\ executed[c] = 1 => c \in sent \ Foreign
  /\ \A a \in {answer[c], response} : Says(c, a) /\ a[1] = "ok" => executed[c] = 1
  /\ request[c].verb = "enqueue" /\ executed[c] = 1 /\ serving = c =>
       response[1] = "ok" \/ response = <<"error job-store">>

Apart(owner) == \A i, j \in 1 .. Len(jobs) : i # j => owner[i] # owner[j]

Earned(owner) == \A i \in 1 .. Len(jobs) :
  /\ request[owner[i]].verb = "enqueue" /\ executed[owner[i]] = 1
  /\ serving = owner[i] \/ answer[owner[i]] \in {<<"gone">>, <<"error job-store">>, <<"ok", i, "queued">>}

Named(owner) == \A c \in Client : \A a \in {answer[c], response} :
  request[c].verb = "enqueue" /\ Says(c, a) /\ a[1] = "ok" =>
    \E i \in 1 .. Len(jobs) : owner[i] = c /\ a = <<"ok", i, "queued">>

Owned == \E owner \in [1 .. Len(jobs) -> Client] : Apart(owner) /\ Earned(owner) /\ Named(owner)

SocketIInv == Typed /\ Places /\ Executions /\ Owned

\* A command is executed once, for its own user, and answered enqueues name jobs of
\* their own.
SocketServes == SocketTypeOK /\ ExecutedOwned /\ EnqueuesTold
=============================================================================
