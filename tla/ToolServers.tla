---------------------------- MODULE ToolServers -----------------------------
(***************************************************************************)
(* One external tool server and the client that the daemon keeps for it:   *)
(* an MCP server over stdio (mcp/client.py, mcp/transport.py) or over HTTP *)
(* (mcp/http_transport.py), or a language server (lsp/client.py,           *)
(* lsp/tools.py).  Start-up loads the client, every session registers its  *)
(* tools, the calls of a run use it, and the end of the daemon closes it.  *)
(*                                                                         *)
(* No task reads the pipe for the others: a request writes itself and then *)
(* reads whatever comes until its own answer does.  A language server's    *)
(* message is three reads (header, blank line, body); a stdio message is   *)
(* one line; HTTP has one exchange per message and no pipe.                *)
(***************************************************************************)
EXTENDS Integers, Sequences

CONSTANTS
  Calls,        \* the tool calls of the runs
  ServerIds,    \* ids that the server gives to requests of its own
  MaxSessions,  \* bound: sessions started
  MaxNotes,     \* bound: messages the server sends unasked
  MaxProcs      \* bound: server processes spawned

ASSUME ServersAssumption ==
  /\ MaxSessions \in Nat \ {0}
  /\ MaxNotes \in Nat
  /\ MaxProcs \in Nat \ {0}
  /\ "main" \notin Calls
  /\ ServerIds \subseteq Nat \ {0}

VARIABLES
  kind,         \* which client this is
  serial,       \* whether the calls of a run wait for each other
  phase,        \* where the daemon stands with this client
  sessions,     \* sessions started
  registered,   \* whether the session has the tools of the server
  initialized,  \* client._initialized
  cached,       \* client._tools_cache is filled
  nextId,       \* client._next_id
  proc,         \* client._proc: an index into procs, 0 for None
  procs,        \* the processes spawned so far
  notes,        \* messages sent unasked
  user,         \* what the main loop and each call do with the client
  cut           \* history: a read ended inside a message

vars == <<kind, serial, phase, sessions, registered, initialized, cached,
          nextId, proc, procs, notes, user, cut>>

Users == Calls \cup {"main"}

\* What a message is to the client that reads it: an answer with a result, one
\* that fails the request (an error, a result of the wrong shape), a
\* notification, a request of the server.
Answers == {"result", "refused"}
Unasked == {"note", "ask"}
Parts == {"line", "header", "blank", "body"}

\* One piece of the pipe, as the client reads it; for: whose request it answers.
Token == [part : Parts, id : Nat, kind : Answers \cup Unasked, for : Users]
None == [part |-> "line", id |-> 0, kind |-> "note", for |-> "main"]

Idle(u) == user[u].pc = "idle"
Quiet == \A u \in Users : Idle(u)

\* The messages of the two protocols that are answered.
Requests == {"initialize", "list", "call", "query"}
Handshake == <<"initialize", "initialized">>

\* What is kept of an answer: that there was one, of what kind, for whom.
Gist(t) == [t EXCEPT !.id = 0, !.part = "line"]

Rested(outcome) ==
  [pc |-> "idle", script |-> <<>>, id |-> 0, want |-> "line",
   outcome |-> outcome, got |-> None]

\* user u is to send the messages of script s, one after the other.
Began(s) == [Rested("none") EXCEPT !.pc = "write", !.script = s]

Init ==
  /\ kind \in {"stdio", "http", "lsp"}
  /\ serial \in BOOLEAN
  /\ phase \in IF kind = "lsp" THEN {"load"} ELSE {"load", "serve"}
  /\ sessions = 0
  /\ registered = FALSE
  /\ initialized = FALSE
  /\ cached = FALSE
  /\ nextId = 1
  /\ proc = 0
  /\ procs = <<>>
  /\ notes = 0
  /\ user = [u \in Users |-> IF u = "main" /\ phase = "load"
                             THEN Began(Handshake) ELSE Rested("unused")]
  /\ cut = FALSE

-----------------------------------------------------------------------------
(* Sessions, calls, the end of the daemon *)

\* Mutant of Registration: no handshake for a client that was handed in.
RegistrationBare == IF cached THEN <<>> ELSE <<"list">>

\* What register_mcp_tools asks of the server: the handshake unless it is done,
\* the tools unless they are cached.
Registration ==
  (IF initialized THEN <<>> ELSE Handshake)
    \o (IF cached THEN <<>> ELSE <<"list">>)

\* session.start: LSP tools are registered without a word to the server.  (A
\* session after one that has the tools finds all of it done.)
StartSession ==
  /\ phase = "serve" /\ Quiet /\ ~registered /\ sessions < MaxSessions
  /\ sessions' = sessions + 1
  /\ LET s == IF kind = "lsp" THEN <<>> ELSE Registration IN
     /\ registered' = (s = <<>>)
     /\ user' = [user EXCEPT !["main"] =
                   IF s = <<>> THEN Rested("ok") ELSE Began(s)]
  /\ UNCHANGED <<kind, serial, phase, initialized, cached, nextId, proc, procs,
                 notes, cut>>

\* What a call sends: an LSP tool opens the document before it asks.
CallScript == IF kind = "lsp" THEN <<"didOpen", "query">> ELSE <<"call">>

\* A tool of the server is called.
StartCall(c) ==
  /\ phase = "serve" /\ registered /\ Idle("main")
  /\ user[c].outcome = "unused"
  /\ serial => Quiet
  /\ user' = [user EXCEPT ![c] = Began(CallScript)]
  /\ UNCHANGED <<kind, serial, phase, sessions, registered, initialized,
                 cached, nextId, proc, procs, notes, cut>>

\* An LSP tool finds no such file, or no server for its language.
Unrouted(c) ==
  /\ kind = "lsp" /\ phase = "serve" /\ registered /\ Idle("main")
  /\ user[c].outcome = "unused"
  /\ serial => Quiet
  /\ user' = [user EXCEPT ![c] = Rested("failed")]
  /\ UNCHANGED <<kind, serial, phase, sessions, registered, initialized,
                 cached, nextId, proc, procs, notes, cut>>

\* close(): the process is terminated and reaped.
Closed ==
  /\ proc' = 0
  /\ procs' = IF proc = 0 THEN procs
              ELSE [procs EXCEPT ![proc] = [@ EXCEPT
                      !.alive = FALSE, !.todo = {}, !.unsent = <<>>, !.out = <<>>]]

\* The end of the daemon closes the MCP clients; no one closes the LSP clients.
Shutdown ==
  /\ phase = "serve" /\ Quiet
  /\ phase' = "shut"
  /\ IF kind = "lsp" THEN UNCHANGED <<proc, procs, initialized>>
                     ELSE Closed /\ initialized' = FALSE
  /\ UNCHANGED <<kind, serial, sessions, registered, cached, nextId, notes,
                 user, cut>>

-----------------------------------------------------------------------------
(* How the work of a user ends *)

\* What follows the end of u's work: start-up goes on with the client or gives
\* it up and closes it, a session has the tools or not.
Settle(u, outcome, token) ==
  /\ user' = [user EXCEPT ![u] = [Rested(outcome) EXCEPT !.got =
                   IF outcome = "ok" THEN Gist(token) ELSE None]]
  /\ IF u = "main" /\ phase = "load"
       THEN /\ phase' = IF outcome = "ok" THEN "serve" ELSE "shut"
            /\ UNCHANGED registered
       ELSE /\ registered' = IF u = "main" THEN outcome = "ok" ELSE registered
            /\ UNCHANGED phase

\* Start-up gave up: the client of a server that failed is closed.
GivesUp(u) == u = "main" /\ phase = "load"

\* Work that ends in failure.
Fail(u) ==
  /\ Settle(u, "failed", None)
  /\ cut' = (cut \/ user[u].want \in {"blank", "body"})
  /\ IF GivesUp(u) THEN Closed ELSE UNCHANGED <<proc, procs>>
  /\ UNCHANGED <<kind, serial, sessions, initialized, cached, nextId, notes>>

\* The message of the script that u sends or waits for is through.
Advance(u, token) ==
  LET rest == Tail(user[u].script) IN
  IF rest = <<>>
    THEN Settle(u, "ok", token)
    ELSE /\ user' = [user EXCEPT ![u] = [@ EXCEPT !.pc = "write",
                                                  !.script = rest, !.id = 0,
                                                  !.want = "line"]]
         /\ UNCHANGED <<phase, registered>>

-----------------------------------------------------------------------------
(* Writing *)

\* Mutant of NeedsProcess: start() does not look whether it has a process.
NeedsProcessAlways(u) == user[u].id = 0

NeedsProcess(u) == proc = 0

\* _ensure_started spawns the server.
Spawn(u) ==
  /\ user[u].pc = "write" /\ NeedsProcess(u) /\ Len(procs) < MaxProcs
  /\ procs' = Append(procs, [alive |-> TRUE, shook |-> FALSE, todo |-> {},
                             unsent |-> <<>>, out |-> <<>>])
  /\ proc' = Len(procs) + 1
  /\ UNCHANGED <<kind, serial, phase, sessions, registered, initialized,
                 cached, nextId, notes, user, cut>>

\* The executable is missing or cannot be launched.
SpawnFails(u) ==
  /\ user[u].pc = "write" /\ NeedsProcess(u) /\ kind # "http"
  /\ Fail(u)

\* The first read of a message.
FirstPart == IF kind = "lsp" THEN "header" ELSE "line"

\* Mutant of NextId: the counter is never moved.
NextIdStuck == nextId

\* _next_request_id
NextId == nextId + 1

\* One message is written.  What is written to a dead server is lost.
Write(u) ==
  /\ user[u].pc = "write" /\ proc # 0 /\ kind # "http"
  /\ LET m == Head(user[u].script) IN
     IF m \in Requests
       THEN /\ user' = [user EXCEPT ![u] =
                          [@ EXCEPT !.pc = "read", !.id = nextId,
                                    !.want = FirstPart]]
            /\ nextId' = NextId
            /\ procs' = IF procs[proc].alive
                        THEN [procs EXCEPT ![proc].todo = @ \cup {<<nextId, u>>}]
                        ELSE procs
            /\ UNCHANGED <<phase, registered>>
       ELSE /\ Advance(u, None)
            /\ procs' = IF m = "initialized"
                        THEN [procs EXCEPT ![proc].shook = TRUE] ELSE procs
            /\ UNCHANGED nextId
  /\ UNCHANGED <<kind, serial, sessions, initialized, cached, proc, notes, cut>>

\* drain() finds the pipe to a dead server broken: an exception.
WriteBreaks(u) ==
  /\ user[u].pc = "write" /\ proc # 0 /\ kind # "http"
  /\ ~procs[proc].alive
  /\ Fail(u)

-----------------------------------------------------------------------------
(* Reading from a pipe *)

Pipe == procs[proc].out
Reads(u) == user[u].pc = "read"

\* A line ends with a stdio line, a header or a blank line; a body has no end.
LineEnds == {k \in DOMAIN Pipe : Pipe[k].part # "body"}
\* The read that u is to make finds all its bytes in the pipe.
Ready(u) == IF user[u].want = "body" THEN Pipe # <<>> ELSE LineEnds # {}

\* The first k pieces of the pipe are read.
Drop(k) == procs' = [procs EXCEPT ![proc].out = SubSeq(@, k + 1, Len(@))]

\* Nothing to read: the reader waits, unless another one does.
Wait(u) ==
  /\ Reads(u) /\ ~Ready(u) /\ procs[proc].alive
  /\ \A v \in Users : user[v].pc # "waiting"
  /\ user' = [user EXCEPT ![u].pc = "waiting"]
  /\ UNCHANGED <<kind, serial, phase, sessions, registered, initialized,
                 cached, nextId, proc, procs, notes, cut>>

\* A StreamReader takes one waiting reader: the second has an exception.
Clash(u) ==
  /\ Reads(u) /\ ~Ready(u) /\ procs[proc].alive
  /\ \E v \in Users : user[v].pc = "waiting"
  /\ Fail(u)

\* The server is gone.
AtEof(u) ==
  /\ Reads(u) /\ ~Ready(u) /\ ~procs[proc].alive
  /\ Fail(u)

\* Mutant of MayTimeOut: the reads have no time limit.
MayTimeOutNever(u) == user[u].pc = "waiting" /\ user[u].id = 0

MayTimeOut(u) == user[u].pc = "waiting"

\* The time limit of one read, not of the request.
Timeout(u) == MayTimeOut(u) /\ Fail(u)

\* The run of the call is cancelled.
Abandon(u) ==
  /\ u \in Calls /\ user[u].pc \in {"waiting", "posted"}
  /\ Fail(u)

\* Mutant of NextPart: the blank line is not read.
NextPartShort(part) == IF part = "line" THEN "line" ELSE "body"

\* The read after the header, after the blank line.
NextPart(part) == IF part = "header" THEN "blank" ELSE "body"

\* A language server's header or blank line.
ReadPart(u) ==
  /\ Reads(u) /\ Ready(u)
  /\ user[u].want \in {"header", "blank"}
  /\ Pipe[1].part = user[u].want
  /\ Drop(1)
  /\ user' = [user EXCEPT ![u].want = NextPart(@)]
  /\ UNCHANGED <<kind, serial, phase, sessions, registered, initialized,
                 cached, nextId, proc, notes, cut>>

\* Something else stands where a header, a blank line or a body is due: the
\* line up to its end, or as many pieces as the length happens to cover.
Misread(u) ==
  /\ Reads(u) /\ Ready(u)
  /\ Pipe[1].part # user[u].want
  /\ \E k \in DOMAIN Pipe :
       /\ user[u].want # "body" =>
            k \in LineEnds /\ \A j \in LineEnds : k <= j
       /\ IF GivesUp(u) THEN Closed ELSE Drop(k) /\ UNCHANGED proc
  /\ Settle(u, "failed", None)
  /\ cut' = TRUE
  /\ UNCHANGED <<kind, serial, sessions, initialized, cached, nextId, notes>>

\* The last piece of a message is there.
Whole(u) ==
  /\ Reads(u) /\ Ready(u)
  /\ user[u].want \in {"line", "body"} /\ Pipe[1].part = user[u].want

\* Mutant of Matches: any answer will do.
MatchesAny(u, t) == t.kind \in Answers

\* The message carries the id of u's request.
Matches(u, t) == t.kind # "note" /\ t.id = user[u].id

\* Mutant of Skipped: what has arrived by then goes with the message.
SkippedAll == Len(Pipe)

\* How much is thrown away with a message for someone else.
Skipped == 1

\* A message that is not the answer to u's request.
Skip(u) ==
  /\ Whole(u)
  /\ ~Matches(u, Pipe[1])
  /\ Drop(Skipped)
  /\ user' = [user EXCEPT ![u].want = FirstPart]
  /\ UNCHANGED <<kind, serial, phase, sessions, registered, initialized,
                 cached, nextId, proc, notes, cut>>

\* How _parse_jsonrpc_result, LSPClient._request and the models take it: an MCP
\* message with neither result nor error is refused, in LSP its result is null.
Verdict(t) ==
  CASE t.kind = "result" -> "ok"
    [] t.kind = "refused" -> "failed"
    [] OTHER -> IF kind = "lsp" THEN "ok" ELSE "failed"

\* What the client makes of the message that carries u's id.
Accept(u, t) ==
  LET m == Head(user[u].script)
      ok == Verdict(t) = "ok" IN
  /\ IF ok THEN Advance(u, t) ELSE Settle(u, Verdict(t), t)
  /\ initialized' = (initialized \/ (ok /\ m = "initialize"))
  /\ cached' = (cached \/ (ok /\ m = "list"))
  /\ UNCHANGED <<kind, serial, sessions, nextId, notes, cut>>

\* The message with u's id is read.
Answered(u) ==
  /\ Whole(u)
  /\ Matches(u, Pipe[1])
  /\ Accept(u, Pipe[1])
  /\ IF GivesUp(u) /\ Verdict(Pipe[1]) # "ok" THEN Closed ELSE Drop(1) /\ UNCHANGED proc

-----------------------------------------------------------------------------
(* HTTP: one exchange per message *)

\* A message is posted.
Post(u) ==
  /\ user[u].pc = "write" /\ proc # 0 /\ kind = "http"
  /\ LET asks == Head(user[u].script) \in Requests IN
     /\ nextId' = IF asks THEN NextId ELSE nextId
     /\ user' = [user EXCEPT ![u] =
                   [@ EXCEPT !.pc = "posted", !.id = IF asks THEN nextId ELSE 0]]
  /\ UNCHANGED <<kind, serial, phase, sessions, registered, initialized,
                 cached, proc, procs, notes, cut>>

\* The exchange fails, runs out of time or ends with an error status.
PostFails(u) == user[u].pc = "posted" /\ Fail(u)

\* A notification is through, whatever the status of the response.
Accepted(u) ==
  /\ user[u].pc = "posted" /\ user[u].id = 0
  /\ Advance(u, None)
  /\ procs' = [procs EXCEPT ![proc].shook = TRUE]
  /\ UNCHANGED <<kind, serial, sessions, initialized, cached, nextId, proc,
                 notes, cut>>

\* _parse_streamable_response: of several data lines the last is the answer.
Replied(u) ==
  /\ user[u].pc = "posted" /\ user[u].id # 0
  /\ \E k \in Answers :
       LET t == [part |-> "line", id |-> user[u].id, kind |-> k, for |-> u] IN
       \E lines \in {<<t>>, <<None, t>>, <<t, None>>} :
         LET last == lines[Len(lines)] IN
         IF Matches(u, last)
           THEN /\ Accept(u, last)
                /\ IF GivesUp(u) /\ Verdict(last) # "ok" THEN Closed
                                                ELSE UNCHANGED <<proc, procs>>
           ELSE Fail(u)

-----------------------------------------------------------------------------
(* The server *)

\* A message as the client reads it: one line, or three pieces.
Framed(t) ==
  IF kind = "lsp"
    THEN <<[t EXCEPT !.part = "header"], [t EXCEPT !.part = "blank"],
           [t EXCEPT !.part = "body"]>>
    ELSE <<t>>

\* The server can start its next message.
CanSend(p) ==
  /\ kind # "http" /\ phase # "shut"
  /\ procs[p].alive /\ procs[p].unsent = <<>>

\* What an answer can be; all the same once no one reads for it.
AnswersTo(q) == IF user[q[2]].id = q[1] THEN Answers ELSE {"result"}

\* It answers one of the requests it has, in any order.
ServerAnswers(p) ==
  /\ CanSend(p)
  /\ \E q \in procs[p].todo : \E k \in AnswersTo(q) :
       procs' = [procs EXCEPT ![p].todo = @ \ {q},
                              ![p].unsent = Framed([part |-> "line", id |-> q[1],
                                                    kind |-> k, for |-> q[2]])]
  /\ UNCHANGED <<kind, serial, phase, sessions, registered, initialized,
                 cached, nextId, proc, notes, user, cut>>

\* It sends what no one asked for: a notification, or a request with an id of
\* its own numbering.
ServerSpeaks(p) ==
  /\ CanSend(p) /\ notes < MaxNotes
  /\ \E t \in {None} \cup {[None EXCEPT !.kind = "ask", !.id = i] : i \in ServerIds} :
       procs' = [procs EXCEPT ![p].unsent = Framed(t)]
  /\ notes' = notes + 1
  /\ UNCHANGED <<kind, serial, phase, sessions, registered, initialized,
                 cached, nextId, proc, user, cut>>

\* Whoever waits for the pipe looks again.
Wake == [u \in Users |-> IF user[u].pc = "waiting"
                         THEN [user[u] EXCEPT !.pc = "read"] ELSE user[u]]

\* Some of what was sent arrives.
Arrives(p) ==
  /\ phase # "shut"
  /\ \E k \in DOMAIN procs[p].unsent :
       procs' = [procs EXCEPT ![p].out = @ \o SubSeq(procs[p].unsent, 1, k),
                              ![p].unsent = SubSeq(@, k + 1, Len(@))]
  /\ user' = IF p = proc THEN Wake ELSE user
  /\ UNCHANGED <<kind, serial, phase, sessions, registered, initialized,
                 cached, nextId, proc, notes, cut>>

\* The server dies, perhaps inside a message.
Crash(p) ==
  /\ procs[p].alive /\ kind # "http" /\ phase # "shut"
  /\ procs' = [procs EXCEPT ![p].alive = FALSE, ![p].todo = {}, ![p].unsent = <<>>]
  /\ user' = IF p = proc THEN Wake ELSE user
  /\ UNCHANGED <<kind, serial, phase, sessions, registered, initialized,
                 cached, nextId, proc, notes, cut>>

-----------------------------------------------------------------------------
Done == phase = "shut" /\ UNCHANGED vars

\* A step of u that the event loop or a timer brings about.
Works(u) ==
  \/ Spawn(u) \/ SpawnFails(u) \/ Write(u) \/ WriteBreaks(u)
  \/ Wait(u) \/ Clash(u) \/ AtEof(u) \/ Timeout(u)
  \/ ReadPart(u) \/ Misread(u) \/ Skip(u) \/ Answered(u)
  \/ Post(u) \/ PostFails(u) \/ Accepted(u) \/ Replied(u)

Next ==
  \/ StartSession \/ Shutdown \/ Done
  \/ \E c \in Calls : StartCall(c) \/ Unrouted(c) \/ Abandon(c)
  \/ \E u \in Users : Works(u)
  \/ \E p \in DOMAIN procs :
       ServerAnswers(p) \/ ServerSpeaks(p) \/ Arrives(p) \/ Crash(p)

Spec == Init /\ [][Next]_vars /\ \A u \in Users : WF_vars(Works(u))

-----------------------------------------------------------------------------
(* Properties *)

\* The variables stay in their ranges, and no request that a server still has
\* carries an id that will be given again.
TypeOK ==
  /\ kind \in {"stdio", "http", "lsp"} /\ serial \in BOOLEAN
  /\ phase \in {"load", "serve", "shut"} /\ sessions \in 0..MaxSessions
  /\ registered \in BOOLEAN /\ initialized \in BOOLEAN /\ cached \in BOOLEAN
  /\ proc \in 0..Len(procs) /\ Len(procs) <= MaxProcs /\ notes \in 0..MaxNotes
  /\ \A p \in DOMAIN procs : \A q \in procs[p].todo : q[1] < nextId
  /\ \A u \in Users : /\ user[u].got \in Token /\ user[u].want \in Parts
                      /\ (user[u].script = <<>>) <=> Idle(u)
  /\ cut \in BOOLEAN

\* A request that succeeds has the answer to itself, not the late answer to one
\* that ran out of time or was cancelled, nor the answer to a concurrent one;
\* a request of the server is the exception (AnswersOnly).
OwnAnswer ==
  \A u \in Users : user[u].got.kind \in Answers => user[u].got.for = u

\* Between requests that wait for each other no answer is lost: as long as a
\* request reads and the server lives, its answer is due, under way or in the
\* pipe, whatever the messages in front of it are and whoever left them.
AnswerKept ==
  (serial /\ ~cut /\ proc # 0 /\ kind # "http") =>
    \A u \in Users :
      (user[u].pc \in {"read", "waiting"} /\ procs[proc].alive) =>
        \/ <<user[u].id, u>> \in procs[proc].todo
        \/ LET stream == procs[proc].out \o procs[proc].unsent IN
           \E k \in DOMAIN stream : /\ stream[k].id = user[u].id
                                    /\ stream[k].kind # "note"

\* Unless a read was given up inside a message, a language server's messages
\* are read from their first byte: what comes next in the pipe is what the
\* reader, or the next reader, expects.
InStep ==
  (kind = "lsp" /\ serial /\ ~cut /\ proc # 0) =>
    LET stream == procs[proc].out \o procs[proc].unsent
        readers == {u \in Users : user[u].pc \in {"read", "waiting"}} IN
    stream # <<>> =>
      IF readers = {} THEN stream[1].part = "header"
                      ELSE \A u \in readers : stream[1].part = user[u].want

\* A request gets its own answer, whole, whatever was left in the pipe.
AnswerLaw == OwnAnswer /\ AnswerKept /\ InStep

\* A living server is asked for tools and calls only after the whole handshake:
\* handed-in clients, failed sessions and retries included.  (Over HTTP it is
\* not so: the handshake counts as done before its notification, which can fail
\* while the server lives.)
Handshaken ==
  \A u \in Users :
    (/\ kind # "http" /\ proc # 0 /\ procs[proc].alive
     /\ user[u].pc \in {"read", "waiting"}
     /\ Head(user[u].script) \in Requests \ {"initialize"}) => procs[proc].shook

\* The daemon leaves no server running that it spawned, except a language
\* server in use; nor does it ever run two for one client.
NoOrphan ==
  LET running == {p \in DOMAIN procs : procs[p].alive} IN
  /\ \A p \in running : p = proc
  /\ (phase = "shut" /\ kind # "lsp") => running = {}

\* A server is used after its handshake, and none outlives its use.
ServerLaw == Handshaken /\ NoOrphan

\* What a request takes for its answer is an answer: violated, a request that
\* the server sends under the same id is taken for one.
AnswersOnly ==
  \A u \in Users :
    (kind = "lsp" /\ user[u].outcome = "ok") => user[u].got.kind # "ask"

\* Whatever the server does, a request ends: each read has a time limit, and
\* the messages of the server that could put it off are finitely many.
Returns == \A u \in Users : (user[u].pc # "idle") ~> (user[u].pc = "idle")
=============================================================================
