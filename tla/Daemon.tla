------------------------------- MODULE Daemon -------------------------------
(***************************************************************************)
(* nullain-agentd: one process, one stdin.  The main loop takes a line,    *)
(* serves it to its end and takes the next.  While it serves a message,    *)
(* the calls of the agent that need the user write a request and read the  *)
(* same stdin themselves; nothing says whose line is whose.  The agent is  *)
(* what the daemon sees of it: its requests, and its end.                  *)
(***************************************************************************)
EXTENDS Integers, Sequences, FiniteSets, SequencesExt

CONSTANTS
  Sessions,      \* session ids of the client
  MaxOpen,       \* calls of one batch that may need the user at once
  MaxRequests,   \* bound: requests of the calls
  MaxLines       \* bound: lines the client sends

ASSUME DaemonAssumption ==
  MaxOpen \in Nat \ {0} /\ MaxRequests \in Nat /\ MaxLines \in Nat

Kinds == {"permission", "question"}
Answers == {"grant", "deny", "answer"}

\* The answer that lets a call of each kind go on.
Right(kind) == IF kind = "permission" THEN "grant" ELSE "answer"

\* What the client may write: a line that does not parse is "junk", one that is
\* above the limit of the stream, or not UTF-8, is "long".
Line == [type : {"start", "message", "junk", "long"} \cup Answers,
         session : Sessions, of : Nat]

VARIABLES
  input,      \* lines written and not read
  closed,     \* whether the client has closed the stream
  waiting,    \* the reader that the stream will wake: at most one
  main,       \* where the main loop stands
  sessions,   \* ids of started sessions
  current,    \* the message that is served
  ended,      \* the messages that got a session.end, oldest first
  requests,   \* the requests of the calls, their outcome and the answer said
  sent,       \* how many lines the client has written
  messages,   \* how many of them were messages
  taken,      \* messages that a call took for its answer
  orderly     \* no line but one for each request was written during a run,
              \* and no two calls read at once

daemon == <<waiting, main, sessions, current, ended, requests, taken>>
client == <<sent, messages>>
vars == <<input, closed, daemon, client, orderly>>

\* The main loop as a reader; the others are the numbers of requests.
Main == 0
Reading == {r \in DOMAIN requests : requests[r].got = "nothing"}
               \cup (IF main = "read" THEN {Main} ELSE {})

Init ==
  /\ input = <<>> /\ closed = FALSE
  /\ waiting = {}
  /\ main = "read"
  /\ sessions = {} /\ current = 0
  /\ ended = <<>> /\ requests = <<>>
  /\ sent = 0 /\ messages = 0
  /\ taken = {} /\ orderly = TRUE

-----------------------------------------------------------------------------
(* The client *)

\* A line, or the end, wakes the reader that waits.
Wake == waiting' = {}

Write(line) ==
  /\ ~closed /\ sent < MaxLines
  /\ input' = Append(input, line)
  /\ Wake
  /\ sent' = sent + 1
  /\ UNCHANGED <<closed, main, sessions, current, ended, taken>>

\* A line that answers no request; in order when nothing is served.
Say(type, session) ==
  /\ Write([type |-> type, session |-> session,
            of |-> IF type = "message" THEN messages + 1 ELSE 0])
  /\ messages' = messages + (IF type = "message" THEN 1 ELSE 0)
  /\ orderly' = (orderly /\ main = "read" /\ input = <<>>)
  /\ UNCHANGED requests

\* The one line that answers a request; it may fail to parse.
Reply(r, type) ==
  /\ requests[r].said = "nothing"
  /\ type \in {Right(requests[r].kind), "junk"} \/ (type = "deny" /\ requests[r].kind = "permission")
  /\ \E s \in Sessions : Write([type |-> type, session |-> s, of |-> r])
  /\ requests' = [requests EXCEPT ![r].said = type]
  /\ UNCHANGED <<messages, orderly>>

Close ==
  /\ ~closed
  /\ closed' = TRUE
  /\ Wake
  /\ UNCHANGED <<input, main, sessions, current, ended, requests, taken, client, orderly>>

-----------------------------------------------------------------------------
(* The main loop *)

\* Mutant of Rest: the line is looked at and not taken.
RestUnread == input

\* readline takes the first line, whoever reads.
Rest == Tail(input)

Turn(to) ==
  /\ main' = to
  /\ UNCHANGED <<input, closed, waiting, sessions, current, ended, requests, taken, client, orderly>>

MainWaits ==
  /\ main = "read" /\ input = <<>> /\ ~closed
  /\ waiting = {} /\ waiting' = {Main}
  /\ UNCHANGED <<input, closed, main, sessions, current, ended, requests, taken, client, orderly>>

\* A line too long and a second reader raise out of the loop.
MainFails ==
  /\ main = "read"
  /\ \/ input # <<>> /\ Head(input).type = "long"
     \/ input = <<>> /\ ~closed /\ waiting \ {Main} # {}
  /\ Turn("crashed")

MainEnds ==
  /\ main = "read" /\ input = <<>> /\ closed
  /\ Turn("closed")

\* session.start; a line that does not parse gets an error envelope, an
\* answer nobody waits for is passed over.
Skim ==
  /\ main = "read" /\ input # <<>>
  /\ Head(input).type \notin {"message", "long"}
  /\ input' = Rest
  /\ sessions' = sessions \cup (IF Head(input).type = "start" THEN {Head(input).session} ELSE {})
  /\ UNCHANGED <<closed, waiting, main, current, ended, requests, taken, client, orderly>>

\* Mutants of Refused: the envelope does not name its message; a message of an
\* unknown session is passed over.
RefusedUnnamed(n) == ended' = Append(ended, 0)
RefusedSilently(n) == UNCHANGED ended

\* The session.end with an error for a message of an unknown session.
Refused(n) == ended' = Append(ended, n)

\* user.message.
Message ==
  /\ main = "read" /\ input # <<>> /\ Head(input).type = "message"
  /\ input' = Rest
  /\ IF Head(input).session \in sessions
       THEN main' = "load" /\ current' = Head(input).of /\ UNCHANGED ended
       ELSE Refused(Head(input).of) /\ UNCHANGED <<main, current>>
  /\ UNCHANGED <<closed, waiting, sessions, requests, taken, client, orderly>>

\* The history of the session is loaded, and repaired; this is outside the
\* handler's try.
LoadSession == main = "load" /\ Turn("serve")
LoadFails == main = "load" /\ Turn("crashed")

\* The run returns or raises: when it raises, calls of its batch may go on.
EndRun ==
  /\ main = "serve"
  /\ main' = "read"
  /\ ended' = Append(ended, current)
  /\ orderly' = (orderly /\ Reading = {})
  /\ UNCHANGED <<input, closed, waiting, sessions, current, requests, taken, client>>

-----------------------------------------------------------------------------
(* The calls: permission_callback and ask_user_callback *)

\* Mutant of Serves: the type of the line is not looked at.
ServesUnlessDenied(kind, type) == type # "deny"

\* The line lets the call go on.
Serves(kind, type) == type = Right(kind)

\* Mutant of AtEnd: the end of the stream is not told from an empty one.
AtEndNever == FALSE

\* The stream is at its end.
AtEnd == input = <<>> /\ closed

\* What a call that reads gets: the first line is its answer, whatever it
\* answers; at the end of the stream, or when another reader waits, it is
\* refused; otherwise it waits.
Found(kind) ==
  CASE input # <<>> -> IF Serves(kind, Head(input).type) THEN "served" ELSE "refused"
    [] AtEnd \/ (input = <<>> /\ waiting # {}) -> "refused"
    [] OTHER -> "nothing"

\* Mutant of Left: a call looks at the line and leaves it to the next reader.
LeftUnread == input

\* What a call leaves of the input.
Left == IF input = <<>> THEN input ELSE Rest

ReadLine(r, kind) ==
  /\ input' = Left
  /\ waiting' = IF Found(kind) = "nothing" THEN {r} ELSE waiting
  /\ taken' = IF input # <<>> /\ Head(input).type = "message"
                THEN taken \cup {Head(input).of} ELSE taken
  /\ UNCHANGED <<closed, main, sessions, current, ended, client>>

\* A call writes its request and reads.
Ask(kind) ==
  /\ main = "serve"
  /\ Len(requests) < MaxRequests /\ Cardinality(Reading) < MaxOpen
  /\ ReadLine(Len(requests) + 1, kind)
  /\ requests' = Append(requests, [kind |-> kind, said |-> "nothing", got |-> Found(kind)])
  /\ orderly' = (orderly /\ Reading = {} /\ input = <<>>)

\* A reader that was woken reads again.
Resume(r) ==
  /\ r \notin waiting
  /\ ReadLine(r, requests[r].kind)
  /\ requests' = [requests EXCEPT ![r].got = Found(requests[r].kind)]
  /\ UNCHANGED orderly

-----------------------------------------------------------------------------
Client ==
  \/ \E type \in {"start", "message", "junk", "long"}, s \in Sessions : Say(type, s)
  \/ \E r \in DOMAIN requests, type \in Answers \cup {"junk"} : Reply(r, type)
  \/ Close

Loop == LoadSession \/ MainWaits \/ MainFails \/ MainEnds \/ Skim \/ Message \/ EndRun

\* The process is gone when the main loop has stopped.
Calls == main \notin {"closed", "crashed"} /\ \E r \in Reading \ {Main} : Resume(r)

Next ==
  \/ Client \/ Loop \/ LoadFails
  \/ \E kind \in Kinds : Ask(kind)
  \/ Calls

Spec == Init /\ [][Next]_vars

\* The event loop runs whatever can run, and a run whose calls have all got
\* an answer ends.
FairSpec == Spec /\ WF_vars(Loop /\ (main = "serve" => Reading = {})) /\ WF_vars(Calls)

-----------------------------------------------------------------------------
(* Properties *)

\* Every variable has its type; only one that reads is waited for.
TypeOK ==
  /\ input \in Seq(Line) /\ closed \in BOOLEAN
  /\ main \in {"read", "load", "serve", "closed", "crashed"}
  /\ waiting \subseteq Reading /\ Cardinality(waiting) <= 1
  /\ sessions \subseteq Sessions /\ current \in 0..messages
  /\ ended \in Seq(1..messages) /\ taken \subseteq 1..messages
  /\ requests \in Seq([kind : Kinds, said : {"nothing", "junk"} \cup Answers,
                       got : {"nothing", "served", "refused"}])
  /\ orderly \in BOOLEAN

Served == {r \in DOMAIN requests : requests[r].got = "served"}
Answered(r) == requests[r].said = Right(requests[r].kind)

\* A call that needs the user goes on only when the client has answered that
\* very request, as the documentation of the daemon says.
OnlyMatching == \A r \in Served : Answered(r)

\* With a client that writes one line for each request and nothing else while
\* a message is served, and a batch that asks one thing at a time, a call goes
\* on exactly when the client has answered its request.
OrderlyMatching ==
  orderly => \A r \in DOMAIN requests :
               requests[r].got # "nothing" => (r \in Served <=> Answered(r))

\* Whoever takes an answer, each lets one call go on at most.
GrantsSpent ==
  \A kind \in Kinds :
    Cardinality({r \in Served : requests[r].kind = kind})
      <= Cardinality({r \in DOMAIN requests : requests[r].said = Right(kind)})

\* What a call is granted comes from an answer to it, or from one that is used
\* up with it.
GrantLaw == OrderlyMatching /\ GrantsSpent

\* When the daemon has closed, every message has got its session.end, except
\* those that a call took for its answer; an orderly client loses none.
NoneForgotten ==
  /\ main = "closed" => ToSet(ended) \cup taken = 1..messages
  /\ orderly => taken = {}

\* No message is answered twice.
AnsweredOnce == \A i, j \in DOMAIN ended : ended[i] = ended[j] => i = j

\* Every message gets its one session.end.
MessageLaw == NoneForgotten /\ AnsweredOnce

\* A client that closes the stream is enough for the daemon to end, whatever
\* its calls wait for.
Ends == closed ~> main \in {"closed", "crashed"}
=============================================================================
