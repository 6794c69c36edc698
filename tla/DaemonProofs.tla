---------------------------- MODULE DaemonProofs ----------------------------
(***************************************************************************)
(* What nullain-agentd keeps of its one stdin, for any number of sessions, *)
(* requests and lines: no message is lost or answered twice, and no answer *)
(* of the client lets two calls go on.                                     *)
(***************************************************************************)
EXTENDS Daemon, FiniteSetTheorems, SequenceTheorems, TLAPS

-----------------------------------------------------------------------------
(* The inductive invariant *)

\* A line or the end wakes the reader that waits, and only one may wait.
WakeInv ==
  /\ waiting = {} \/ \E r \in Reading : waiting = {r}
  /\ input # <<>> \/ closed => waiting = {}
  /\ messages \in Nat

\* What the unread lines of a type are of: requests, or messages.
OfType(type) == {input[i].of : i \in {j \in DOMAIN input : input[j].type = type}}

\* The lines that matter are of different ones, and each answer is the one that
\* its request got.
LineInv ==
  /\ \A type \in Answers \cup {"message"} : \A i, j \in DOMAIN input :
       input[i].type = type /\ input[j].type = type /\ input[i].of = input[j].of => i = j
  /\ \A type \in Answers : \A r \in OfType(type) :
       r \in DOMAIN requests /\ requests[r].said = type

\* The calls of a kind that went on, the answers of its type that were said,
\* and those of them that are not read yet.
ServedOf(kind) == {r \in Served : requests[r].kind = kind}
SaidOf(kind) == {r \in DOMAIN requests : requests[r].said = Right(kind)}
PendingOf(kind) == OfType(Right(kind))

\* What is left of the answers is enough for who is still to read them.
SpentInv ==
  \A kind \in Kinds :
    Cardinality(ServedOf(kind)) + Cardinality(PendingOf(kind)) <= Cardinality(SaidOf(kind))

\* The messages that are not read yet.
Unread == OfType("message")
Serving == main \in {"load", "serve"}

\* A message is in one place: unread, served, ended, or taken for an answer.
PlaceInv ==
  /\ Unread \subseteq 1..messages
  /\ Unread \cap (ToSet(ended) \cup taken) = {} /\ ToSet(ended) \cap taken = {}
  /\ Serving => current \in (1..messages) \ (Unread \cup ToSet(ended) \cup taken)

\* And in none of them only if the daemon has crashed.
FoundInv ==
  /\ main # "crashed" =>
       1..messages \subseteq
         Unread \cup ToSet(ended) \cup taken \cup (IF Serving THEN {current} ELSE {})
  /\ main = "closed" => input = <<>> /\ closed

\* An orderly client: while a call reads, the input is what it has to read, and
\* while none does there is nothing to read but for the main loop.
OrderlyInv ==
  orderly =>
    /\ taken = {} /\ Len(input) <= 1
    /\ Serving /\ Reading = {} => input = <<>>
    /\ \A r \in DOMAIN requests :
         IF requests[r].got = "nothing"
           THEN /\ main = "serve" /\ Reading = {r}
                /\ requests[r].said = "nothing" => input = <<>>
                /\ requests[r].said # "nothing" =>
                     Len(input) = 1 /\ input[1].type = requests[r].said /\ input[1].of = r
           ELSE /\ requests[r].got = "served" <=> Answered(r)
                /\ requests[r].said = "nothing" => closed

DaemonInv ==
  TypeOK /\ WakeInv /\ LineInv /\ SpentInv /\ PlaceInv /\ FoundInv /\ AnsweredOnce /\ OrderlyInv

-----------------------------------------------------------------------------
(* The lines and the requests *)

Request == [kind : Kinds, said : {"nothing", "junk"} \cup Answers,
            got : {"nothing", "served", "refused"}]

\* The two sequences, as the provers need them.
LEMMA Typed ==
  ASSUME TypeOK
  PROVE  /\ input \in Seq(Line) /\ Len(input) \in Nat /\ DOMAIN input = 1..Len(input)
         /\ \A i \in DOMAIN input : input[i] \in Line
         /\ input # <<>> => Len(input) > 0 /\ Head(input) = input[1] /\ 1 \in DOMAIN input
         /\ input = <<>> <=> Len(input) = 0
         /\ requests \in Seq(Request) /\ Len(requests) \in Nat /\ DOMAIN requests = 1..Len(requests)
         /\ \A r \in DOMAIN requests :
              /\ requests[r].kind \in Kinds /\ requests[r].said \in {"nothing", "junk"} \cup Answers
              /\ requests[r].got \in {"nothing", "served", "refused"}
<1>1. input \in Seq(Line) /\ requests \in Seq(Request)
  BY DEF TypeOK, Request
<1>2. /\ Len(input) \in Nat /\ DOMAIN input = 1..Len(input)
      /\ Len(requests) \in Nat /\ DOMAIN requests = 1..Len(requests)
      /\ \A i \in 1..Len(input) : input[i] \in Line
      /\ \A r \in 1..Len(requests) : requests[r] \in Request
  BY <1>1, LenProperties, ElementOfSeq
<1>3. input = <<>> <=> Len(input) = 0
  BY <1>1, EmptySeq
<1>4. \A r \in DOMAIN requests :
        /\ requests[r].kind \in Kinds /\ requests[r].said \in {"nothing", "junk"} \cup Answers
        /\ requests[r].got \in {"nothing", "served", "refused"}
  BY <1>2 DEF Request
<1> QED BY <1>1, <1>2, <1>3, <1>4

\* A line is written,
LEMMA Appends ==
  ASSUME TypeOK, NEW line \in Line, input' = Append(input, line)
  PROVE  /\ input' \in Seq(Line) /\ Len(input') = Len(input) + 1 /\ input' # <<>>
         /\ DOMAIN input' = 1..(Len(input) + 1)
         /\ \A i \in DOMAIN input : input'[i] = input[i]
         /\ input'[Len(input) + 1] = line
         /\ \A type : OfType(type)' = OfType(type) \cup (IF line.type = type THEN {line.of} ELSE {})
<1>1. input \in Seq(Line) /\ Len(input) \in Nat /\ DOMAIN input = 1..Len(input)
  BY Typed
<1>2. /\ input' \in Seq(Line) /\ Len(input') = Len(input) + 1 /\ input' # <<>>
      /\ \A i \in 1..Len(input) : input'[i] = input[i]
      /\ input'[Len(input) + 1] = line
  BY <1>1, AppendProperties
<1>3. DOMAIN input' = 1..(Len(input) + 1)
  BY <1>2, LenProperties
<1>4. ASSUME NEW type
      PROVE  OfType(type)' = OfType(type) \cup (IF line.type = type THEN {line.of} ELSE {})
  <2> DEFINE new == IF line.type = type THEN {line.of} ELSE {}
  <2>1. ASSUME NEW x \in OfType(type)' PROVE x \in OfType(type) \cup new
    <3>1. PICK i \in DOMAIN input' : input'[i].type = type /\ x = input'[i].of
      BY <2>1 DEF OfType
    <3>2. CASE i \in DOMAIN input
      BY <1>1, <1>2, <3>1, <3>2 DEF OfType
    <3>3. CASE i = Len(input) + 1
      BY <1>2, <3>1, <3>3
    <3> QED BY <1>1, <1>3, <3>2, <3>3
  <2>2. ASSUME NEW x \in OfType(type) PROVE x \in OfType(type)'
    <3>1. PICK i \in DOMAIN input : input[i].type = type /\ x = input[i].of
      BY <2>2 DEF OfType
    <3>2. i \in DOMAIN input' /\ input'[i] = input[i]
      BY <1>1, <1>2, <1>3, <3>1
    <3> QED BY <3>1, <3>2 DEF OfType
  <2>3. ASSUME line.type = type PROVE line.of \in OfType(type)'
    <3>1. Len(input) + 1 \in DOMAIN input'
      BY <1>1, <1>3
    <3> QED BY <1>2, <2>3, <3>1 DEF OfType
  <2> QED BY <2>1, <2>2, <2>3
<1> QED BY <1>1, <1>2, <1>3, <1>4

\* and taken, by whoever reads.
LEMMA Taken ==
  ASSUME TypeOK, LineInv, input # <<>>, input' = Tail(input)
  PROVE  /\ input' \in Seq(Line) /\ Len(input') = Len(input) - 1
         /\ DOMAIN input' = 1..(Len(input) - 1)
         /\ \A i \in DOMAIN input' : i + 1 \in DOMAIN input /\ input'[i] = input[i + 1]
         /\ \A type \in Answers \cup {"message"} :
              OfType(type)' = OfType(type) \ (IF Head(input).type = type THEN {Head(input).of} ELSE {})
         /\ Head(input).of \in OfType(Head(input).type)
         /\ Head(input).type = "message" => Head(input).of \in Unread
<1>1. /\ input \in Seq(Line) /\ Len(input) \in Nat /\ DOMAIN input = 1..Len(input)
      /\ Len(input) > 0 /\ Head(input) = input[1] /\ 1 \in DOMAIN input
  BY Typed
<1>2. /\ input' \in Seq(Line) /\ Len(input') = Len(input) - 1
      /\ \A i \in 1..Len(input') : input'[i] = input[i + 1]
  BY <1>1, HeadTailProperties
<1>3. DOMAIN input' = 1..(Len(input) - 1)
  BY <1>2, LenProperties
<1>4. \A i \in DOMAIN input' : i + 1 \in DOMAIN input /\ input'[i] = input[i + 1]
  BY <1>1, <1>2, <1>3
<1>5. Head(input).of \in OfType(Head(input).type)
  BY <1>1 DEF OfType
<1>6. ASSUME NEW type \in Answers \cup {"message"}
      PROVE  OfType(type)' = OfType(type) \ (IF Head(input).type = type THEN {Head(input).of} ELSE {})
  <2>1. \A i, j \in DOMAIN input :
          input[i].type = type /\ input[j].type = type /\ input[i].of = input[j].of => i = j
    BY DEF LineInv
  <2>2. ASSUME NEW x \in OfType(type)'
        PROVE  x \in OfType(type) /\ ~(Head(input).type = type /\ x = Head(input).of)
    <3>1. PICK i \in DOMAIN input' : input'[i].type = type /\ x = input'[i].of
      BY <2>2 DEF OfType
    <3>2. i + 1 \in DOMAIN input /\ input[i + 1].type = type /\ x = input[i + 1].of /\ i + 1 # 1
      BY <1>3, <1>4, <3>1
    <3> QED BY <1>1, <2>1, <3>2 DEF OfType
  <2>3. ASSUME NEW x \in OfType(type), ~(Head(input).type = type /\ x = Head(input).of)
        PROVE  x \in OfType(type)'
    <3>1. PICK i \in DOMAIN input : input[i].type = type /\ x = input[i].of
      BY <2>3 DEF OfType
    <3>2. i # 1
      BY <1>1, <2>3, <3>1
    <3>3. i - 1 \in DOMAIN input' /\ (i - 1) + 1 = i
      BY <1>1, <1>3, <3>2
    <3>4. input'[i - 1] = input[i]
      BY <1>4, <3>3
    <3> QED BY <3>1, <3>3, <3>4 DEF OfType
  <2> QED BY <2>2, <2>3
<1> QED BY <1>1, <1>2, <1>3, <1>4, <1>5, <1>6 DEF Unread

\* A field of a request changes: what was said,
LEMMA Said ==
  ASSUME TypeOK, NEW r \in DOMAIN requests, NEW type \in {"nothing", "junk"} \cup Answers,
         requests' = [requests EXCEPT ![r].said = type]
  PROVE  /\ requests' \in Seq(Request) /\ DOMAIN requests' = DOMAIN requests
         /\ \A q \in DOMAIN requests :
              /\ requests'[q].kind = requests[q].kind /\ requests'[q].got = requests[q].got
              /\ requests'[q].said = IF q = r THEN type ELSE requests[q].said
<1>1. /\ Len(requests) \in Nat /\ DOMAIN requests = 1..Len(requests)
      /\ \A q \in 1..Len(requests) : requests[q] \in Request
  BY Typed, ElementOfSeq
<1>2. /\ DOMAIN requests' = 1..Len(requests)
      /\ \A q \in DOMAIN requests :
           requests'[q] = IF q = r THEN [requests[q] EXCEPT !.said = type] ELSE requests[q]
  BY <1>1
<1>3. \A q \in DOMAIN requests :
        /\ requests'[q] \in Request
        /\ requests'[q].kind = requests[q].kind /\ requests'[q].got = requests[q].got
        /\ requests'[q].said = IF q = r THEN type ELSE requests[q].said
  BY <1>1, <1>2 DEF Request
<1>4. requests' = [q \in 1..Len(requests) |-> requests'[q]]
  BY <1>2
<1>5. requests' \in [1..Len(requests) -> Request]
  BY <1>1, <1>3, <1>4
<1> QED BY <1>1, <1>2, <1>3, <1>5

\* or what the call got;
LEMMA Got ==
  ASSUME TypeOK, NEW r \in DOMAIN requests, NEW found \in {"nothing", "served", "refused"},
         requests' = [requests EXCEPT ![r].got = found]
  PROVE  /\ requests' \in Seq(Request) /\ DOMAIN requests' = DOMAIN requests
         /\ \A q \in DOMAIN requests :
              /\ requests'[q].kind = requests[q].kind /\ requests'[q].said = requests[q].said
              /\ requests'[q].got = IF q = r THEN found ELSE requests[q].got
<1>1. /\ Len(requests) \in Nat /\ DOMAIN requests = 1..Len(requests)
      /\ \A q \in 1..Len(requests) : requests[q] \in Request
  BY Typed, ElementOfSeq
<1>2. /\ DOMAIN requests' = 1..Len(requests)
      /\ \A q \in DOMAIN requests :
           requests'[q] = IF q = r THEN [requests[q] EXCEPT !.got = found] ELSE requests[q]
  BY <1>1
<1>3. \A q \in DOMAIN requests :
        /\ requests'[q] \in Request
        /\ requests'[q].kind = requests[q].kind /\ requests'[q].said = requests[q].said
        /\ requests'[q].got = IF q = r THEN found ELSE requests[q].got
  BY <1>1, <1>2 DEF Request
<1>4. requests' = [q \in 1..Len(requests) |-> requests'[q]]
  BY <1>2
<1>5. requests' \in [1..Len(requests) -> Request]
  BY <1>1, <1>3, <1>4
<1> QED BY <1>1, <1>2, <1>3, <1>5

\* a request is new.
LEMMA Joins ==
  ASSUME TypeOK, NEW kind \in Kinds, NEW found \in {"nothing", "served", "refused"},
         requests' = Append(requests, [kind |-> kind, said |-> "nothing", got |-> found])
  PROVE  /\ requests' \in Seq(Request) /\ DOMAIN requests' = DOMAIN requests \cup {Len(requests) + 1}
         /\ Len(requests) + 1 \notin DOMAIN requests
         /\ \A q \in DOMAIN requests : requests'[q] = requests[q]
         /\ requests'[Len(requests) + 1] = [kind |-> kind, said |-> "nothing", got |-> found]
<1>1. requests \in Seq(Request) /\ Len(requests) \in Nat /\ DOMAIN requests = 1..Len(requests)
  BY Typed
<1>2. [kind |-> kind, said |-> "nothing", got |-> found] \in Request
  BY DEF Request
<1>3. /\ requests' \in Seq(Request) /\ Len(requests') = Len(requests) + 1
      /\ \A q \in 1..Len(requests) : requests'[q] = requests[q]
      /\ requests'[Len(requests) + 1] = [kind |-> kind, said |-> "nothing", got |-> found]
  BY <1>1, <1>2, AppendProperties
<1>4. DOMAIN requests' = 1..(Len(requests) + 1)
  BY <1>3, LenProperties
<1> QED BY <1>1, <1>3, <1>4

\* What a call finds.
LEMMA Finds ==
  ASSUME TypeOK, NEW kind \in Kinds
  PROVE  /\ Found(kind) \in {"nothing", "served", "refused"}
         /\ Found(kind) = "nothing" <=> input = <<>> /\ ~closed /\ waiting = {}
         /\ Found(kind) = "served" <=> input # <<>> /\ Head(input).type = Right(kind)
<1>1. CASE input # <<>>
  BY <1>1 DEF Found, Serves, AtEnd
<1>2. CASE input = <<>>
  BY <1>2 DEF Found, Serves, AtEnd
<1> QED BY <1>1, <1>2

-----------------------------------------------------------------------------
(* Who reads, and who waits *)

LineOK == TypeOK /\ WakeInv /\ LineInv /\ PlaceInv

\* A call that reads is no request of the main loop's number.
LEMMA Readers ==
  ASSUME TypeOK
  PROVE  /\ Main \notin DOMAIN requests
         /\ \A r \in Reading \ {Main} : r \in DOMAIN requests /\ requests[r].got = "nothing"
<1>1. Main \notin DOMAIN requests
  BY Typed DEF Main
<1> QED BY <1>1 DEF Reading

\* Who reads after a step that leaves the requests as they are.
LEMMA ReadingTurns ==
  ASSUME TypeOK, DOMAIN requests' = DOMAIN requests,
         \A r \in DOMAIN requests : requests'[r].got = requests[r].got
  PROVE  /\ main' = main => Reading' = Reading
         /\ main' # "read" => Reading' = Reading \ {Main}
         /\ main' = "read" => Reading' = Reading \cup {Main}
<1>1. Main \notin DOMAIN requests
  BY Readers
<1> QED BY <1>1 DEF Reading

\* Who reads after a call has asked, or has resumed.
LEMMA ReadingAsks ==
  ASSUME TypeOK, NEW kind \in Kinds, Ask(kind)
  PROVE  /\ Reading' = Reading \cup (IF Found(kind) = "nothing" THEN {Len(requests) + 1} ELSE {})
         /\ Main \notin Reading
<1>1. /\ requests' = Append(requests, [kind |-> kind, said |-> "nothing", got |-> Found(kind)])
      /\ main = "serve" /\ main' = main
  BY DEF Ask, ReadLine
<1>2. /\ DOMAIN requests' = DOMAIN requests \cup {Len(requests) + 1}
      /\ \A q \in DOMAIN requests : requests'[q] = requests[q]
      /\ Len(requests) + 1 \notin DOMAIN requests
      /\ requests'[Len(requests) + 1].got = Found(kind)
  BY <1>1, Finds, Joins
<1>3. Main \notin Reading
  BY <1>1, Readers DEF Reading
<1> QED BY <1>1, <1>2, <1>3 DEF Reading

\* Who stops when it has found an answer or an error.
LEMMA ReadingResumes ==
  ASSUME TypeOK, NEW r \in Reading \ {Main}, Resume(r)
  PROVE  Reading' = IF Found(requests[r].kind) = "nothing" THEN Reading ELSE Reading \ {r}
<1>a. r \in DOMAIN requests /\ requests[r].got = "nothing" /\ requests[r].kind \in Kinds /\ r # Main
  BY Readers, Typed
<1>1. requests' = [requests EXCEPT ![r].got = Found(requests[r].kind)] /\ main' = main
  BY DEF Resume, ReadLine
<1>2. /\ DOMAIN requests' = DOMAIN requests
      /\ \A q \in DOMAIN requests :
            requests'[q].got = IF q = r THEN Found(requests[r].kind) ELSE requests[q].got
  BY <1>a, <1>1, Finds, Got
<1> QED BY <1>a, <1>1, <1>2 DEF Reading

\* What a call does to the stream.
LEMMA Reads ==
  ASSUME LineOK, NEW r, NEW kind \in Kinds, ReadLine(r, kind)
  PROVE  /\ input = <<>> => input' = input /\ taken' = taken
         /\ input # <<>> => input' = Tail(input) /\ waiting = {} /\ waiting' = {}
         /\ input' \in Seq(Line)
         /\ \/ waiting' = waiting /\ Found(kind) # "nothing"
            \/ waiting' = {r} /\ Found(kind) = "nothing" /\ ~closed /\ waiting = {} /\ input' = <<>>
         /\ UNCHANGED <<closed, main, sessions, current, ended, client>>
<1>a. TypeOK /\ WakeInv /\ LineInv
  BY DEF LineOK
<1>1. CASE input = <<>>
  <2>1. input' = input /\ taken' = taken
    BY <1>1 DEF ReadLine, Left
  <2> QED BY <1>a, <1>1, <2>1, Finds, Typed DEF ReadLine
<1>2. CASE input # <<>>
  <2>1. input' = Tail(input) /\ waiting = {}
    BY <1>a, <1>2 DEF ReadLine, Left, Rest, WakeInv
  <2>2. input' \in Seq(Line)
    BY <1>a, <1>2, <2>1, Taken
  <2> QED BY <1>a, <1>2, <2>1, <2>2, Finds DEF ReadLine
<1> QED BY <1>1, <1>2

\* At most one reader waits, and never when there is something to wake it.
LEMMA WakeStep == LineOK /\ [Next]_vars => WakeInv'
<1> SUFFICES ASSUME LineOK, [Next]_vars PROVE WakeInv'
  OBVIOUS
<1>a. /\ TypeOK /\ WakeInv /\ LineInv
      /\ waiting = {} \/ \E r \in Reading : waiting = {r}
      /\ input # <<>> \/ closed => waiting = {}
      /\ messages \in Nat
  BY DEF LineOK, WakeInv
<1>1. CASE UNCHANGED vars
  BY <1>a, <1>1 DEF vars, daemon, client, WakeInv, Reading
<1>2. ASSUME NEW type, NEW s \in Sessions, Say(type, s) PROVE WakeInv'
  BY <1>a, <1>2 DEF Say, Write, Wake, WakeInv
<1>3. ASSUME NEW r, NEW type, Reply(r, type) PROVE WakeInv'
  BY <1>a, <1>3 DEF Reply, Write, Wake, WakeInv
<1>4. CASE Close
  BY <1>a, <1>4 DEF Close, Wake, client, WakeInv
<1>5. CASE MainWaits
  <2>1. Main \in Reading /\ Reading' = Reading
    BY <1>a, <1>5, ReadingTurns DEF MainWaits, Reading
  <2> QED BY <1>a, <1>5, <2>1 DEF MainWaits, client, WakeInv
<1>6. CASE LoadSession \/ LoadFails \/ MainFails \/ MainEnds
  <2>1. Main \notin waiting
    <3>1. CASE LoadSession \/ LoadFails
      BY <1>a, <3>1, Readers DEF LoadSession, LoadFails, Reading
    <3>2. CASE MainFails \/ MainEnds
      BY <1>a, <3>2 DEF MainFails, MainEnds
    <3> QED BY <1>6, <3>1, <3>2
  <2>2. \E to \in {"serve", "crashed", "closed"} : Turn(to)
    BY <1>6 DEF LoadSession, LoadFails, MainFails, MainEnds
  <2>3. Reading' = Reading \ {Main}
    BY <1>a, <2>2, ReadingTurns DEF Turn
  <2> QED BY <1>a, <2>1, <2>2, <2>3 DEF Turn, client, WakeInv
<1>7. CASE Skim \/ Message
  <2>1. waiting = {} /\ waiting' = {} /\ messages' = messages
    BY <1>a, <1>7 DEF Skim, Message, client
  <2> QED BY <1>a, <2>1 DEF WakeInv
<1>8. CASE EndRun
  <2>1. Reading \subseteq Reading'
    BY <1>a, <1>8, ReadingTurns DEF EndRun
  <2> QED BY <1>a, <1>8, <2>1 DEF EndRun, client, WakeInv
<1>9. ASSUME NEW kind \in Kinds, Ask(kind) PROVE WakeInv'
  <2>1. ReadLine(Len(requests) + 1, kind)
    BY <1>9 DEF Ask
  <2>2. /\ Reading \subseteq Reading'
        /\ Found(kind) = "nothing" => Len(requests) + 1 \in Reading'
    BY <1>a, <1>9, ReadingAsks
  <2> QED BY <1>a, <2>1, <2>2, Reads DEF client, WakeInv
<1>10. ASSUME NEW r \in Reading \ {Main}, Resume(r) PROVE WakeInv'
  <2>1. ReadLine(r, requests[r].kind) /\ requests[r].kind \in Kinds /\ r \notin waiting
    BY <1>a, <1>10, Readers, Typed DEF Resume
  <2>2. Reading' = IF Found(requests[r].kind) = "nothing" THEN Reading ELSE Reading \ {r}
    BY <1>a, <1>10, ReadingResumes
  <2> QED BY <1>a, <2>1, <2>2, Reads DEF client, WakeInv
<1> QED BY <1>1, <1>2, <1>3, <1>4, <1>5, <1>6, <1>7, <1>8, <1>9, <1>10
        DEF Next, Client, Loop, Calls

-----------------------------------------------------------------------------
(* Types *)

Labels == {"read", "load", "serve", "closed", "crashed"}

\* What is to be shown of a step for the types to be kept.
LEMMA TypesFrom ==
  ASSUME TypeOK, WakeInv, WakeInv', messages <= messages',
         input' \in Seq(Line), closed' \in BOOLEAN, main' \in Labels,
         sessions' \subseteq Sessions, current' \in 0..messages',
         ended' = ended \/ (messages' = messages /\ \E n \in 1..messages : ended' = Append(ended, n)),
         taken' \subseteq 1..messages', requests' \in Seq(Request), orderly' \in BOOLEAN
  PROVE  TypeOK'
<1>1. ended \in Seq(1..messages) /\ messages \in Nat /\ messages' \in Nat
  BY DEF TypeOK, WakeInv
<1>2. ended' \in Seq(1..messages')
  <2>1. CASE ended' = ended
    <3>1. 1..messages \subseteq 1..messages'
      BY <1>1
    <3> QED BY <1>1, <2>1, <3>1, SeqMonotonic
  <2>2. CASE messages' = messages /\ \E n \in 1..messages : ended' = Append(ended, n)
    <3>1. ended' \in Seq(1..messages)
      BY <1>1, <2>2, AppendProperties
    <3> QED BY <2>2, <3>1
  <2> QED BY <2>1, <2>2
<1>3. waiting' \subseteq Reading' /\ Cardinality(waiting') <= 1
  <2>1. CASE waiting' = {}
    BY <2>1, FS_EmptySet
  <2>2. CASE \E r \in Reading' : waiting' = {r}
    <3>1. PICK r \in Reading' : waiting' = {r}
      BY <2>2
    <3>2. Cardinality({r}) = 1
      BY FS_Singleton
    <3> QED BY <3>1, <3>2
  <2> QED BY <2>1, <2>2 DEF WakeInv
<1> QED BY <1>2, <1>3 DEF TypeOK, Request, Labels

\* Messages keep their number until they are ended, so that every number that
\* is noted is that of a message.
LEMMA TypeStep == LineOK /\ [Next]_vars => TypeOK'
<1> SUFFICES ASSUME LineOK, [Next]_vars PROVE TypeOK'
  OBVIOUS
<1>a. /\ TypeOK /\ WakeInv /\ LineInv /\ WakeInv'
  BY WakeStep DEF LineOK
<1>b. /\ input \in Seq(Line) /\ closed \in BOOLEAN /\ main \in Labels
      /\ sessions \subseteq Sessions /\ current \in 0..messages
      /\ taken \subseteq 1..messages /\ requests \in Seq(Request) /\ orderly \in BOOLEAN
      /\ messages \in Nat
  BY <1>a DEF TypeOK, WakeInv, Labels, Request
<1>c. ASSUME input # <<>>
      PROVE  /\ Head(input) \in Line /\ Tail(input) \in Seq(Line)
             /\ Head(input).type = "message" => Head(input).of \in 1..messages
  <2>1. Head(input) \in Line /\ Tail(input) \in Seq(Line)
    BY <1>b, <1>c, HeadTailProperties
  <2>2. Head(input).type = "message" => Head(input).of \in Unread
    BY <1>a, <1>c, Typed DEF OfType, Unread
  <2> QED BY <2>1, <2>2 DEF LineOK, PlaceInv
<1>1. CASE UNCHANGED vars
  <2>1. UNCHANGED <<input, closed, main, sessions, current, ended, requests, taken, messages, orderly>>
    BY <1>1 DEF vars, daemon, client
  <2>2. messages <= messages' /\ current' \in 0..messages' /\ taken' \subseteq 1..messages'
    BY <1>b, <2>1
  <2>3. /\ input' \in Seq(Line) /\ closed' \in BOOLEAN /\ main' \in Labels
        /\ sessions' \subseteq Sessions /\ requests' \in Seq(Request) /\ orderly' \in BOOLEAN
        /\ ended' = ended
    BY <1>b, <2>1
  <2> QED BY <1>a, <2>2, <2>3, TypesFrom
<1>2. ASSUME NEW type \in {"start", "message", "junk", "long"}, NEW s \in Sessions, Say(type, s)
      PROVE  TypeOK'
  <2> DEFINE line == [type |-> type, session |-> s, of |-> IF type = "message" THEN messages + 1 ELSE 0]
  <2>1. line \in Line
    BY <1>b DEF Line
  <2>2. input' = Append(input, line)
    BY <1>2 DEF Say, Write
  <2>3. input' \in Seq(Line)
    BY <1>a, <2>1, <2>2, Appends
  <2>4. messages' \in Nat /\ messages <= messages'
    BY <1>b, <1>2 DEF Say
  <2>5. orderly' \in BOOLEAN /\ UNCHANGED <<closed, main, sessions, current, ended, requests, taken>>
    BY <1>b, <1>2 DEF Say, Write
  <2>6. current \in 0..messages' /\ taken \subseteq 1..messages'
    BY <1>b, <2>4
  <2> HIDE DEF line
  <2> QED BY <1>a, <1>b, <2>3, <2>4, <2>5, <2>6, TypesFrom
<1>3. ASSUME NEW r \in DOMAIN requests, NEW type \in Answers \cup {"junk"}, Reply(r, type)
      PROVE  TypeOK'
  <2>1. PICK s \in Sessions : Write([type |-> type, session |-> s, of |-> r])
    BY <1>3 DEF Reply
  <2>2. [type |-> type, session |-> s, of |-> r] \in Line
    BY <1>a, Typed DEF Line
  <2>3. input' \in Seq(Line)
    BY <1>a, <2>1, <2>2, Appends DEF Write
  <2>4. requests' \in Seq(Request)
    BY <1>a, <1>3, Said DEF Reply
  <2>5. UNCHANGED <<closed, main, sessions, current, ended, taken, messages, orderly>>
    BY <1>3, <2>1 DEF Reply, Write
  <2> QED BY <1>a, <1>b, <2>3, <2>4, <2>5, TypesFrom
<1>4. CASE Close \/ MainWaits
  <2>1. /\ UNCHANGED <<input, main, sessions, current, ended, requests, taken, messages, orderly>>
        /\ closed' \in BOOLEAN
    BY <1>b, <1>4 DEF Close, MainWaits, client
  <2>2. messages <= messages' /\ current' \in 0..messages' /\ taken' \subseteq 1..messages'
    BY <1>b, <2>1
  <2> QED BY <1>a, <1>b, <2>1, <2>2, TypesFrom
<1>5. CASE LoadSession \/ LoadFails \/ MainFails \/ MainEnds
  <2>1. \E to \in Labels : Turn(to)
    BY <1>5 DEF LoadSession, LoadFails, MainFails, MainEnds, Labels
  <2> QED BY <1>a, <1>b, <2>1, TypesFrom DEF Turn, client
<1>6. CASE Skim
  <2>1. input' \in Seq(Line) /\ sessions' \subseteq Sessions
    BY <1>b, <1>c, <1>6 DEF Skim, Rest, Line
  <2>2. UNCHANGED <<closed, main, current, ended, requests, taken, messages, orderly>>
    BY <1>6 DEF Skim, client
  <2> QED BY <1>a, <1>b, <2>1, <2>2, TypesFrom
<1>7. CASE Message
  <2>1. input # <<>> /\ Head(input).type = "message" /\ input' = Tail(input)
    BY <1>7 DEF Message, Rest
  <2>2. input' \in Seq(Line) /\ Head(input).of \in 1..messages
    BY <1>c, <2>1
  <2>3. UNCHANGED <<closed, sessions, requests, taken, messages, orderly>>
    BY <1>7 DEF Message, client
  <2>4. CASE main' = "load" /\ current' = Head(input).of /\ ended' = ended
    BY <1>a, <1>b, <2>2, <2>3, <2>4, TypesFrom DEF Labels
  <2>5. CASE ended' = Append(ended, Head(input).of) /\ UNCHANGED <<main, current>>
    BY <1>a, <1>b, <2>2, <2>3, <2>5, TypesFrom
  <2> QED BY <1>7, <2>4, <2>5 DEF Message, Refused
<1>8. CASE EndRun
  <2>1. current \in 1..messages
    BY <1>8 DEF EndRun, LineOK, PlaceInv, Serving
  <2>2. /\ main' \in Labels /\ ended' = Append(ended, current) /\ orderly' \in BOOLEAN
        /\ UNCHANGED <<input, closed, sessions, current, requests, taken, messages>>
    BY <1>b, <1>8 DEF EndRun, client, Labels
  <2> QED BY <1>a, <1>b, <2>1, <2>2, TypesFrom
<1>d. ASSUME NEW r, NEW kind \in Kinds, ReadLine(r, kind)
      PROVE  /\ input' \in Seq(Line) /\ taken' \subseteq 1..messages
             /\ UNCHANGED <<closed, main, sessions, current, ended, messages>>
  <2>1. input' \in Seq(Line) /\ UNCHANGED <<closed, main, sessions, current, ended, messages>>
    BY <1>d, Reads DEF client
  <2>2. taken' \subseteq 1..messages
    BY <1>b, <1>c, <1>d DEF ReadLine
  <2> QED BY <2>1, <2>2
<1>9. ASSUME NEW kind \in Kinds, Ask(kind) PROVE TypeOK'
  <2>1. requests' \in Seq(Request) /\ orderly' \in BOOLEAN
    BY <1>a, <1>b, <1>9, Finds, Joins DEF Ask
  <2>2. ReadLine(Len(requests) + 1, kind)
    BY <1>9 DEF Ask
  <2>3. /\ input' \in Seq(Line) /\ taken' \subseteq 1..messages
        /\ UNCHANGED <<closed, main, sessions, current, ended, messages>>
    BY <1>d, <2>2
  <2> QED BY <1>a, <1>b, <2>1, <2>3, TypesFrom
<1>10. ASSUME NEW r \in Reading \ {Main}, Resume(r) PROVE TypeOK'
  <2>1. ReadLine(r, requests[r].kind) /\ requests[r].kind \in Kinds /\ r \in DOMAIN requests
    BY <1>a, <1>10, Readers, Typed DEF Resume
  <2>2. requests' \in Seq(Request) /\ orderly' = orderly
    BY <1>a, <1>10, <2>1, Finds, Got DEF Resume
  <2>3. /\ input' \in Seq(Line) /\ taken' \subseteq 1..messages
        /\ UNCHANGED <<closed, main, sessions, current, ended, messages>>
    BY <1>d, <2>1
  <2> QED BY <1>a, <1>b, <2>2, <2>3, TypesFrom
<1> QED BY <1>1, <1>2, <1>3, <1>4, <1>5, <1>6, <1>7, <1>8, <1>9, <1>10
        DEF Next, Client, Loop, Calls

-----------------------------------------------------------------------------
(* Lines, and the places of messages *)

\* A type answers one kind of request at most, and no message is an answer.
LEMMA Rights ==
  /\ Right("permission") = "grant" /\ Right("question") = "answer" /\ Kinds = {"permission", "question"}
  /\ \A kind \in Kinds : Right(kind) \in Answers
  /\ "message" \notin Answers /\ "nothing" \notin Answers /\ "junk" \notin Answers
BY DEF Right, Kinds, Answers

\* A step that takes the first line, or none.
Takes == (input # <<>> /\ input' = Tail(input)) \/ UNCHANGED input

\* What is left is what was there, but for the first.
LEMMA TakesOf ==
  ASSUME TypeOK, LineInv, Takes
  PROVE  /\ \A type \in Answers \cup {"message"} : OfType(type)' \subseteq OfType(type)
         /\ \A type \in Answers \cup {"message"} : \A i, j \in DOMAIN input' :
              input'[i].type = type /\ input'[j].type = type /\ input'[i].of = input'[j].of => i = j
<1>0. \A type \in Answers \cup {"message"} : \A i, j \in DOMAIN input :
        input[i].type = type /\ input[j].type = type /\ input[i].of = input[j].of => i = j
  BY DEF LineInv
<1>1. CASE UNCHANGED input
  BY <1>0, <1>1 DEF OfType
<1>2. CASE input # <<>> /\ input' = Tail(input)
  <2>1. \A type \in Answers \cup {"message"} : OfType(type)' \subseteq OfType(type)
    BY <1>2, Taken
  <2>2. /\ DOMAIN input' \subseteq Int
        /\ \A i \in DOMAIN input' : i + 1 \in DOMAIN input /\ input'[i] = input[i + 1]
    BY <1>2, Taken, Typed
  <2>3. ASSUME NEW type \in Answers \cup {"message"}, NEW i \in DOMAIN input', NEW j \in DOMAIN input',
               input'[i].type = type, input'[j].type = type, input'[i].of = input'[j].of
        PROVE  i = j
    <3>1. i + 1 = j + 1
      BY <1>0, <2>2, <2>3
    <3> QED BY <2>2, <3>1
  <2> QED BY <2>1, <2>3
<1> QED BY <1>1, <1>2 DEF Takes

\* A line that is written is of a request or message of its own.
LEMMA AppendsOf ==
  ASSUME TypeOK, LineInv, NEW line \in Line, input' = Append(input, line),
         line.type \in Answers \cup {"message"} => line.of \notin OfType(line.type)
  PROVE  \A type \in Answers \cup {"message"} : \A i, j \in DOMAIN input' :
           input'[i].type = type /\ input'[j].type = type /\ input'[i].of = input'[j].of => i = j
<1>0. \A type \in Answers \cup {"message"} : \A i, j \in DOMAIN input :
        input[i].type = type /\ input[j].type = type /\ input[i].of = input[j].of => i = j
  BY DEF LineInv
<1>1. /\ DOMAIN input' = 1..(Len(input) + 1) /\ DOMAIN input = 1..Len(input) /\ Len(input) \in Nat
      /\ \A i \in DOMAIN input : input'[i] = input[i]
      /\ input'[Len(input) + 1] = line
  BY Appends, Typed
<1>2. ASSUME NEW i \in DOMAIN input, line.type \in Answers \cup {"message"}, input[i].type = line.type
      PROVE  input[i].of # line.of
  BY <1>2 DEF OfType
<1>3. ASSUME NEW type \in Answers \cup {"message"}, NEW i \in DOMAIN input', NEW j \in DOMAIN input',
             input'[i].type = type, input'[j].type = type, input'[i].of = input'[j].of
      PROVE  i = j
  <2>1. CASE i \in DOMAIN input /\ j \in DOMAIN input
    BY <1>0, <1>1, <1>3, <2>1
  <2>2. CASE i \in DOMAIN input /\ j = Len(input) + 1
    BY <1>1, <1>2, <1>3, <2>2
  <2>3. CASE j \in DOMAIN input /\ i = Len(input) + 1
    BY <1>1, <1>2, <1>3, <2>3
  <2> QED BY <1>1, <2>1, <2>2, <2>3
<1> QED BY <1>3

\* A call takes the first line, or none, and its request was said what it was.
LEMMA CallTakes ==
  ASSUME LineOK, \/ \E kind \in Kinds : Ask(kind)
                 \/ \E r \in Reading \ {Main} : Resume(r)
  PROVE  /\ Takes /\ DOMAIN requests \subseteq DOMAIN requests'
         /\ \A r \in DOMAIN requests : requests'[r].said = requests[r].said
         /\ \A r \in DOMAIN requests : requests'[r].kind = requests[r].kind
         /\ \A r \in (DOMAIN requests') \ DOMAIN requests : requests'[r].said = "nothing"
         /\ taken' = taken \cup
              (IF input # <<>> /\ Head(input).type = "message" THEN {Head(input).of} ELSE {})
         /\ input # <<>> => input' = Tail(input)
         /\ UNCHANGED <<closed, main, sessions, current, ended, client>>
<1>a. TypeOK
  BY DEF LineOK
<1>0. ASSUME NEW r, NEW kind \in Kinds, ReadLine(r, kind)
      PROVE  /\ Takes /\ (input # <<>> => input' = Tail(input))
             /\ taken' = taken \cup
                  (IF input # <<>> /\ Head(input).type = "message" THEN {Head(input).of} ELSE {})
             /\ UNCHANGED <<closed, main, sessions, current, ended, client>>
  BY <1>0 DEF ReadLine, Left, Rest, Takes
<1>1. ASSUME NEW kind \in Kinds, Ask(kind)
      PROVE  /\ DOMAIN requests \subseteq DOMAIN requests'
             /\ \A r \in DOMAIN requests : requests'[r] = requests[r]
             /\ \A r \in (DOMAIN requests') \ DOMAIN requests : requests'[r].said = "nothing"
             /\ ReadLine(Len(requests) + 1, kind)
  BY <1>a, <1>1, Finds, Joins DEF Ask
<1>2. ASSUME NEW r \in Reading \ {Main}, Resume(r)
      PROVE  /\ DOMAIN requests' = DOMAIN requests
             /\ \A q \in DOMAIN requests :
                  requests'[q].said = requests[q].said /\ requests'[q].kind = requests[q].kind
             /\ ReadLine(r, requests[r].kind) /\ requests[r].kind \in Kinds
  BY <1>a, <1>2, Readers, Typed, Finds, Got DEF Resume
<1> QED BY <1>0, <1>1, <1>2

\* Each request gets one answer, so that no two lines are of the same.
LEMMA LineStep == LineOK /\ [Next]_vars => LineInv'
<1> SUFFICES ASSUME LineOK, [Next]_vars PROVE LineInv'
  OBVIOUS
<1>a. /\ TypeOK /\ LineInv /\ messages \in Nat /\ Unread \subseteq 1..messages
      /\ \A type \in Answers : \A r \in OfType(type) :
           r \in DOMAIN requests /\ requests[r].said = type
  BY DEF LineOK, LineInv, WakeInv, PlaceInv
<1>b. ASSUME Takes, DOMAIN requests \subseteq DOMAIN requests',
             \A r \in DOMAIN requests : requests'[r].said = requests[r].said
      PROVE  LineInv'
  BY <1>a, <1>b, TakesOf DEF LineInv
<1>1. CASE \/ UNCHANGED vars \/ Close
           \/ LoadSession \/ LoadFails \/ MainWaits \/ MainFails \/ MainEnds \/ Skim \/ Message \/ EndRun
  <2>1. Takes /\ UNCHANGED requests
    BY <1>1 DEF vars, daemon, Close, LoadSession, LoadFails, MainWaits, MainFails, MainEnds, Skim,
      Message, EndRun, Turn, Takes, Rest
  <2> QED BY <1>b, <2>1
<1>2. CASE \/ \E kind \in Kinds : Ask(kind)
           \/ \E r \in Reading \ {Main} : Resume(r)
  BY <1>b, <1>2, CallTakes
<1>3. ASSUME NEW type \in {"start", "message", "junk", "long"}, NEW s \in Sessions, Say(type, s)
      PROVE  LineInv'
  <2> DEFINE line == [type |-> type, session |-> s, of |-> IF type = "message" THEN messages + 1 ELSE 0]
  <2>1. line \in Line /\ line.type \notin Answers /\ (line.type = "message" => line.of \notin Unread)
    BY <1>a DEF Line, Answers
  <2>2. input' = Append(input, line) /\ requests' = requests
    BY <1>3 DEF Say, Write
  <2> HIDE DEF line
  <2>3. \A t \in Answers \cup {"message"} : \A i, j \in DOMAIN input' :
          input'[i].type = t /\ input'[j].type = t /\ input'[i].of = input'[j].of => i = j
    BY <1>a, <2>1, <2>2, AppendsOf DEF Unread
  <2>4. ASSUME NEW t \in Answers PROVE OfType(t)' = OfType(t)
    <3>1. line.type # t
      BY <2>1
    <3>2. OfType(t)' = OfType(t) \cup (IF line.type = t THEN {line.of} ELSE {})
      BY <1>a, <2>1, <2>2, Appends
    <3> QED BY <3>1, <3>2
  <2> QED BY <1>a, <2>2, <2>3, <2>4 DEF LineInv
<1>4. ASSUME NEW r \in DOMAIN requests, NEW type \in Answers \cup {"junk"}, Reply(r, type)
      PROVE  LineInv'
  <2>1. PICK s \in Sessions : Write([type |-> type, session |-> s, of |-> r])
    BY <1>4 DEF Reply
  <2> DEFINE line == [type |-> type, session |-> s, of |-> r]
  <2>2. line \in Line /\ line.type = type /\ line.of = r
    BY <1>a, Typed DEF Line
  <2>3. input' = Append(input, line)
    BY <2>1 DEF Write
  <2>4. requests[r].said = "nothing" /\ type # "message"
    BY <1>4, Rights DEF Reply
  <2>5. \A t \in Answers : r \notin OfType(t)
    BY <1>a, <2>4, Rights
  <2> HIDE DEF line
  <2>6. \A t \in Answers \cup {"message"} : \A i, j \in DOMAIN input' :
          input'[i].type = t /\ input'[j].type = t /\ input'[i].of = input'[j].of => i = j
    BY <1>a, <2>2, <2>3, <2>4, <2>5, AppendsOf
  <2>7. \A t \in Answers : OfType(t)' = OfType(t) \cup (IF type = t THEN {r} ELSE {})
    BY <1>a, <2>2, <2>3, Appends
  <2>8. DOMAIN requests' = DOMAIN requests /\ \A q \in DOMAIN requests :
          requests'[q].said = IF q = r THEN type ELSE requests[q].said
    BY <1>a, <1>4, Said DEF Reply
  <2> QED BY <1>a, <2>5, <2>6, <2>7, <2>8 DEF LineInv
<1> QED BY <1>1, <1>2, <1>3, <1>4 DEF Next, Client, Loop, Calls

-----------------------------------------------------------------------------
(* Where the messages are *)

\* What is noted of messages.
Noted == ToSet(ended) \cup taken

\* A message gets its session.end.
LEMMA EndedGrows ==
  ASSUME TypeOK, NEW n, ended' = Append(ended, n), n \in 1..messages
  PROVE  ToSet(ended') = ToSet(ended) \cup {n}
<1>1. ended \in Seq(1..messages)
  BY DEF TypeOK
<1>2. /\ Len(ended) \in Nat /\ DOMAIN ended = 1..Len(ended) /\ Len(ended') = Len(ended) + 1
      /\ DOMAIN ended' = 1..(Len(ended) + 1)
      /\ \A i \in 1..Len(ended) : ended'[i] = ended[i]
      /\ ended'[Len(ended) + 1] = n
  BY <1>1, AppendProperties, LenProperties
<1>3. \A x : x \in ToSet(ended') <=> \E i \in DOMAIN ended' : x = ended'[i]
  BY DEF ToSet
<1>4. \A x : x \in ToSet(ended) <=> \E i \in DOMAIN ended : x = ended[i]
  BY DEF ToSet
<1>5. \A x \in ToSet(ended') : x \in ToSet(ended) \cup {n}
  BY <1>2, <1>3, <1>4
<1>6. \A x \in ToSet(ended) \cup {n} : x \in ToSet(ended')
  BY <1>2, <1>3, <1>4
<1> QED BY <1>5, <1>6

\* No step loses a message, but for a crash of the main loop.
LEMMA PlaceStep == LineOK /\ FoundInv /\ [Next]_vars => PlaceInv' /\ FoundInv'
<1> SUFFICES ASSUME LineOK, FoundInv, [Next]_vars PROVE PlaceInv' /\ FoundInv'
  OBVIOUS
<1>a. /\ TypeOK /\ LineInv /\ messages \in Nat /\ Unread \subseteq 1..messages
      /\ Unread \cap (ToSet(ended) \cup taken) = {} /\ ToSet(ended) \cap taken = {}
      /\ Serving => current \in (1..messages) \ (Unread \cup ToSet(ended) \cup taken)
      /\ main # "crashed" =>
           1..messages \subseteq
             Unread \cup ToSet(ended) \cup taken \cup (IF Serving THEN {current} ELSE {})
      /\ main = "closed" => input = <<>> /\ closed
  BY DEF LineOK, WakeInv, PlaceInv, FoundInv
<1>b. ToSet(ended) \subseteq 1..messages /\ taken \subseteq 1..messages
  <2>1. ended \in Seq(1..messages) /\ taken \subseteq 1..messages
    BY <1>a DEF TypeOK
  <2>2. \A i \in DOMAIN ended : ended[i] \in 1..messages
    BY <2>1, LenProperties, ElementOfSeq
  <2> QED BY <2>1, <2>2 DEF ToSet
<1>c. ASSUME input # <<>>, input' = Tail(input)
      PROVE  /\ Head(input).type = "message" =>
                  Unread' = Unread \ {Head(input).of} /\ Head(input).of \in Unread
             /\ Head(input).type # "message" => Unread' = Unread
  <2>1. OfType("message")' =
          OfType("message") \ (IF Head(input).type = "message" THEN {Head(input).of} ELSE {})
    BY <1>a, <1>c, Taken
  <2>2. Head(input).type = "message" => Head(input).of \in Unread
    BY <1>a, <1>c, Taken
  <2>3. CASE Head(input).type = "message"
    BY <2>1, <2>2, <2>3 DEF Unread
  <2>4. CASE Head(input).type # "message"
    BY <2>1, <2>4 DEF Unread
  <2> QED BY <2>3, <2>4
<1>1. CASE UNCHANGED vars
  <2>1. UNCHANGED <<input, closed, main, ended, taken, current, messages>>
    BY <1>1 DEF vars, daemon, client
  <2> QED BY <1>a, <2>1 DEF PlaceInv, FoundInv, Unread, OfType, Serving
<1>2. CASE Close \/ MainWaits
  <2>1. UNCHANGED <<input, main, ended, taken, current, messages>> /\ (closed => closed')
    BY <1>2 DEF Close, MainWaits, client
  <2> QED BY <1>a, <2>1 DEF PlaceInv, FoundInv, Unread, OfType, Serving
<1>3. CASE LoadSession \/ LoadFails \/ MainFails \/ MainEnds
  <2>1. UNCHANGED <<input, closed, ended, taken, current, messages>>
    BY <1>3 DEF LoadSession, LoadFails, MainFails, MainEnds, Turn, client
  <2>2. Unread' = Unread
    BY <2>1 DEF Unread, OfType
  <2>3. \/ main' = "crashed" \/ (Serving' /\ Serving)
        \/ (main' = "closed" /\ main = "read" /\ input = <<>> /\ closed)
    BY <1>3 DEF LoadSession, LoadFails, MainFails, MainEnds, Turn, Serving
  <2> QED BY <1>a, <2>1, <2>2, <2>3 DEF PlaceInv, FoundInv, Serving
<1>4. CASE Skim
  <2>1. UNCHANGED <<closed, main, ended, taken, current, messages>> /\ main = "read"
    BY <1>4 DEF Skim, client
  <2>2. Unread' = Unread
    BY <1>c, <1>4 DEF Skim, Rest
  <2> QED BY <1>a, <2>1, <2>2 DEF PlaceInv, FoundInv, Serving
<1>5. CASE Message
  <2>1. /\ UNCHANGED <<closed, taken, messages>> /\ main = "read"
        /\ \/ main' = "load" /\ current' = Head(input).of /\ ended' = ended
           \/ ended' = Append(ended, Head(input).of) /\ UNCHANGED <<main, current>>
    BY <1>5 DEF Message, Refused, client
  <2>2. Unread' = Unread \ {Head(input).of} /\ Head(input).of \in Unread
    BY <1>c, <1>5 DEF Message, Rest
  <2>3. CASE main' = "load" /\ current' = Head(input).of /\ ended' = ended
    BY <1>a, <2>1, <2>2, <2>3 DEF PlaceInv, FoundInv, Serving
  <2>4. CASE ended' = Append(ended, Head(input).of) /\ UNCHANGED <<main, current>>
    <3>1. ToSet(ended') = ToSet(ended) \cup {Head(input).of}
      BY <1>a, <2>2, <2>4, EndedGrows
    <3>2. main = "read" /\ main' = "read" /\ ~Serving /\ ~Serving'
      BY <2>1, <2>4 DEF Serving
    <3> QED BY <1>a, <2>1, <2>2, <2>4, <3>1, <3>2 DEF PlaceInv, FoundInv
  <2> QED BY <2>1, <2>3, <2>4
<1>6. CASE EndRun
  <2>1. /\ UNCHANGED <<input, closed, taken, current, messages>> /\ main = "serve" /\ main' = "read"
        /\ ended' = Append(ended, current)
    BY <1>6 DEF EndRun, client
  <2>2. Unread' = Unread
    BY <2>1 DEF Unread, OfType
  <2>3. Serving /\ ~Serving'
    BY <2>1 DEF Serving
  <2>4. ToSet(ended') = ToSet(ended) \cup {current}
    BY <1>a, <2>1, <2>3, EndedGrows
  <2> QED BY <1>a, <2>1, <2>2, <2>3, <2>4 DEF PlaceInv, FoundInv
<1>7. CASE \/ \E kind \in Kinds : Ask(kind)
           \/ \E r \in Reading \ {Main} : Resume(r)
  <2>1. /\ UNCHANGED <<closed, main, current, ended, messages>> /\ Takes
        /\ taken' = taken \cup
             (IF input # <<>> /\ Head(input).type = "message" THEN {Head(input).of} ELSE {})
        /\ input # <<>> => input' = Tail(input)
    BY <1>7, CallTakes DEF client
  <2>2. main = "closed" => input' = <<>>
    BY <1>a, <2>1 DEF Takes
  <2>3. Serving' = Serving
    BY <2>1 DEF Serving
  <2>4. CASE input # <<>> /\ Head(input).type = "message"
    <3>1. /\ Unread' = Unread \ {Head(input).of} /\ Head(input).of \in Unread
          /\ taken' = taken \cup {Head(input).of}
      BY <1>c, <2>1, <2>4
    <3> QED BY <1>a, <2>1, <2>2, <2>3, <3>1 DEF PlaceInv, FoundInv
  <2>5. CASE ~(input # <<>> /\ Head(input).type = "message")
    <3>1. Unread' = Unread
      <4>1. CASE input = <<>>
        BY <2>1, <4>1 DEF Takes, Unread, OfType
      <4> QED BY <1>c, <2>1, <2>5, <4>1
    <3>2. taken' = taken
      BY <2>1, <2>5
    <3> QED BY <1>a, <2>1, <2>2, <2>3, <3>1, <3>2 DEF PlaceInv, FoundInv
  <2> QED BY <2>4, <2>5
<1>8. ASSUME NEW type \in {"start", "message", "junk", "long"}, NEW s \in Sessions, Say(type, s)
      PROVE  PlaceInv' /\ FoundInv'
  <2> DEFINE line == [type |-> type, session |-> s, of |-> IF type = "message" THEN messages + 1 ELSE 0]
  <2>1. line \in Line
    BY <1>a DEF Line
  <2>2. /\ input' = Append(input, line) /\ UNCHANGED <<main, current, ended, taken>>
        /\ ~closed /\ messages' = messages + (IF type = "message" THEN 1 ELSE 0)
    BY <1>8 DEF Say, Write
  <2>3. Unread' = Unread \cup (IF type = "message" THEN {messages + 1} ELSE {})
    BY <1>a, <2>1, <2>2, Appends DEF Unread
  <2> HIDE DEF line
  <2>4. messages + 1 \notin 1..messages
    BY <1>a
  <2>5. 1..messages' = (1..messages) \cup (IF type = "message" THEN {messages + 1} ELSE {})
    BY <1>a, <2>2
  <2>6. Serving' = Serving /\ main # "closed"
    BY <1>a, <2>2 DEF Serving
  <2>7. CASE type = "message"
    BY <1>a, <1>b, <2>2, <2>3, <2>4, <2>5, <2>6, <2>7 DEF PlaceInv, FoundInv
  <2>8. CASE type # "message"
    BY <1>a, <2>2, <2>3, <2>5, <2>6, <2>8 DEF PlaceInv, FoundInv
  <2> QED BY <2>7, <2>8
<1>9. ASSUME NEW r \in DOMAIN requests, NEW type \in Answers \cup {"junk"}, Reply(r, type)
      PROVE  PlaceInv' /\ FoundInv'
  <2>1. PICK s \in Sessions : Write([type |-> type, session |-> s, of |-> r])
    BY <1>9 DEF Reply
  <2> DEFINE line == [type |-> type, session |-> s, of |-> r]
  <2>2. line \in Line /\ line.type # "message"
    BY <1>a, Rights, Typed DEF Line
  <2>3. /\ input' = Append(input, line) /\ UNCHANGED <<main, current, ended, taken, messages>> /\ ~closed
    BY <1>9, <2>1 DEF Reply, Write
  <2>4. Unread' = Unread
    <3>1. OfType("message")' =
            OfType("message") \cup (IF line.type = "message" THEN {line.of} ELSE {})
      BY <1>a, <2>2, <2>3, Appends
    <3> QED BY <2>2, <3>1 DEF Unread
  <2>5. Serving' = Serving /\ main # "closed"
    BY <1>a, <2>3 DEF Serving
  <2> QED BY <1>a, <2>3, <2>4, <2>5 DEF PlaceInv, FoundInv
<1> QED BY <1>1, <1>2, <1>3, <1>4, <1>5, <1>6, <1>7, <1>8, <1>9 DEF Next, Client, Loop, Calls

\* The number of a message that is noted was not noted before.
LEMMA OnceStep == LineOK /\ AnsweredOnce /\ [Next]_vars => AnsweredOnce'
<1> SUFFICES ASSUME LineOK, AnsweredOnce, [Next]_vars PROVE AnsweredOnce'
  OBVIOUS
<1>a. TypeOK /\ ended \in Seq(1..messages)
  BY DEF LineOK, TypeOK
<1>1. CASE ended' = ended
  BY <1>1 DEF AnsweredOnce
<1>2. ASSUME NEW n, n \notin ToSet(ended), n \in 1..messages, ended' = Append(ended, n) PROVE AnsweredOnce'
  <2>1. /\ Len(ended) \in Nat /\ DOMAIN ended = 1..Len(ended)
        /\ DOMAIN ended' = 1..(Len(ended) + 1)
        /\ \A i \in 1..Len(ended) : ended'[i] = ended[i]
        /\ ended'[Len(ended) + 1] = n
    BY <1>a, <1>2, AppendProperties, LenProperties
  <2>2. \A i \in DOMAIN ended : ended[i] # n
    BY <1>2 DEF ToSet
  <2> QED BY <2>1, <2>2 DEF AnsweredOnce
<1>3. CASE Message
  <2>1. input # <<>> /\ Head(input).type = "message" /\ input' = Tail(input)
    BY <1>3 DEF Message, Rest
  <2>2. Head(input).of \in Unread
    BY <1>a, <2>1, Taken DEF LineOK
  <2>3. Head(input).of \notin ToSet(ended) /\ Head(input).of \in 1..messages
    BY <2>2 DEF LineOK, PlaceInv
  <2> QED BY <1>1, <1>2, <1>3, <2>3 DEF Message, Refused
<1>4. CASE EndRun
  BY <1>2, <1>4 DEF EndRun, LineOK, PlaceInv, Serving
<1>5. CASE UNCHANGED vars \/ Client
  BY <1>1, <1>5 DEF vars, daemon, Client, Say, Reply, Write, Close
<1>6. CASE \/ \E kind \in Kinds : Ask(kind)
           \/ \E r \in Reading \ {Main} : Resume(r)
  BY <1>1, <1>6, CallTakes
<1>7. CASE LoadSession \/ LoadFails \/ MainWaits \/ MainFails \/ MainEnds \/ Skim
  BY <1>1, <1>7 DEF LoadSession, LoadFails, MainWaits, MainFails, MainEnds, Skim, Turn
<1> QED BY <1>3, <1>4, <1>5, <1>6, <1>7 DEF Next, Loop, Calls

-----------------------------------------------------------------------------
(* Answers and the calls they let go on *)

\* What is counted is finite: each is of requests.
LEMMA Finite ==
  ASSUME LineOK, NEW kind \in Kinds
  PROVE  /\ IsFiniteSet(ServedOf(kind)) /\ IsFiniteSet(SaidOf(kind)) /\ IsFiniteSet(PendingOf(kind))
         /\ Cardinality(ServedOf(kind)) \in Nat /\ Cardinality(SaidOf(kind)) \in Nat
         /\ Cardinality(PendingOf(kind)) \in Nat
<1>1. IsFiniteSet(DOMAIN requests)
  <2>1. Len(requests) \in Nat /\ DOMAIN requests = 1..Len(requests)
    BY Typed DEF LineOK
  <2> QED BY <2>1, FS_Interval
<1>2. ServedOf(kind) \in SUBSET DOMAIN requests /\ SaidOf(kind) \in SUBSET DOMAIN requests
  BY DEF ServedOf, Served, SaidOf
<1>3. PendingOf(kind) \in SUBSET DOMAIN requests
  <2>1. \A r \in OfType(Right(kind)) : r \in DOMAIN requests
    BY Rights DEF LineOK, LineInv
  <2> QED BY <2>1 DEF PendingOf
<1> QED BY <1>1, <1>2, <1>3, FS_Subset, FS_CardinalityType

\* Nothing is granted,
LEMMA NothingSpent ==
  ASSUME LineOK, SpentInv, NEW kind \in Kinds,
         ServedOf(kind)' = ServedOf(kind), SaidOf(kind)' = SaidOf(kind),
         PendingOf(kind)' \subseteq PendingOf(kind)
  PROVE  Cardinality(ServedOf(kind)') + Cardinality(PendingOf(kind)') <= Cardinality(SaidOf(kind)')
<1>1. /\ Cardinality(PendingOf(kind)') \in Nat
      /\ Cardinality(PendingOf(kind)') <= Cardinality(PendingOf(kind))
  BY Finite, FS_Subset, FS_CardinalityType
<1> QED BY <1>1, Finite DEF SpentInv

\* an answer that is read is spent on one call,
LEMMA OneSpent ==
  ASSUME LineOK, SpentInv, NEW kind \in Kinds, NEW r, NEW q \in PendingOf(kind),
         ServedOf(kind)' = ServedOf(kind) \cup {r}, SaidOf(kind)' = SaidOf(kind),
         PendingOf(kind)' = PendingOf(kind) \ {q}
  PROVE  Cardinality(ServedOf(kind)') + Cardinality(PendingOf(kind)') <= Cardinality(SaidOf(kind)')
<1>0. Cardinality(ServedOf(kind)) \in Nat
  BY Finite
<1>1. Cardinality(PendingOf(kind)') = Cardinality(PendingOf(kind)) - 1
  BY Finite, FS_RemoveElement
<1>2. /\ Cardinality(ServedOf(kind)') \in Nat
      /\ Cardinality(ServedOf(kind)') <= Cardinality(ServedOf(kind)) + 1
  <2>1. CASE r \in ServedOf(kind)
    <3>1. ServedOf(kind)' = ServedOf(kind)
      BY <2>1
    <3>2. Cardinality(ServedOf(kind)') = Cardinality(ServedOf(kind))
      BY <3>1, Zenon
    <3> QED BY <1>0, <3>2
  <2>2. CASE r \notin ServedOf(kind)
    <3>1. Cardinality(ServedOf(kind)') = Cardinality(ServedOf(kind)) + 1
      BY <2>2, Finite, FS_AddElement
    <3> QED BY <1>0, <3>1
  <2> QED BY <2>1, <2>2
<1> QED BY <1>1, <1>2, Finite DEF SpentInv

\* and an answer that is said is of a request that had none.
LEMMA OneSaid ==
  ASSUME LineOK, SpentInv, NEW kind \in Kinds, NEW r, r \notin SaidOf(kind),
         ServedOf(kind)' = ServedOf(kind), SaidOf(kind)' = SaidOf(kind) \cup {r},
         PendingOf(kind)' = PendingOf(kind) \cup {r}
  PROVE  Cardinality(ServedOf(kind)') + Cardinality(PendingOf(kind)') <= Cardinality(SaidOf(kind)')
<1>0. Cardinality(PendingOf(kind)) \in Nat
  BY Finite
<1>1. Cardinality(SaidOf(kind)') = Cardinality(SaidOf(kind)) + 1
  BY Finite, FS_AddElement
<1>2. /\ Cardinality(PendingOf(kind)') \in Nat
      /\ Cardinality(PendingOf(kind)') <= Cardinality(PendingOf(kind)) + 1
  <2>1. CASE r \in PendingOf(kind)
    <3>1. PendingOf(kind)' = PendingOf(kind)
      BY <2>1
    <3>2. Cardinality(PendingOf(kind)') = Cardinality(PendingOf(kind))
      BY <3>1, Zenon
    <3> QED BY <1>0, <3>2
  <2>2. CASE r \notin PendingOf(kind)
    <3>1. Cardinality(PendingOf(kind)') = Cardinality(PendingOf(kind)) + 1
      BY <2>2, Finite, FS_AddElement
    <3> QED BY <1>0, <3>1
  <2> QED BY <2>1, <2>2
<1> QED BY <1>1, <1>2, Finite DEF SpentInv

\* The calls that went on after one has read.
LEMMA ServedAfter ==
  ASSUME LineOK, NEW kind \in Kinds,
         \/ \E k \in Kinds : Ask(k)
         \/ \E r \in Reading \ {Main} : Resume(r)
  PROVE  \/ ServedOf(kind)' = ServedOf(kind)
         \/ /\ \E r : ServedOf(kind)' = ServedOf(kind) \cup {r}
            /\ input # <<>> /\ Head(input).type = Right(kind)
<1>a. TypeOK
  BY DEF LineOK
<1>1. ASSUME NEW k \in Kinds, Ask(k)
      PROVE  ServedOf(kind)' = ServedOf(kind) \cup
               (IF k = kind /\ Found(k) = "served" THEN {Len(requests) + 1} ELSE {})
  <2>1. /\ DOMAIN requests' = DOMAIN requests \cup {Len(requests) + 1}
        /\ Len(requests) + 1 \notin DOMAIN requests
        /\ \A q \in DOMAIN requests : requests'[q] = requests[q]
        /\ requests'[Len(requests) + 1].kind = k /\ requests'[Len(requests) + 1].got = Found(k)
    BY <1>a, <1>1, Finds, Joins DEF Ask
  <2> QED BY <2>1 DEF ServedOf, Served
<1>2. ASSUME NEW r \in Reading \ {Main}, Resume(r)
      PROVE  ServedOf(kind)' = ServedOf(kind) \cup
               (IF requests[r].kind = kind /\ Found(kind) = "served" THEN {r} ELSE {})
  <2>1. /\ r \in DOMAIN requests /\ requests[r].got = "nothing" /\ requests[r].kind \in Kinds
        /\ DOMAIN requests' = DOMAIN requests
        /\ \A q \in DOMAIN requests :
             /\ requests'[q].kind = requests[q].kind
             /\ requests'[q].got = IF q = r THEN Found(requests[r].kind) ELSE requests[q].got
    BY <1>a, <1>2, Readers, Typed, Finds, Got DEF Resume
  <2> QED BY <2>1 DEF ServedOf, Served
<1>3. Found(kind) = "served" => input # <<>> /\ Head(input).type = Right(kind)
  BY <1>a, Finds
<1>4. ASSUME NEW k \in Kinds, Ask(k)
      PROVE  \/ ServedOf(kind)' = ServedOf(kind)
             \/ /\ \E r : ServedOf(kind)' = ServedOf(kind) \cup {r}
                /\ input # <<>> /\ Head(input).type = Right(kind)
  <2>1. CASE k = kind /\ Found(k) = "served"
    <3>1. ServedOf(kind)' = ServedOf(kind) \cup {Len(requests) + 1}
      BY <1>1, <1>4, <2>1
    <3> QED BY <1>3, <2>1, <3>1
  <2>2. CASE ~(k = kind /\ Found(k) = "served")
    BY <1>1, <1>4, <2>2
  <2> QED BY <2>1, <2>2
<1>5. ASSUME NEW r \in Reading \ {Main}, Resume(r)
      PROVE  \/ ServedOf(kind)' = ServedOf(kind)
             \/ /\ \E q : ServedOf(kind)' = ServedOf(kind) \cup {q}
                /\ input # <<>> /\ Head(input).type = Right(kind)
  <2>1. CASE requests[r].kind = kind /\ Found(kind) = "served"
    <3>1. ServedOf(kind)' = ServedOf(kind) \cup {r}
      BY <1>2, <1>5, <2>1
    <3> QED BY <1>3, <2>1, <3>1
  <2>2. CASE ~(requests[r].kind = kind /\ Found(kind) = "served")
    BY <1>2, <1>5, <2>2
  <2> QED BY <2>1, <2>2
<1> QED BY <1>4, <1>5

\* Whoever reads an answer, it is read once.
LEMMA SpentStep == LineOK /\ SpentInv /\ [Next]_vars => SpentInv'
<1> SUFFICES ASSUME LineOK, SpentInv, [Next]_vars, NEW kind \in Kinds
             PROVE  Cardinality(ServedOf(kind)') + Cardinality(PendingOf(kind)') <= Cardinality(SaidOf(kind)')
  BY DEF SpentInv
<1>a. TypeOK /\ LineInv /\ Right(kind) \in Answers /\ Right(kind) # "nothing" /\ Right(kind) # "message"
  BY Rights DEF LineOK
<1>1. CASE \/ UNCHANGED vars \/ Close
           \/ LoadSession \/ LoadFails \/ MainWaits \/ MainFails \/ MainEnds \/ Skim \/ Message \/ EndRun
  <2>1. Takes /\ UNCHANGED requests
    BY <1>1 DEF vars, daemon, Close, LoadSession, LoadFails, MainWaits, MainFails, MainEnds, Skim,
      Message, EndRun, Turn, Takes, Rest
  <2>2. PendingOf(kind)' \subseteq PendingOf(kind)
    BY <1>a, <2>1, TakesOf DEF PendingOf
  <2>3. ServedOf(kind)' = ServedOf(kind) /\ SaidOf(kind)' = SaidOf(kind)
    BY <2>1 DEF ServedOf, Served, SaidOf
  <2> QED BY <2>2, <2>3, NothingSpent
<1>2. CASE \/ \E k \in Kinds : Ask(k)
           \/ \E r \in Reading \ {Main} : Resume(r)
  <2>1. SaidOf(kind)' = SaidOf(kind)
    <3>1. /\ DOMAIN requests \subseteq DOMAIN requests'
          /\ \A r \in DOMAIN requests : requests'[r].said = requests[r].said
          /\ \A r \in (DOMAIN requests') \ DOMAIN requests : requests'[r].said = "nothing"
      BY <1>2, CallTakes
    <3> QED BY <1>a, <3>1 DEF SaidOf
  <2>2. Takes /\ (input # <<>> => input' = Tail(input))
    BY <1>2, CallTakes
  <2>3. PendingOf(kind)' \subseteq PendingOf(kind)
    BY <1>a, <2>2, TakesOf DEF PendingOf
  <2>4. CASE ServedOf(kind)' = ServedOf(kind)
    BY <2>1, <2>3, <2>4, NothingSpent
  <2>5. CASE /\ \E r : ServedOf(kind)' = ServedOf(kind) \cup {r}
             /\ input # <<>> /\ Head(input).type = Right(kind)
    <3>1. PICK r : ServedOf(kind)' = ServedOf(kind) \cup {r}
      BY <2>5
    <3>2. /\ OfType(Right(kind))' = OfType(Right(kind)) \ {Head(input).of}
          /\ Head(input).of \in OfType(Right(kind))
      BY <1>a, <2>2, <2>5, Taken
    <3> QED BY <2>1, <3>1, <3>2, OneSpent DEF PendingOf
  <2> QED BY <1>2, <2>4, <2>5, ServedAfter
<1>3. ASSUME NEW type \in {"start", "message", "junk", "long"}, NEW s \in Sessions, Say(type, s)
      PROVE  Cardinality(ServedOf(kind)') + Cardinality(PendingOf(kind)') <= Cardinality(SaidOf(kind)')
  <2> DEFINE line == [type |-> type, session |-> s, of |-> IF type = "message" THEN messages + 1 ELSE 0]
  <2>1. line \in Line /\ line.type # Right(kind)
    BY <1>a DEF Line, Answers, LineOK, WakeInv
  <2>2. input' = Append(input, line) /\ requests' = requests
    BY <1>3 DEF Say, Write
  <2> HIDE DEF line
  <2>3. OfType(Right(kind))' =
          OfType(Right(kind)) \cup (IF line.type = Right(kind) THEN {line.of} ELSE {})
    BY <1>a, <2>1, <2>2, Appends
  <2>4. PendingOf(kind)' = PendingOf(kind)
    BY <2>1, <2>3 DEF PendingOf
  <2>5. ServedOf(kind)' = ServedOf(kind) /\ SaidOf(kind)' = SaidOf(kind)
    BY <2>2 DEF ServedOf, Served, SaidOf
  <2> QED BY <2>4, <2>5, NothingSpent
<1>4. ASSUME NEW r \in DOMAIN requests, NEW type \in Answers \cup {"junk"}, Reply(r, type)
      PROVE  Cardinality(ServedOf(kind)') + Cardinality(PendingOf(kind)') <= Cardinality(SaidOf(kind)')
  <2>1. PICK s \in Sessions : Write([type |-> type, session |-> s, of |-> r])
    BY <1>4 DEF Reply
  <2> DEFINE line == [type |-> type, session |-> s, of |-> r]
  <2>2. line \in Line /\ line.type = type /\ line.of = r
    BY <1>a, Typed DEF Line
  <2>3. input' = Append(input, line)
    BY <2>1 DEF Write
  <2> HIDE DEF line
  <2>4. OfType(Right(kind))' = OfType(Right(kind)) \cup (IF type = Right(kind) THEN {r} ELSE {})
    BY <1>a, <2>2, <2>3, Appends
  <2>5. /\ requests[r].said = "nothing" /\ DOMAIN requests' = DOMAIN requests
        /\ \A q \in DOMAIN requests :
             /\ requests'[q].kind = requests[q].kind /\ requests'[q].got = requests[q].got
             /\ requests'[q].said = IF q = r THEN type ELSE requests[q].said
    BY <1>a, <1>4, Said DEF Reply
  <2>6. ServedOf(kind)' = ServedOf(kind)
    BY <2>5 DEF ServedOf, Served
  <2>7. CASE type = Right(kind)
    <3>1. SaidOf(kind)' = SaidOf(kind) \cup {r} /\ r \notin SaidOf(kind)
      BY <1>a, <2>5, <2>7 DEF SaidOf
    <3>2. PendingOf(kind)' = PendingOf(kind) \cup {r}
      BY <2>4, <2>7 DEF PendingOf
    <3> QED BY <2>6, <3>1, <3>2, OneSaid
  <2>8. CASE type # Right(kind)
    <3>1. SaidOf(kind)' = SaidOf(kind)
      BY <1>a, <2>5, <2>8 DEF SaidOf
    <3>2. PendingOf(kind)' = PendingOf(kind)
      BY <2>4, <2>8 DEF PendingOf
    <3> QED BY <2>6, <3>1, <3>2, NothingSpent
  <2> QED BY <2>7, <2>8
<1> QED BY <1>1, <1>2, <1>3, <1>4 DEF Next, Client, Loop, Calls

-----------------------------------------------------------------------------
(* A client in order *)

\* What OrderlyInv says of the daemon and of a request, as long as the client is orderly.
Calm == taken = {} /\ Len(input) <= 1 /\ (Serving /\ Reading = {} => input = <<>>)
Settled(r) ==
  IF requests[r].got = "nothing"
    THEN /\ main = "serve" /\ Reading = {r}
         /\ requests[r].said = "nothing" => input = <<>>
         /\ requests[r].said # "nothing" =>
              Len(input) = 1 /\ input[1].type = requests[r].said /\ input[1].of = r
    ELSE /\ requests[r].got = "served" <=> Answered(r)
         /\ requests[r].said = "nothing" => closed

\* The invariant, taken apart.
LEMMA OrderlyIs == OrderlyInv <=> (orderly => Calm /\ \A r \in DOMAIN requests : Settled(r))
BY DEF OrderlyInv, Calm, Settled

\* Outside a run no call reads, and each is settled for good.
LEMMA OrderlyIdle ==
  ASSUME TypeOK, orderly, OrderlyInv, main # "serve"
  PROVE  /\ \A r \in DOMAIN requests :
              /\ requests[r].got # "nothing" /\ (requests[r].got = "served" <=> Answered(r))
              /\ requests[r].said = "nothing" => closed
         /\ Reading \subseteq {Main}
<1>1. \A r \in DOMAIN requests : Settled(r)
  BY OrderlyIs
<1>2. \A r \in DOMAIN requests : requests[r].got # "nothing"
  BY <1>1 DEF Settled
<1> QED BY <1>1, <1>2 DEF Settled, Reading

\* As long as the client is orderly, what a call finds is its own answer.
LEMMA OrderlyStep == LineOK /\ OrderlyInv /\ [Next]_vars => OrderlyInv'
<1> SUFFICES ASSUME LineOK, OrderlyInv, [Next]_vars, orderly'
             PROVE  Calm' /\ \A r \in DOMAIN requests' : Settled(r)'
  BY OrderlyIs DEF OrderlyInv, Calm, Settled
<1>a. /\ TypeOK /\ LineInv /\ WakeInv
  BY DEF LineOK
<1>b. ASSUME orderly PROVE Calm /\ \A r \in DOMAIN requests : Settled(r)
  BY <1>b, OrderlyIs
<1>c. ASSUME UNCHANGED <<input, main, requests, taken, orderly>>, closed => closed'
      PROVE  Calm' /\ \A r \in DOMAIN requests' : Settled(r)'
  BY <1>b, <1>c DEF Calm, Settled, Serving, Reading, Answered
<1>1. CASE UNCHANGED vars \/ Close \/ MainWaits
  <2>1. UNCHANGED <<input, main, requests, taken, orderly>> /\ (closed => closed')
    <3>1. CASE UNCHANGED vars
      BY <3>1 DEF vars, daemon
    <3>2. CASE Close \/ MainWaits
      BY <3>2 DEF Close, MainWaits
    <3> QED BY <1>1, <3>1, <3>2
  <2> QED BY <1>c, <2>1
\* Steps of the main loop that leave the requests.
<1>d. ASSUME orderly, main # "serve", UNCHANGED <<closed, requests>>, Calm'
      PROVE  \A r \in DOMAIN requests' : Settled(r)'
  BY <1>a, <1>d, OrderlyIdle DEF Settled, Answered
<1>2. CASE LoadSession \/ LoadFails \/ MainFails \/ MainEnds
  <2>1. /\ UNCHANGED <<input, closed, requests, taken, orderly>> /\ main # "serve"
        /\ Serving' => Serving
    BY <1>2 DEF LoadSession, LoadFails, MainFails, MainEnds, Turn, Serving
  <2>2. Reading \subseteq {Main} /\ Calm
    BY <1>a, <1>b, <2>1, OrderlyIdle
  <2>3. Serving => Reading = {}
    <3>1. Serving => Main \notin Reading
      BY <1>a, Readers DEF Serving, Reading
    <3> QED BY <2>2, <3>1
  <2>4. Calm'
    BY <2>1, <2>2, <2>3 DEF Calm
  <2> QED BY <1>d, <2>1, <2>4
<1>3. CASE Skim \/ Message
  <2>1. /\ UNCHANGED <<closed, requests, taken, orderly>> /\ main = "read" /\ input # <<>>
        /\ input' = Tail(input)
    BY <1>3 DEF Skim, Message, Rest
  <2>2. Calm
    BY <1>b, <2>1
  <2>3. input' \in Seq(Line) /\ Len(input') = 0
    BY <1>a, <2>1, <2>2, Taken, Typed DEF Calm
  <2>4. input' = <<>>
    BY <2>3, EmptySeq
  <2>5. Calm'
    BY <2>1, <2>2, <2>3, <2>4 DEF Calm
  <2> QED BY <1>d, <2>1, <2>5
<1>4. CASE EndRun
  <2>1. /\ UNCHANGED <<input, closed, requests, taken>> /\ main' = "read" /\ orderly /\ Reading = {}
    BY <1>4 DEF EndRun
  <2>2. Calm'
    BY <1>b, <2>1 DEF Calm, Serving
  <2>3. ASSUME NEW r \in DOMAIN requests PROVE requests[r].got # "nothing" /\ Settled(r)
    BY <1>b, <2>1, <2>3 DEF Reading
  <2> QED BY <2>1, <2>2, <2>3 DEF Settled, Answered
<1>5. ASSUME NEW type \in {"start", "message", "junk", "long"}, NEW s \in Sessions, Say(type, s)
      PROVE  Calm' /\ \A r \in DOMAIN requests' : Settled(r)'
  <2> DEFINE line == [type |-> type, session |-> s, of |-> IF type = "message" THEN messages + 1 ELSE 0]
  <2>1. line \in Line
    BY <1>a DEF Line, WakeInv
  <2>2. /\ input' = Append(input, line) /\ UNCHANGED <<closed, main, requests, taken>>
        /\ orderly /\ main = "read" /\ input = <<>>
    BY <1>5 DEF Say, Write
  <2> HIDE DEF line
  <2>3. Len(input') = 1
    BY <1>a, <2>1, <2>2, Appends, Typed
  <2>4. Calm'
    BY <1>b, <2>2, <2>3 DEF Calm, Serving
  <2> QED BY <1>d, <2>2, <2>4
<1>6. ASSUME NEW r \in DOMAIN requests, NEW type \in Answers \cup {"junk"}, Reply(r, type)
      PROVE  Calm' /\ \A q \in DOMAIN requests' : Settled(q)'
  <2>1. PICK s \in Sessions : Write([type |-> type, session |-> s, of |-> r])
    BY <1>6 DEF Reply
  <2> DEFINE line == [type |-> type, session |-> s, of |-> r]
  <2>2. line \in Line /\ line.type = type /\ line.of = r
    BY <1>a, Typed DEF Line
  <2>3. /\ input' = Append(input, line) /\ UNCHANGED <<main, taken, closed>> /\ ~closed /\ orderly
        /\ requests[r].said = "nothing"
    BY <1>6, <2>1 DEF Reply, Write
  <2> HIDE DEF line
  <2>4. /\ DOMAIN requests' = DOMAIN requests
        /\ \A q \in DOMAIN requests :
             /\ requests'[q].kind = requests[q].kind /\ requests'[q].got = requests[q].got
             /\ requests'[q].said = IF q = r THEN type ELSE requests[q].said
    BY <1>a, <1>6, Said DEF Reply
  <2>5. Calm /\ \A q \in DOMAIN requests : Settled(q)
    BY <1>b, <2>3
  <2>6. requests[r].got = "nothing" /\ main = "serve" /\ Reading = {r} /\ input = <<>>
    BY <2>3, <2>5 DEF Settled
  <2>7. Reading' = Reading
    BY <1>a, <2>3, <2>4, ReadingTurns
  <2>8. Len(input') = 1 /\ input'[1].type = type /\ input'[1].of = r
    BY <1>a, <2>2, <2>3, <2>6, Appends, Typed
  <2>9. Calm'
    BY <2>3, <2>5, <2>6, <2>7, <2>8 DEF Calm
  <2>10. ASSUME NEW q \in DOMAIN requests PROVE Settled(q)'
    <3>1. CASE q = r
      <4>1. type # "nothing"
        BY Rights
      <4> QED BY <2>3, <2>4, <2>6, <2>7, <2>8, <3>1, <4>1 DEF Settled
    <3>2. CASE q # r
      <4>1. requests[q].got # "nothing"
        BY <2>6, <3>2 DEF Reading
      <4> QED BY <2>3, <2>4, <2>5, <3>2, <4>1 DEF Settled, Answered
    <3> QED BY <3>1, <3>2
  <2> QED BY <2>4, <2>9, <2>10
<1>7. ASSUME NEW kind \in Kinds, Ask(kind)
      PROVE  Calm' /\ \A q \in DOMAIN requests' : Settled(q)'
  <2>0. PICK new : new = Len(requests) + 1
    OBVIOUS
  <2>1. /\ orderly /\ Reading = {} /\ input = <<>> /\ main = "serve" /\ ReadLine(new, kind)
    BY <1>7, <2>0 DEF Ask
  <2>2. /\ DOMAIN requests' = DOMAIN requests \cup {new}
        /\ \A q \in DOMAIN requests : requests'[q] = requests[q]
        /\ requests'[new] = [kind |-> kind, said |-> "nothing", got |-> Found(kind)]
    BY <1>a, <1>7, <2>0, Finds, Joins DEF Ask
  <2>3. input' = input /\ taken' = taken /\ main' = main /\ closed' = closed
    BY <2>1 DEF ReadLine, Left
  <2>4. Reading' = IF Found(kind) = "nothing" THEN {new} ELSE {}
    BY <1>a, <1>7, <2>0, <2>1, ReadingAsks
  <2>5. waiting = {}
    BY <1>a, <2>1 DEF WakeInv
  <2>6. Found(kind) # "served" /\ (Found(kind) # "nothing" => closed)
    BY <1>a, <2>1, <2>5, Finds
  <2>7. Calm /\ \A q \in DOMAIN requests : Settled(q)
    BY <1>b, <2>1
  <2>8. Calm'
    BY <1>a, <2>1, <2>3, <2>7, Typed DEF Calm
  <2>9. Settled(new)'
    <3>1. requests'[new].got = Found(kind) /\ requests'[new].said = "nothing" /\ requests'[new].kind = kind
      BY <2>2
    <3>2. ~Answered(new)'
      BY <3>1, Rights DEF Answered
    <3>3. CASE Found(kind) = "nothing"
      BY <2>1, <2>3, <2>4, <3>1, <3>3 DEF Settled
    <3>4. CASE Found(kind) # "nothing"
      BY <2>3, <2>6, <3>1, <3>2, <3>4 DEF Settled
    <3> QED BY <3>3, <3>4
  <2>10. ASSUME NEW q \in DOMAIN requests PROVE Settled(q)'
    <3>1. requests[q].got # "nothing"
      BY <2>1 DEF Reading
    <3> QED BY <2>2, <2>3, <2>7, <3>1 DEF Settled, Answered
  <2> QED BY <2>2, <2>8, <2>9, <2>10
<1>8. ASSUME NEW r \in Reading \ {Main}, Resume(r)
      PROVE  Calm' /\ \A q \in DOMAIN requests' : Settled(q)'
  <2>1. /\ r \in DOMAIN requests /\ requests[r].got = "nothing" /\ requests[r].kind \in Kinds
        /\ orderly /\ ReadLine(r, requests[r].kind) /\ r \notin waiting
    BY <1>a, <1>8, Readers, Typed DEF Resume
  <2> DEFINE found == Found(requests[r].kind)
  <2>2. Calm /\ \A q \in DOMAIN requests : Settled(q)
    BY <1>b, <2>1
  <2>3. /\ main = "serve" /\ Reading = {r}
        /\ requests[r].said = "nothing" => input = <<>>
        /\ requests[r].said # "nothing" =>
             Len(input) = 1 /\ input[1].type = requests[r].said /\ input[1].of = r
    BY <2>1, <2>2 DEF Settled
  <2>4. /\ DOMAIN requests' = DOMAIN requests
        /\ \A q \in DOMAIN requests :
             /\ requests'[q].kind = requests[q].kind /\ requests'[q].said = requests[q].said
             /\ requests'[q].got = IF q = r THEN found ELSE requests[q].got
    BY <1>a, <1>8, <2>1, Finds, Got DEF Resume
  <2>5. waiting = {}
    BY <1>a, <2>1, <2>3 DEF WakeInv
  <2>6. main' = main /\ closed' = closed
    BY <2>1 DEF ReadLine
  <2>7. Reading' = IF found = "nothing" THEN {r} ELSE {}
    BY <1>a, <1>8, <2>3, ReadingResumes
  <2>8. ASSUME NEW q \in DOMAIN requests, q # r PROVE Settled(q)'
    <3>1. requests[q].got # "nothing"
      BY <2>3, <2>8 DEF Reading
    <3> QED BY <2>2, <2>4, <2>6, <2>8, <3>1 DEF Settled, Answered
  <2>9. CASE requests[r].said = "nothing"
    <3>1. input = <<>> /\ input' = input /\ taken' = taken
      BY <2>1, <2>3, <2>9 DEF ReadLine, Left
    <3>2. found # "served" /\ (found # "nothing" => closed)
      BY <1>a, <2>1, <2>5, <3>1, Finds
    <3>3. Calm'
      BY <1>a, <2>2, <3>1, Typed DEF Calm
    <3>4. ~Answered(r)'
      BY <2>1, <2>4, <2>9, Rights DEF Answered
    <3>5. Settled(r)'
      <4>1. CASE found = "nothing"
        BY <2>1, <2>3, <2>4, <2>6, <2>7, <2>9, <3>1, <4>1 DEF Settled
      <4>2. CASE found # "nothing"
        BY <2>1, <2>4, <2>6, <3>2, <3>4, <4>2 DEF Settled
      <4> QED BY <4>1, <4>2
    <3> QED BY <2>4, <2>8, <3>3, <3>5
  <2>10. CASE requests[r].said # "nothing"
    <3>1. /\ Len(input) = 1 /\ Head(input).type = requests[r].said /\ input # <<>>
          /\ Head(input).type # "message"
      BY <1>a, <2>1, <2>3, <2>10, Typed, Rights
    <3>2. input' = Tail(input) /\ taken' = taken
      BY <2>1, <3>1 DEF ReadLine, Left, Rest
    <3>3. input' \in Seq(Line) /\ Len(input') = 0
      BY <1>a, <3>1, <3>2, Taken
    <3>4. input' = <<>>
      BY <3>3, EmptySeq
    <3>5. Calm'
      BY <2>2, <3>2, <3>3, <3>4 DEF Calm
    <3>6. found # "nothing" /\ (found = "served" <=> requests[r].said = Right(requests[r].kind))
      BY <1>a, <2>1, <3>1, Finds
    <3>7. Settled(r)'
      BY <2>1, <2>4, <2>10, <3>6 DEF Settled, Answered
    <3> QED BY <2>4, <2>8, <3>5, <3>7
  <2> QED BY <2>9, <2>10
<1> QED BY <1>1, <1>2, <1>3, <1>4, <1>5, <1>6, <1>7, <1>8 DEF Next, Client, Loop, Calls

-----------------------------------------------------------------------------
(* The theorems *)

\* The invariant holds of a daemon that has just been started,
LEMMA DaemonInit == Init => DaemonInv
<1> SUFFICES ASSUME Init PROVE DaemonInv
  OBVIOUS
<1>1. /\ input = <<>> /\ requests = <<>> /\ ended = <<>> /\ taken = {} /\ waiting = {}
      /\ main = "read" /\ messages = 0 /\ closed = FALSE /\ sessions = {} /\ current = 0 /\ orderly = TRUE
  BY DEF Init
<1>2. /\ <<>> \in Seq(Line) /\ <<>> \in Seq(Request) /\ <<>> \in Seq(1..messages)
      /\ DOMAIN <<>> = {} /\ Len(<<>>) = 0
  BY EmptySeq
<1>3. TypeOK
  <2>1. Cardinality(waiting) = 0
    BY <1>1, FS_EmptySet, Zenon
  <2>2. waiting \subseteq Reading /\ taken \subseteq 1..messages /\ sessions \subseteq Sessions
    BY <1>1
  <2>3. /\ input \in Seq(Line) /\ ended \in Seq(1..messages)
        /\ requests \in Seq([kind : Kinds, said : {"nothing", "junk"} \cup Answers,
                             got : {"nothing", "served", "refused"}])
    BY <1>1, <1>2 DEF Request
  <2>4. current \in 0..messages /\ main \in {"read", "load", "serve", "closed", "crashed"}
    BY <1>1
  <2>5. closed \in BOOLEAN /\ orderly \in BOOLEAN
    BY DEF Init
  <2> QED BY <2>1, <2>2, <2>3, <2>4, <2>5 DEF TypeOK
<1>4. \A type : OfType(type) = {}
  BY <1>1, <1>2 DEF OfType
<1>5. WakeInv /\ LineInv
  BY <1>1, <1>2, <1>4 DEF WakeInv, LineInv
<1>6. ToSet(ended) = {}
  BY <1>1, <1>2 DEF ToSet
<1>7. PlaceInv /\ FoundInv /\ AnsweredOnce
  <2>1. Unread = {} /\ ~Serving /\ 1..messages = {}
    BY <1>1, <1>4 DEF Unread, Serving
  <2> QED BY <1>1, <1>2, <1>6, <2>1 DEF PlaceInv, FoundInv, AnsweredOnce
<1>8. SpentInv
  <2>1. ASSUME NEW kind \in Kinds PROVE ServedOf(kind) = {} /\ SaidOf(kind) = {} /\ PendingOf(kind) = {}
    BY <1>1, <1>2, <1>4 DEF ServedOf, Served, SaidOf, PendingOf
  <2>2. Cardinality({}) = 0
    BY FS_EmptySet
  <2>3. ASSUME NEW kind \in Kinds
        PROVE  Cardinality(ServedOf(kind)) + Cardinality(PendingOf(kind)) <= Cardinality(SaidOf(kind))
    <3>1. /\ Cardinality(ServedOf(kind)) = 0 /\ Cardinality(PendingOf(kind)) = 0
          /\ Cardinality(SaidOf(kind)) = 0
      BY <2>1, <2>2, Zenon
    <3> QED BY <3>1
  <2> QED BY <2>3 DEF SpentInv
<1>9. OrderlyInv
  BY <1>1, <1>2 DEF OrderlyInv
<1> QED BY <1>3, <1>5, <1>7, <1>8, <1>9 DEF DaemonInv

\* and every step keeps it.
LEMMA DaemonStep == DaemonInv /\ [Next]_vars => DaemonInv'
BY WakeStep, TypeStep, LineStep, PlaceStep, OnceStep, SpentStep, OrderlyStep DEF DaemonInv, LineOK

\* The invariant that the theorems follow from: every line that matters is of a
\* request or message of its own, every message in one place, and what is left
\* of the answers enough for who is still to read them.
THEOREM DaemonKept == Spec => []DaemonInv
<1>1. Init => DaemonInv
  BY DaemonInit
<1>2. DaemonInv /\ [Next]_vars => DaemonInv'
  BY DaemonStep
<1> QED BY <1>1, <1>2, PTL DEF Spec

\* At most one reader waits on the stream, and it is one that reads; the
\* messages that the daemon notes are messages that it got.
THEOREM DaemonTyped == Spec => []TypeOK
<1>1. DaemonInv => TypeOK
  BY DEF DaemonInv
<1> QED BY <1>1, DaemonKept, PTL

\* Whoever takes an answer, it lets one call go on at most; and of an orderly
\* client each call gets the answer to its own request.
THEOREM GrantsKept == Spec => []GrantLaw
<1>1. ASSUME DaemonInv PROVE GrantLaw
  <2>1. OrderlyMatching
    BY <1>1 DEF DaemonInv, OrderlyInv, OrderlyMatching, Served
  <2>2. ASSUME NEW kind \in Kinds
        PROVE  Cardinality({r \in Served : requests[r].kind = kind})
                 <= Cardinality({r \in DOMAIN requests : requests[r].said = Right(kind)})
    <3>1. LineOK
      BY <1>1 DEF DaemonInv, LineOK
    <3>2. /\ Cardinality(ServedOf(kind)) \in Nat /\ Cardinality(PendingOf(kind)) \in Nat
          /\ Cardinality(SaidOf(kind)) \in Nat
      BY <3>1, Finite
    <3>3. Cardinality(ServedOf(kind)) + Cardinality(PendingOf(kind)) <= Cardinality(SaidOf(kind))
      BY <1>1 DEF DaemonInv, SpentInv
    <3>4. Cardinality(ServedOf(kind)) <= Cardinality(SaidOf(kind))
      BY <3>2, <3>3
    <3> QED BY <3>4 DEF ServedOf, SaidOf
  <2> QED BY <2>1, <2>2 DEF GrantLaw, GrantsSpent
<1>2. DaemonInv => GrantLaw
  BY <1>1
<1> QED BY <1>2, DaemonKept, PTL

\* No message is answered twice, none is lost before the daemon ends, except to
\* a call that takes it for its answer, and of an orderly client not even then.
THEOREM MessagesKept == Spec => []MessageLaw
<1>1. ASSUME DaemonInv PROVE MessageLaw
  <2>1. ASSUME main = "closed" PROVE ToSet(ended) \cup taken = 1..messages
    <3>1. input = <<>> /\ ~Serving /\ main # "crashed"
      BY <1>1, <2>1 DEF DaemonInv, FoundInv, Serving
    <3>2. Unread = {}
      BY <1>1, <3>1, EmptySeq DEF Unread, OfType
    <3>3. 1..messages \subseteq ToSet(ended) \cup taken
      BY <1>1, <3>1, <3>2 DEF DaemonInv, FoundInv
    <3>4. ended \in Seq(1..messages) /\ taken \subseteq 1..messages
      BY <1>1 DEF DaemonInv, TypeOK
    <3>5. \A i \in DOMAIN ended : ended[i] \in 1..messages
      BY <3>4, LenProperties, ElementOfSeq
    <3>6. ToSet(ended) \subseteq 1..messages
      BY <3>5 DEF ToSet
    <3> QED BY <3>3, <3>4, <3>6
  <2>2. orderly => taken = {}
    BY <1>1 DEF DaemonInv, OrderlyInv
  <2>3. AnsweredOnce
    BY <1>1 DEF DaemonInv
  <2> QED BY <2>1, <2>2, <2>3 DEF MessageLaw, NoneForgotten
<1>2. DaemonInv => MessageLaw
  BY <1>1
<1> QED BY <1>2, DaemonKept, PTL
=============================================================================
