------------------------- MODULE ToolServersProofs -------------------------
(***************************************************************************)
(* Proofs about ToolServers, for any calls, sessions, server processes and *)
(* unasked messages: a request has its own answer (AnswerLaw), and a       *)
(* server is used after its handshake and none outlives its use            *)
(* (ServerLaw).                                                            *)
(*                                                                         *)
(* The argument.  An id is given once, so an answer under way belongs to   *)
(* the one request that can carry its id (IdInv).  Among requests that     *)
(* wait for each other, and unless a read was given up inside a message,   *)
(* what the server has sent is a row of whole messages of which at most    *)
(* the first is begun, exactly as far as the reader is (PipeInv); so a     *)
(* reader throws nothing away but what is not its answer.  The handshake   *)
(* is complete when its script is, and the process that had it is the only *)
(* one that lives (HandInv, ProcInv).                                      *)
(***************************************************************************)
EXTENDS ToolServers, SequenceTheorems, TLAPS

\* What a user does, and what is known of a process.
Messages == Requests \cup {"initialized", "didOpen"}
Work == [pc : {"idle", "write", "read", "waiting", "posted"},
         script : Seq(Messages), id : Nat, want : Parts,
         outcome : {"unused", "none", "ok", "failed"}, got : Token]
Proc == [alive : BOOLEAN, shook : BOOLEAN, todo : SUBSET (Nat \X Users),
         unsent : Seq(Token), out : Seq(Token)]

Typed ==
  /\ kind \in {"stdio", "http", "lsp"} /\ serial \in BOOLEAN
  /\ phase \in {"load", "serve", "shut"} /\ sessions \in 0..MaxSessions
  /\ registered \in BOOLEAN /\ initialized \in BOOLEAN /\ cached \in BOOLEAN
  /\ proc \in 0..Len(procs) /\ Len(procs) <= MaxProcs /\ notes \in 0..MaxNotes
  /\ cut \in BOOLEAN /\ nextId \in Nat \ {0}
  /\ procs \in Seq(Proc) /\ user \in [Users -> Work]

\* The scripts that are left of a handshake, of a registration and of a call.
Shaking == {<<"initialize", "initialized">>, <<"initialize", "initialized", "list">>}
Shaken == {<<"initialized">>, <<"initialized", "list">>}
MainScripts == {<<>>, <<"list">>} \cup Shaking \cup Shaken
CallScripts == {<<>>, <<"didOpen", "query">>, <<"query">>, <<"call">>}

Reading(u) == user[u].pc \in {"read", "waiting"}

\* Where the user of a script stands.
StandsAt(u) ==
  /\ user[u].pc = "idle" <=> user[u].script = <<>>
  /\ user[u].outcome = "unused" => user[u].pc = "idle"
  /\ user[u].pc \in {"idle", "write"} => user[u].want = "line" /\ user[u].id = 0
  /\ Reading(u) =>
       /\ kind # "http" /\ proc # 0 /\ user[u].id # 0
       /\ Head(user[u].script) \in Requests
       /\ user[u].want \in IF kind = "lsp" THEN {"header", "blank", "body"}
                                           ELSE {"line"}
  /\ user[u].pc = "posted" =>
       /\ kind = "http" /\ proc # 0 /\ user[u].want = "line"
       /\ user[u].id # 0 <=> Head(user[u].script) \in Requests
  /\ user[u].id < nextId

\* Start-up, a registration and the calls follow one another.
WorkInv ==
  /\ \A u \in Users : StandsAt(u)
  /\ user["main"].script \in MainScripts
  /\ \A c \in Calls : user[c].script \in CallScripts
  /\ \A c \in Calls : ~Idle(c) => Idle("main") /\ phase = "serve" /\ registered
  /\ phase = "load" => user["main"].script \in {Handshake, <<"initialized">>}
  /\ phase = "shut" => Quiet
  /\ serial => \A u, v \in Users : ~Idle(u) /\ ~Idle(v) => u = v

\* What comes after the handshake's request comes after its answer, and a
\* living server has had the rest of the handshake or has it next.
HandInv ==
  /\ user["main"].script \in Shaken \cup {<<"list">>} => initialized
  /\ registered /\ phase # "shut" => initialized
  /\ kind = "lsp" /\ phase = "serve" => initialized
  /\ initialized /\ phase # "shut" => proc # 0
  /\ kind # "http" /\ initialized /\ proc # 0 /\ procs[proc].alive =>
       procs[proc].shook \/ user["main"].script \in Shaken

\* Only the client's process lives, and none after the end.
ProcInv ==
  /\ \A p \in DOMAIN procs : procs[p].alive => p = proc
  /\ phase = "shut" /\ kind # "lsp" => proc = 0

\* An answer, owed or sent, is for the user that carries its id, if one does.
Owned(id, for) ==
  id < nextId /\ id # 0 /\ \A u \in Users : user[u].id = id => for = u
OwnedIn(s) == \A k \in DOMAIN s : s[k].kind \in Answers => Owned(s[k].id, s[k].for)
IdAt(p) ==
  /\ \A q \in procs[p].todo : Owned(q[1], q[2])
  /\ OwnedIn(procs[p].out)
  /\ OwnedIn(procs[p].unsent)
IdInv == \A p \in DOMAIN procs : IdAt(p)

\* What the client's server has sent and no one has read.
Stream == procs[proc].out \o procs[proc].unsent

\* Whole messages from the second on: of one that is begun the rest follows.
Follows(s, t) ==
  /\ s.part = "header" => t.part = "blank" /\ t.id = s.id /\ t.kind = s.kind
  /\ s.part = "blank" => t.part = "body" /\ t.id = s.id /\ t.kind = s.kind
  /\ s.part = "body" => t.part = "header"
Last == IF kind = "lsp" THEN "body" ELSE "line"
Framing(s, whole) ==
  /\ \A i \in 1..Len(s) :
       s[i].part \in IF kind = "lsp" THEN {"header", "blank", "body"} ELSE {"line"}
  /\ \A i \in 1..Len(s) : i + 1 \in 1..Len(s) => Follows(s[i], s[i + 1])
  /\ whole /\ Len(s) # 0 => s[Len(s)].part = Last

\* The answer to u is owed or stands in s, and so does the rest of a message
\* that u has begun to read.
Due(u, todo, s) ==
  /\ \/ <<user[u].id, u>> \in todo
     \/ \E k \in 1..Len(s) : s[k].id = user[u].id /\ s[k].kind # "note"
  /\ user[u].want # FirstPart => Len(s) # 0

\* The stream goes on where its reader is, and the reader's answer is to come.
InPlace(s) ==
  Len(s) # 0 =>
    /\ \A u \in Users : Reading(u) => s[1].part = user[u].want
    /\ (\A u \in Users : ~Reading(u)) => s[1].part = FirstPart

Ordered == serial /\ ~cut /\ proc # 0 /\ kind # "http"
PipeInv ==
  Ordered =>
    /\ Framing(Stream, procs[proc].alive)
    /\ InPlace(Stream)
    /\ procs[proc].alive =>
         \A u \in Users : Reading(u) => Due(u, procs[proc].todo, Stream)

ServersInv ==
  Typed /\ WorkInv /\ HandInv /\ ProcInv /\ IdInv /\ OwnAnswer /\ PipeInv

-----------------------------------------------------------------------------
(* The scripts *)

\* The handshake, and what a registration asks.
LEMMA Literals ==
  /\ Handshake = <<"initialize", "initialized">>
  /\ Registration \in {<<>>, <<"list">>, Handshake, <<"initialize", "initialized", "list">>}
  /\ initialized => Registration \in {<<>>, <<"list">>}
  /\ ~initialized => Registration \in Shaking
  /\ Registration = <<>> => initialized
<1>1. Handshake \o <<"list">> = <<"initialize", "initialized", "list">>
  <2> DEFINE h == <<"initialize", "initialized">>
             l == <<"list">>
             r == <<"initialize", "initialized", "list">>
  <2>1. h \in Seq(Messages) /\ l \in Seq(Messages) /\ r \in Seq(Messages)
        /\ Len(h) = 2 /\ Len(l) = 1 /\ Len(r) = 3 BY DEF Messages, Requests
  <2>2. /\ h[1] = "initialize" /\ h[2] = "initialized" /\ l[1] = "list"
        /\ r[1] = "initialize" /\ r[2] = "initialized" /\ r[3] = "list" OBVIOUS
  <2> HIDE DEF h, l, r
  <2>a. /\ h \o l \in Seq(Messages) /\ Len(h \o l) = Len(h) + Len(l)
        /\ \A i \in 1..(Len(h) + Len(l)) :
             (h \o l)[i] = IF i <= Len(h) THEN h[i] ELSE l[i - Len(h)]
        BY <2>1, ConcatProperties
  <2>3. /\ h \o l \in Seq(Messages) /\ Len(h \o l) = 3
        /\ \A i \in 1..3 : (h \o l)[i] = IF i <= 2 THEN h[i] ELSE l[i - 2]
        BY <2>1, <2>a
  <2>4. \A i \in 1..3 : (h \o l)[i] = r[i] BY <2>2, <2>3
  <2>5. h \o l = r BY <2>1, <2>3, <2>4, SeqEqual
  <2> QED BY <2>5 DEF h, l, r, Handshake
<1>2. Handshake \o <<>> = Handshake BY DEF Handshake
<1>3. <<>> \o <<"list">> = <<"list">> /\ <<>> \o <<>> = <<>> OBVIOUS
<1>4. Handshake # <<>> /\ <<"list">> # <<>>
      /\ <<"initialize", "initialized", "list">> # <<>> BY DEF Handshake
<1> QED BY <1>1, <1>2, <1>3, <1>4 DEF Registration, Handshake, Shaking

\* What the main loop sends next, and what is left then.
LEMMA MainSteps ==
  ASSUME NEW s \in MainScripts, s # <<>>
  PROVE  /\ s \in Seq(Messages) /\ Head(s) \in Messages
         /\ Tail(s) \in MainScripts /\ Tail(s) \in Seq(Messages)
         /\ s \in Shaking => Head(s) = "initialize" /\ Tail(s) \in Shaken
         /\ s \in Shaken => Head(s) = "initialized" /\ Tail(s) \in {<<>>, <<"list">>}
         /\ s = <<"list">> => Head(s) = "list" /\ Tail(s) = <<>>
         /\ s = Handshake => Tail(s) = <<"initialized">>
         /\ s = <<"initialized">> => Tail(s) = <<>>
<1>1. CASE s = <<"list">>
  <2>1. Head(s) = "list" /\ Tail(s) = <<>> BY <1>1
  <2> QED BY <1>1, <2>1 DEF MainScripts, Shaking, Shaken, Handshake, Messages, Requests
<1>2. CASE s = <<"initialize", "initialized">>
  <2>1. Head(s) = "initialize" /\ Tail(s) = <<"initialized">> BY <1>2
  <2> QED BY <1>2, <2>1 DEF MainScripts, Shaking, Shaken, Handshake, Messages, Requests
<1>3. CASE s = <<"initialize", "initialized", "list">>
  <2>1. Head(s) = "initialize" /\ Tail(s) = <<"initialized", "list">> BY <1>3
  <2> QED BY <1>3, <2>1 DEF MainScripts, Shaking, Shaken, Handshake, Messages, Requests
<1>4. CASE s = <<"initialized">>
  <2>1. Head(s) = "initialized" /\ Tail(s) = <<>> BY <1>4
  <2> QED BY <1>4, <2>1 DEF MainScripts, Shaking, Shaken, Handshake, Messages, Requests
<1>5. CASE s = <<"initialized", "list">>
  <2>1. Head(s) = "initialized" /\ Tail(s) = <<"list">> BY <1>5
  <2> QED BY <1>5, <2>1 DEF MainScripts, Shaking, Shaken, Handshake, Messages, Requests
<1> QED BY <1>1, <1>2, <1>3, <1>4, <1>5 DEF MainScripts, Shaking, Shaken

\* What a call sends next, and what is left then.
LEMMA CallSteps ==
  ASSUME NEW s \in CallScripts, s # <<>>
  PROVE  /\ s \in Seq(Messages)
         /\ Head(s) \in {"didOpen", "query", "call"}
         /\ Tail(s) \in CallScripts /\ Tail(s) \in Seq(Messages)
<1>1. CASE s = <<"didOpen", "query">>
  <2>1. Head(s) = "didOpen" /\ Tail(s) = <<"query">> BY <1>1
  <2> QED BY <1>1, <2>1 DEF CallScripts, Messages, Requests
<1>2. CASE s = <<"query">>
  <2>1. Head(s) = "query" /\ Tail(s) = <<>> BY <1>2
  <2> QED BY <1>2, <2>1 DEF CallScripts, Messages, Requests
<1>3. CASE s = <<"call">>
  <2>1. Head(s) = "call" /\ Tail(s) = <<>> BY <1>3
  <2> QED BY <1>3, <2>1 DEF CallScripts, Messages, Requests
<1> QED BY <1>1, <1>2, <1>3 DEF CallScripts

-----------------------------------------------------------------------------
(* Sequences *)

\* b is what stands in t after its first k elements, c is these k.
Rest(b, t, k) == Len(b) = Len(t) - k /\ \A i \in 1..(Len(t) - k) : b[i] = t[i + k]
Front(c, t, k) == Len(c) = k /\ \A i \in 1..k : c[i] = t[i]

\* The part of a sequence from k + 1 on, and the part up to k.
LEMMA Pieces ==
  ASSUME NEW S, NEW t \in Seq(S), NEW k \in 0..Len(t)
  PROVE  /\ SubSeq(t, k + 1, Len(t)) \in Seq(S) /\ Rest(SubSeq(t, k + 1, Len(t)), t, k)
         /\ SubSeq(t, 1, k) \in Seq(S) /\ Front(SubSeq(t, 1, k), t, k)
<1>1. Len(t) \in Nat /\ k \in Int /\ \A i \in 1..Len(t) : t[i] \in S
      BY LenProperties, ElementOfSeq
<1>2. \A i \in (k + 1)..Len(t) : t[i] \in S BY <1>1
<1>3. \A i \in 1..k : t[i] \in S BY <1>1
<1>4. /\ SubSeq(t, k + 1, Len(t)) \in Seq(S)
      /\ Len(SubSeq(t, k + 1, Len(t))) = IF k + 1 <= Len(t) THEN Len(t) - (k + 1) + 1 ELSE 0
      /\ \A i \in 1..(Len(t) - (k + 1) + 1) : SubSeq(t, k + 1, Len(t))[i] = t[k + 1 + i - 1]
      BY <1>1, <1>2, SubSeqProperties
<1>5. /\ SubSeq(t, 1, k) \in Seq(S)
      /\ Len(SubSeq(t, 1, k)) = IF 1 <= k THEN k - 1 + 1 ELSE 0
      /\ \A i \in 1..(k - 1 + 1) : SubSeq(t, 1, k)[i] = t[1 + i - 1]
      BY <1>1, <1>3, SubSeqProperties
<1>6. Rest(SubSeq(t, k + 1, Len(t)), t, k) BY <1>1, <1>4 DEF Rest
<1>7. Front(SubSeq(t, 1, k), t, k) BY <1>1, <1>5 DEF Front
<1> QED BY <1>4, <1>5, <1>6, <1>7

\* d is s without its first element: the others stand one place earlier.
Shifted(d, s) == Len(d) + 1 = Len(s) /\ \A i \in 1..Len(d) : d[i] = s[i + 1]

\* Of a stream that loses its first element the rest goes on.
LEMMA DropFirst ==
  ASSUME NEW S, NEW s \in Seq(S), NEW t \in Seq(S), s # <<>>
  PROVE  LET d == SubSeq(s, 2, Len(s)) IN
         d \in Seq(S) /\ Shifted(d \o t, s \o t)
<1> DEFINE d == SubSeq(s, 2, Len(s))
<1>1. Len(s) \in Nat \ {0} /\ Len(t) \in Nat BY EmptySeq, LenProperties
<1>2. d \in Seq(S) /\ Len(d) = Len(s) - 1 /\ \A i \in 1..Len(d) : d[i] = s[i + 1]
  <2>1. 1 \in 0..Len(s) BY <1>1
  <2>2. SubSeq(s, 1 + 1, Len(s)) \in Seq(S) /\ Rest(SubSeq(s, 1 + 1, Len(s)), s, 1)
        BY <2>1, Pieces, Zenon
  <2>3. 1 + 1 = 2 OBVIOUS
  <2>4. d = SubSeq(s, 1 + 1, Len(s)) BY <2>3, Zenon
  <2> HIDE DEF d
  <2> QED BY <1>1, <2>2, <2>4 DEF Rest
<1> HIDE DEF d
<1>3. /\ Len(d \o t) = Len(d) + Len(t)
      /\ \A i \in 1..(Len(d) + Len(t)) :
           (d \o t)[i] = IF i <= Len(d) THEN d[i] ELSE t[i - Len(d)]
      BY <1>2, ConcatProperties
<1>4. /\ Len(s \o t) = Len(s) + Len(t)
      /\ \A i \in 1..(Len(s) + Len(t)) :
           (s \o t)[i] = IF i <= Len(s) THEN s[i] ELSE t[i - Len(s)]
      BY ConcatProperties
<1>5. ASSUME NEW i \in 1..Len(d \o t) PROVE (d \o t)[i] = (s \o t)[i + 1]
  <2>1. CASE i <= Len(d) BY <2>1, <1>1, <1>2, <1>3, <1>4
  <2>2. CASE i > Len(d) BY <2>2, <1>1, <1>2, <1>3, <1>4
  <2> QED BY <2>1, <2>2, <1>1, <1>2, <1>3
<1> QED BY <1>1, <1>2, <1>3, <1>4, <1>5 DEF d, Shifted

\* a and b make up what s and t make up.
Makes(a, b, s, t) == a \o b = s \o t

\* Concatenation is associative.
LEMMA Grouped ==
  ASSUME NEW S, NEW s \in Seq(S), NEW c \in Seq(S), NEW b \in Seq(S)
  PROVE  Makes(s \o c, b, s, c \o b)
<1>1. (s \o c) \o b = s \o (c \o b) BY ConcatAssociative, SMTT(40)
<1> QED BY <1>1 DEF Makes

\* Some of what was sent arrives: the stream stays what it is.
LEMMA ShiftOver ==
  ASSUME NEW S, NEW s \in Seq(S), NEW t \in Seq(S), NEW k \in 1..Len(t)
  PROVE  LET a == s \o SubSeq(t, 1, k)
             b == SubSeq(t, k + 1, Len(t)) IN
         a \in Seq(S) /\ b \in Seq(S) /\ Makes(a, b, s, t)
<1> DEFINE c == SubSeq(t, 1, k)
           b == SubSeq(t, k + 1, Len(t))
<1>1. Len(t) \in Nat /\ k \in 0..Len(t) BY LenProperties
<1>d. b \in Seq(S) /\ Rest(b, t, k) /\ c \in Seq(S) /\ Front(c, t, k)
      BY <1>1, Pieces, Zenon
<1> HIDE DEF b, c
<1>2. /\ b \in Seq(S) /\ Len(b) = Len(t) - k
      /\ \A i \in 1..(Len(t) - k) : b[i] = t[i + k]
      /\ c \in Seq(S) /\ Len(c) = k
      /\ \A i \in 1..k : c[i] = t[i]
      BY <1>d DEF Rest, Front
<1>c. b \in Seq(S) /\ c \in Seq(S) BY <1>2
<1>a. /\ c \o b \in Seq(S) /\ Len(c \o b) = Len(c) + Len(b)
      /\ \A i \in 1..(Len(c) + Len(b)) :
           (c \o b)[i] = IF i <= Len(c) THEN c[i] ELSE b[i - Len(c)]
      BY <1>c, ConcatProperties
<1>3. /\ c \o b \in Seq(S) /\ Len(c \o b) = Len(t)
      /\ \A i \in 1..Len(t) : (c \o b)[i] = IF i <= k THEN c[i] ELSE b[i - k]
      BY <1>1, <1>2, <1>a
<1>4. \A i \in 1..Len(t) : (c \o b)[i] = t[i] BY <1>1, <1>2, <1>3
<1>5. c \o b = t BY <1>3, <1>4, SeqEqual
<1>b. Makes(s \o c, b, s, c \o b) BY <1>c, Grouped, Zenon
<1>6. Makes(s \o c, b, s, t) BY <1>b, <1>5
<1>7. s \o c \in Seq(S) BY <1>2, ConcatProperties
<1> QED BY <1>2, <1>6, <1>7 DEF b, c

-----------------------------------------------------------------------------
(* The beginning *)

LEMMA Begins == ServersAssumption /\ Init => ServersInv
<1> SUFFICES ASSUME ServersAssumption, Init PROVE ServersInv
    OBVIOUS
<1>1. None \in Token BY DEF None, Token, Parts, Answers, Unasked, Users
<1>2. Handshake \in Seq(Messages) /\ Handshake # <<>> /\ Handshake \in Shaking
      BY DEF Handshake, Messages, Requests, Shaking
<1>3. <<>> \in Seq(Messages) OBVIOUS
<1>4. ASSUME NEW u \in Users
      PROVE  \/ user[u] = Began(Handshake) /\ u = "main" /\ phase = "load"
             \/ user[u] = Rested("unused")
      BY DEF Init
<1>5. phase = "load" => user["main"] = Began(Handshake)
      BY DEF Init, Users
<1>a. /\ Began(Handshake).script = Handshake /\ Began(Handshake).got = None
      /\ Rested("unused").script = <<>> /\ Rested("unused").got = None
      BY DEF Began, Rested
<1>6. Rested("unused") \in Work /\ Began(Handshake) \in Work
      BY <1>1, <1>2, <1>3 DEF Rested, Began, Work, Parts
<1>7. user \in [Users -> Work] BY <1>6, <1>4 DEF Init
<1>8. procs = <<>> /\ Len(procs) = 0 /\ DOMAIN procs = {} /\ procs \in Seq(Proc)
      BY DEF Init
<1>b. phase \in {"load", "serve", "shut"} BY DEF Init
<1>c. proc \in 0..Len(procs) /\ Len(procs) <= MaxProcs
      /\ sessions \in 0..MaxSessions /\ notes \in 0..MaxNotes
      BY <1>8 DEF Init, ServersAssumption
<1>d. kind \in {"stdio", "http", "lsp"} /\ serial \in BOOLEAN BY Zenon DEF Init
<1>e. registered \in BOOLEAN /\ initialized \in BOOLEAN /\ cached \in BOOLEAN
      /\ cut \in BOOLEAN
      BY Zenon DEF Init
<1>f. nextId \in Nat \ {0} BY DEF Init
<1>9. Typed BY <1>7, <1>8, <1>b, <1>c, <1>d, <1>e, <1>f DEF Typed
<1>10. WorkInv
  <2>1. \A u \in Users : StandsAt(u)
    BY <1>2, <1>4 DEF StandsAt, Init, Rested, Began, Reading
  <2>2. \A c \in Calls : user[c] = Rested("unused") /\ Idle(c)
    BY <1>4 DEF ServersAssumption, Users, Idle, Rested
  <2>3. user["main"].script \in MainScripts /\ (phase = "load" => user["main"].script = Handshake)
    BY <1>2, <1>4, <1>5, <1>a DEF Users, MainScripts
  <2>4. phase # "shut" BY DEF Init
  <2>5. \A u \in Users : ~Idle(u) => u = "main"
    BY <1>4 DEF Idle, Rested
  <2> QED BY <2>1, <2>2, <2>3, <2>4, <2>5 DEF WorkInv, CallScripts, Rested
<1>11. HandInv
  <2>1. user["main"].script \in {<<>>, Handshake}
    BY <1>4, <1>a DEF Users
  <2>2. user["main"].script \notin Shaken \cup {<<"list">>}
    BY <2>1, MainSteps DEF Shaken, Handshake
  <2> QED BY <2>2 DEF HandInv, Init
<1>12. ProcInv /\ IdInv BY <1>8 DEF ProcInv, IdInv, Init
<1>13. OwnAnswer
  <2>1. None.kind \notin Answers BY DEF None, Answers
  <2> QED BY <1>4, <1>a, <2>1 DEF OwnAnswer
<1>14. PipeInv BY DEF PipeInv, Ordered, Init
<1> QED BY <1>9, <1>10, <1>11, <1>12, <1>13, <1>14 DEF ServersInv

-----------------------------------------------------------------------------
(* What a user does: its own state and the course of the sessions *)

\* u sends or reads no more, and the others go on.
Departed(u) ==
  /\ user' \in [Users -> Work]
  /\ \A v \in Users \ {u} : user'[v] = user[v]
  /\ user'[u].pc \in {"idle", "write"} /\ user'[u].id = 0 /\ user'[u].want = "line"

\* The work of a user that is at work may end.
LEMMA SettleWork ==
  ASSUME Typed, WorkInv, ServersAssumption, NEW u \in Users,
         NEW outcome \in {"ok", "failed"}, NEW token \in Token, ~Idle(u),
         Settle(u, outcome, token), kind' = kind, serial' = serial,
         nextId' = nextId, proc' = proc \/ (GivesUp(u) /\ proc' = 0)
  PROVE  /\ Departed(u) /\ WorkInv'
         /\ phase' \in {"load", "serve", "shut"} /\ registered' \in BOOLEAN
         /\ user'[u].script = <<>> /\ user'[u].pc = "idle"
         /\ user'[u].got = IF outcome = "ok" THEN Gist(token) ELSE None
         /\ u # "main" => phase' = phase /\ registered' = registered
<1>1. None \in Token /\ Gist(token) \in Token
      BY DEF None, Token, Parts, Answers, Unasked, Users, Gist
<1>2. <<>> \in Seq(Messages) OBVIOUS
<1> DEFINE w == [Rested(outcome) EXCEPT !.got =
                   IF outcome = "ok" THEN Gist(token) ELSE None]
<1>3. w \in Work BY <1>1, <1>2 DEF Rested, Work, Parts
<1>4. user' = [user EXCEPT ![u] = w] BY DEF Settle
<1>5. /\ w.pc = "idle" /\ w.script = <<>> /\ w.id = 0 /\ w.want = "line"
      /\ w.got = IF outcome = "ok" THEN Gist(token) ELSE None
      BY DEF Rested
<1> HIDE DEF w
<1>6. user' \in [Users -> Work] /\ user'[u] = w /\ \A v \in Users \ {u} : user'[v] = user[v]
      BY <1>3, <1>4 DEF Typed
<1>7. phase' \in {"load", "serve", "shut"} /\ registered' \in BOOLEAN
      BY DEF Settle, Typed
<1>8. \A v \in Users \ {u} : Idle(v)' <=> Idle(v) BY <1>6 DEF Idle
<1>9. Idle(u)' BY <1>5, <1>6 DEF Idle
<1>10. "main" \in Users /\ Calls \subseteq Users /\ \A c \in Calls : c # "main"
      BY DEF Users, ServersAssumption
<1>11. (\E c \in Calls : ~Idle(c)) => Idle("main") /\ phase = "serve" /\ registered
      BY DEF WorkInv
<1>12. u = "main" => \A c \in Calls : Idle(c) BY <1>11
<1>13. u # "main" => phase' = phase /\ registered' = registered BY DEF Settle
<1>14. WorkInv'
  <2>1. ASSUME NEW v \in Users PROVE StandsAt(v)'
    <3>1. CASE v = u
      BY <3>1, <1>5, <1>6 DEF StandsAt, Reading, Typed
    <3>2. CASE v # u /\ proc' = proc
      <4>1. StandsAt(v) BY DEF WorkInv
      <4> QED BY <3>2, <4>1, <1>6 DEF StandsAt, Reading
    <3>3. CASE v # u /\ GivesUp(u) /\ proc' = 0
      <4>1. Idle(v) BY <3>3, <1>12 DEF GivesUp, Users
      <4>2. StandsAt(v) BY DEF WorkInv
      <4> QED BY <3>3, <4>1, <4>2, <1>6 DEF StandsAt, Reading, Idle
    <3> QED BY <3>1, <3>2, <3>3
  <2>2. user'["main"].script \in MainScripts
    BY <1>5, <1>6, <1>10 DEF WorkInv, MainScripts
  <2>3. \A c \in Calls : user'[c].script \in CallScripts
    BY <1>5, <1>6, <1>10 DEF WorkInv, CallScripts
  <2>4. ASSUME NEW c \in Calls, ~Idle(c)'
        PROVE  Idle("main")' /\ phase' = "serve" /\ registered'
    <3>1. c # u /\ ~Idle(c) BY <2>4, <1>8, <1>9, <1>10
    <3>2. u # "main" BY <3>1, <1>12
    <3> QED BY <3>1, <3>2, <1>8, <1>10, <1>11, <1>13
  <2>5. phase' = "load" => user'["main"].script \in {Handshake, <<"initialized">>}
    <3>1. CASE u = "main" BY <3>1 DEF Settle
    <3>2. CASE u # "main" BY <3>2, <1>6, <1>10, <1>13 DEF WorkInv
    <3> QED BY <3>1, <3>2
  <2>6. phase' = "shut" => Quiet'
    <3>1. CASE u = "main"
      <4>1. \A v \in Users \ {u} : Idle(v) BY <3>1, <1>12 DEF Users
      <4> QED BY <4>1, <1>8, <1>9 DEF Quiet
    <3>2. CASE u # "main" BY <3>2, <1>13 DEF WorkInv, Quiet
    <3> QED BY <3>1, <3>2
  <2>7. serial' => \A v, x \in Users : ~Idle(v)' /\ ~Idle(x)' => v = x
    BY <1>8, <1>9 DEF WorkInv
  <2> QED BY <2>1, <2>2, <2>3, <2>4, <2>5, <2>6, <2>7 DEF WorkInv
<1> QED BY <1>5, <1>6, <1>7, <1>13, <1>14 DEF Departed

\* A user goes on to the next message, or is done.
LEMMA AdvanceWork ==
  ASSUME Typed, WorkInv, ServersAssumption, NEW u \in Users, NEW token \in Token,
         ~Idle(u), Advance(u, token), kind' = kind, serial' = serial,
         nextId' = nextId, proc' = proc
  PROVE  /\ Departed(u) /\ WorkInv'
         /\ phase' \in {"load", "serve", "shut"} /\ registered' \in BOOLEAN
         /\ user'[u].script = Tail(user[u].script)
         /\ user'[u].got \in {user[u].got, Gist(token)}
         /\ u # "main" => phase' = phase /\ registered' = registered
         /\ Tail(user[u].script) # <<>> => phase' = phase /\ registered' = registered
         /\ phase' = "shut" => phase = "shut"
<1> DEFINE rest == Tail(user[u].script)
<1>1. CASE rest = <<>>
  <2>1. Settle(u, "ok", token) BY <1>1 DEF Advance
  <2>2. phase' = "shut" => phase = "shut" BY <2>1 DEF Settle
  <2> HIDE DEF rest
  <2> QED BY <1>1, <2>1, <2>2, SettleWork DEF rest
<1>2. CASE rest # <<>>
  <2> DEFINE w == [user[u] EXCEPT !.pc = "write", !.script = rest, !.id = 0,
                                  !.want = "line"]
  <2>1. user' = [user EXCEPT ![u] = w] /\ phase' = phase /\ registered' = registered
    BY <1>2 DEF Advance
  <2>2. user[u] \in Work /\ user[u].script # <<>> BY DEF Typed, WorkInv, StandsAt, Idle
  <2>3. "main" \in Users /\ Calls \subseteq Users /\ \A c \in Calls : c # "main"
      BY DEF Users, ServersAssumption
  <2>4. rest \in Seq(Messages)
        /\ (u = "main" => rest \in MainScripts) /\ (u # "main" => rest \in CallScripts)
    BY <2>2, MainSteps, CallSteps DEF WorkInv, Users
  <2>5. u = "main" /\ phase = "load" => rest = <<"initialized">>
    <3> SUFFICES ASSUME u = "main", phase = "load" PROVE rest = <<"initialized">>
        OBVIOUS
    <3>1. user[u].script \in {Handshake, <<"initialized">>} /\ user[u].script \in MainScripts
      BY DEF WorkInv
    <3> QED BY <3>1, <1>2, <2>2, MainSteps
  <2> HIDE DEF rest
  <2>6. w \in Work BY <2>2, <2>4 DEF Work, Parts
  <2>7. /\ w.pc = "write" /\ w.script = rest /\ w.id = 0 /\ w.want = "line"
        /\ w.got = user[u].got /\ w.outcome = user[u].outcome
    BY <2>2 DEF Work
  <2> HIDE DEF w
  <2>8. user' \in [Users -> Work] /\ user'[u] = w /\ \A v \in Users \ {u} : user'[v] = user[v]
    BY <2>1, <2>6 DEF Typed
  <2>9. \A v \in Users : Idle(v)' <=> Idle(v) BY <2>7, <2>8 DEF Idle
  <2>10. WorkInv'
    <3>1. ASSUME NEW v \in Users PROVE StandsAt(v)'
      <4>1. CASE v = u
        <5>1. StandsAt(u) /\ user[u].pc # "idle" BY DEF WorkInv, Idle
        <5> QED BY <4>1, <5>1, <1>2, <2>7, <2>8 DEF StandsAt, Reading, Typed
      <4>2. CASE v # u
        <5>1. StandsAt(v) BY DEF WorkInv
        <5> QED BY <4>2, <5>1, <2>8 DEF StandsAt, Reading
      <4> QED BY <4>1, <4>2
    <3>2. user'["main"].script \in MainScripts
      BY <2>3, <2>4, <2>7, <2>8 DEF WorkInv
    <3>3. \A c \in Calls : user'[c].script \in CallScripts
      BY <2>3, <2>4, <2>7, <2>8 DEF WorkInv
    <3>4. phase' = "load" => user'["main"].script \in {Handshake, <<"initialized">>}
      BY <2>1, <2>3, <2>5, <2>7, <2>8 DEF WorkInv
    <3>5. \A c \in Calls : ~Idle(c)' => Idle("main")' /\ phase' = "serve" /\ registered'
      BY <2>1, <2>3, <2>9 DEF WorkInv
    <3>6. phase' = "shut" => Quiet'
      BY <2>1, <2>9 DEF WorkInv, Quiet
    <3>7. serial' => \A v, x \in Users : ~Idle(v)' /\ ~Idle(x)' => v = x
      BY <2>9 DEF WorkInv
    <3> QED BY <3>1, <3>2, <3>3, <3>4, <3>5, <3>6, <3>7 DEF WorkInv
  <2> QED BY <1>2, <2>1, <2>7, <2>8, <2>10 DEF Departed, Typed, rest
<1> QED BY <1>1, <1>2

-----------------------------------------------------------------------------
(* Processes, ids and the stream *)

\* What is known of one process.
LEMMA ProcTyped ==
  ASSUME Typed, NEW p \in DOMAIN procs
  PROVE  /\ p \in 1..Len(procs) /\ procs[p] \in Proc
         /\ procs[p].alive \in BOOLEAN /\ procs[p].shook \in BOOLEAN
         /\ procs[p].todo \in SUBSET (Nat \X Users)
         /\ procs[p].unsent \in Seq(Token) /\ procs[p].out \in Seq(Token)
<1>1. DOMAIN procs = 1..Len(procs) BY LenProperties DEF Typed
<1>2. procs[p] \in Proc BY <1>1, ElementOfSeq DEF Typed
<1> QED BY <1>1, <1>2 DEF Proc

\* The client's process is one of those spawned.
LEMMA ProcThere ==
  ASSUME Typed, proc # 0
  PROVE  proc \in DOMAIN procs
BY LenProperties DEF Typed

\* One process changes.
LEMMA ProcChanged ==
  ASSUME Typed, NEW p \in DOMAIN procs, NEW e \in Proc,
         procs' = [procs EXCEPT ![p] = e]
  PROVE  /\ procs' \in Seq(Proc) /\ Len(procs') = Len(procs)
         /\ DOMAIN procs' = DOMAIN procs /\ procs'[p] = e
         /\ \A r \in DOMAIN procs \ {p} : procs'[r] = procs[r]
<1>1. p \in 1..Len(procs) /\ DOMAIN procs = 1..Len(procs)
      BY LenProperties DEF Typed
<1>2. procs' \in Seq(Proc) /\ Len(procs') = Len(procs)
      BY <1>1, ExceptSeq DEF Typed
<1> QED BY <1>1, <1>2

\* The ids of the users: given up, or given anew.
IdStep ==
  /\ nextId' \in Nat \ {0} /\ nextId <= nextId'
  /\ \A v \in Users : user'[v].id \in {user[v].id, 0, nextId}

LEMMA OwnedKept ==
  ASSUME Typed, IdStep
  PROVE  \A id \in Nat : \A for \in Users : Owned(id, for) => Owned(id, for)'
BY DEF Owned, IdStep, Typed

\* r holds nothing that is neither in s nor in t.
OutOf(r, s, t) ==
  \A k \in DOMAIN r : \/ \E j \in DOMAIN s : r[k] = s[j]
                      \/ \E j \in DOMAIN t : r[k] = t[j]

\* s holds nothing that process p had not sent.
From(s, p) == OutOf(s, procs[p].out, procs[p].unsent)

\* A process has answers to their owners: what it had, and what it is asked.
LEMMA IdGrows ==
  ASSUME Typed, IdStep, NEW p \in DOMAIN procs, IdAt(p),
         \A q \in procs'[p].todo : q \in procs[p].todo \/ Owned(q[1], q[2])',
         From(procs'[p].out, p), From(procs'[p].unsent, p)
  PROVE  IdAt(p)'
<1>1. /\ \A id \in Nat : \A for \in Users : Owned(id, for) => Owned(id, for)'
      BY OwnedKept
<1>2. \A q \in procs[p].todo : q[1] \in Nat /\ q[2] \in Users BY ProcTyped
<1>3. \A q \in procs'[p].todo : Owned(q[1], q[2])'
  BY <1>1, <1>2 DEF IdAt
<1>4. ASSUME NEW t \in Token, t.kind \in Answers,
             \/ \E j \in DOMAIN procs[p].out : t = procs[p].out[j]
             \/ \E j \in DOMAIN procs[p].unsent : t = procs[p].unsent[j]
      PROVE  Owned(t.id, t.for)'
  <2>1. Owned(t.id, t.for) BY <1>4 DEF IdAt, OwnedIn
  <2>2. t.id \in Nat /\ t.for \in Users BY DEF Token
  <2> QED BY <2>1, <2>2, <1>1
<1>5. \A j \in DOMAIN procs[p].out : procs[p].out[j] \in Token
  <2>1. procs[p].out \in Seq(Token) BY ProcTyped
  <2> QED BY <2>1, LenProperties, ElementOfSeq
<1>6. \A j \in DOMAIN procs[p].unsent : procs[p].unsent[j] \in Token
  <2>1. procs[p].unsent \in Seq(Token) BY ProcTyped
  <2> QED BY <2>1, LenProperties, ElementOfSeq
<1>7. OwnedIn(procs[p].out)' BY <1>4, <1>5, <1>6 DEF OwnedIn, From, OutOf
<1>8. OwnedIn(procs[p].unsent)' BY <1>4, <1>5, <1>6 DEF OwnedIn, From, OutOf
<1> QED BY <1>3, <1>7, <1>8 DEF IdAt

\* A process that loses some of what it had has answers to their owners.
LEMMA IdKept ==
  ASSUME Typed, IdStep, NEW p \in DOMAIN procs, IdAt(p),
         procs'[p].todo \subseteq procs[p].todo,
         From(procs'[p].out, p), From(procs'[p].unsent, p)
  PROVE  IdAt(p)'
<1>1. \A q \in procs'[p].todo : q \in procs[p].todo \/ Owned(q[1], q[2])'
      OBVIOUS
<1> QED BY <1>1, IdGrows

\* The processes that do not change.
LEMMA IdStays ==
  ASSUME Typed, IdStep, NEW p \in DOMAIN procs, IdAt(p), procs'[p] = procs[p]
  PROVE  IdAt(p)'
BY IdKept DEF From, OutOf

\* No process changes.
LEMMA IdSame ==
  ASSUME Typed, IdStep, IdInv, procs' = procs
  PROVE  IdInv'
<1>1. ASSUME NEW p \in DOMAIN procs PROVE IdAt(p)' BY IdStays DEF IdInv
<1> QED BY <1>1 DEF IdInv

\* A departed user has given its id up.
LEMMA DepartedIds ==
  ASSUME Typed, NEW u \in Users, Departed(u), nextId' = nextId
  PROVE  IdStep
BY DEF IdStep, Departed, Typed

\* Among users that wait for each other, the one at work is the only reader.
LEMMA OneReader ==
  ASSUME WorkInv, serial, NEW u \in Users, ~Idle(u)
  PROVE  \A v \in Users : Reading(v) => v = u
BY DEF WorkInv, Reading, Idle

\* The stream of the client's process.
LEMMA StreamTyped ==
  ASSUME Typed, proc # 0
  PROVE  /\ Stream \in Seq(Token) /\ Len(Stream) \in Nat
         /\ Len(Stream) = Len(procs[proc].out) + Len(procs[proc].unsent)
         /\ procs[proc].out # <<>> => Stream[1] = procs[proc].out[1] /\ Len(Stream) # 0
<1> DEFINE o == procs[proc].out
           n == procs[proc].unsent
<1>1. n \in Seq(Token) /\ o \in Seq(Token) BY ProcThere, ProcTyped
<1>2. Stream = o \o n BY DEF Stream
<1> HIDE DEF o, n
<1>3. Len(o) \in Nat /\ Len(n) \in Nat /\ (o # <<>> => Len(o) # 0)
      BY <1>1, LenProperties, EmptySeq
<1>4. /\ Stream \in Seq(Token) /\ Len(Stream) = Len(o) + Len(n)
      /\ \A i \in 1..(Len(o) + Len(n)) :
           Stream[i] = IF i <= Len(o) THEN o[i] ELSE n[i - Len(o)]
      BY <1>1, <1>2, ConcatProperties
<1>5. o # <<>> => Stream[1] = o[1] /\ Len(Stream) # 0 BY <1>3, <1>4
<1>6. Stream \in Seq(Token) /\ Len(Stream) \in Nat /\ Len(Stream) = Len(o) + Len(n)
      BY <1>3, <1>4
<1> QED BY <1>5, <1>6, Zenon DEF o, n

\* A user that stops between two messages leaves the stream to the next reader.
LEMMA PipeLeft ==
  ASSUME Typed, WorkInv, PipeInv, NEW u \in Users, ~Idle(u), Departed(u),
         kind' = kind, serial' = serial, proc' = proc,
         ~cut' => ~cut /\ (Reading(u) => user[u].want \in {"line", "header"}),
         proc # 0 => Stream' = Stream /\ (procs'[proc].alive => procs[proc].alive)
  PROVE  PipeInv'
<1> SUFFICES ASSUME Ordered' PROVE
      /\ Framing(Stream, procs[proc].alive)' /\ InPlace(Stream)'
      /\ \A v \in Users : ~Reading(v)'
    BY DEF PipeInv
<1>1. Ordered /\ (Reading(u) => user[u].want \in {"line", "header"}) BY DEF Ordered
<1>2. \A v \in Users : Reading(v) => v = u BY <1>1, OneReader DEF Ordered
<1>3. \A v \in Users : ~Reading(v)'
  BY <1>2 DEF Departed, Reading
<1>4. Stream' = Stream /\ (procs'[proc].alive => procs[proc].alive)
  BY <1>1 DEF Ordered
<1>5. Framing(Stream, procs[proc].alive) /\ InPlace(Stream)
  BY <1>1 DEF PipeInv
<1>6. Framing(Stream, procs[proc].alive)'
  BY <1>4, <1>5 DEF Framing, Last, Follows
<1>7. Reading(u) => user[u].want = FirstPart
  BY <1>1 DEF WorkInv, StandsAt, FirstPart
<1>8. FirstPart' = FirstPart BY DEF FirstPart
<1>9. InPlace(Stream)'
  BY <1>2, <1>3, <1>4, <1>5, <1>7, <1>8 DEF InPlace
<1> QED BY <1>3, <1>6, <1>9

\* The readers and what they read from stay what they are.
LEMMA PipeSame ==
  ASSUME PipeInv, kind' = kind, serial' = serial, proc' = proc, cut' = cut,
         \A v \in Users : Reading(v)' <=> Reading(v),
         \A v \in Users : Reading(v) =>
           user'[v].want = user[v].want /\ user'[v].id = user[v].id,
         proc # 0 => /\ Stream' = Stream /\ procs'[proc].alive = procs[proc].alive
                     /\ procs'[proc].todo = procs[proc].todo
  PROVE  PipeInv'
<1> SUFFICES ASSUME Ordered' PROVE
      /\ Framing(Stream, procs[proc].alive)' /\ InPlace(Stream)'
      /\ procs'[proc'].alive =>
           \A v \in Users : Reading(v)' => Due(v, procs[proc].todo, Stream)'
    BY DEF PipeInv
<1>1. Ordered BY DEF Ordered
<1>2. /\ Stream' = Stream /\ procs'[proc'].alive = procs[proc].alive
      /\ procs'[proc'].todo = procs[proc].todo
      BY <1>1 DEF Ordered
<1>3. Framing(Stream, procs[proc].alive)' BY <1>1, <1>2 DEF PipeInv, Framing, Last, Follows
<1>4. InPlace(Stream)' BY <1>1, <1>2 DEF PipeInv, InPlace, FirstPart
<1>5. ASSUME procs'[proc'].alive, NEW v \in Users, Reading(v)'
      PROVE  Due(v, procs[proc].todo, Stream)'
  <2>1. Reading(v) /\ Due(v, procs[proc].todo, Stream)
    BY <1>1, <1>2, <1>5 DEF PipeInv
  <2> QED BY <1>2, <1>5, <2>1 DEF Due, FirstPart
<1> QED BY <1>3, <1>4, <1>5

\* What users keep of answers is of answers to themselves.
LEMMA AnswersStay ==
  ASSUME OwnAnswer, NEW u \in Users,
         \A v \in Users \ {u} : user'[v].got = user[v].got,
         \/ user'[u].got \in {user[u].got, None, Gist(None)}
         \/ \E t \in Token : user'[u].got = Gist(t) /\ (t.kind \in Answers => t.for = u)
  PROVE  OwnAnswer'
<1>1. None.kind \notin Answers /\ Gist(None).kind \notin Answers
      BY DEF None, Gist, Answers
<1>2. \A t \in Token : Gist(t).kind = t.kind /\ Gist(t).for = t.for BY DEF Gist, Token
<1> QED BY <1>1, <1>2 DEF OwnAnswer

\* close() leaves no process running.
LEMMA ClosedKeeps ==
  ASSUME Typed, ProcInv, IdInv, IdStep, Closed
  PROVE  /\ procs' \in Seq(Proc) /\ Len(procs') = Len(procs) /\ proc' = 0
         /\ \A p \in DOMAIN procs' : ~procs'[p].alive
         /\ IdInv'
<1>1. CASE proc = 0
  <2>1. procs' = procs /\ proc' = 0 BY <1>1 DEF Closed
  <2>2. IdInv' BY <2>1, IdSame
  <2>3. \A p \in DOMAIN procs' : ~procs'[p].alive
    BY <1>1, <2>1, LenProperties DEF ProcInv, Typed
  <2> QED BY <2>1, <2>2, <2>3 DEF Typed
<1>2. CASE proc # 0
  <2> DEFINE e == [procs[proc] EXCEPT !.alive = FALSE, !.todo = {}, !.unsent = <<>>,
                                      !.out = <<>>]
  <2>1. procs' = [procs EXCEPT ![proc] = e] /\ proc' = 0 BY <1>2 DEF Closed
  <2>2. proc \in DOMAIN procs /\ procs[proc] \in Proc BY <1>2, ProcThere, ProcTyped
  <2>d. <<>> \in Seq(Token) /\ {} \in SUBSET (Nat \X Users) OBVIOUS
  <2>3. e \in Proc BY <2>2, <2>d DEF Proc
  <2>4. ~e.alive /\ e.todo = {} /\ e.unsent = <<>> /\ e.out = <<>> BY <2>2 DEF Proc
  <2> HIDE DEF e
  <2>5. /\ procs' \in Seq(Proc) /\ Len(procs') = Len(procs)
        /\ DOMAIN procs' = DOMAIN procs /\ procs'[proc] = e
        /\ \A r \in DOMAIN procs \ {proc} : procs'[r] = procs[r]
    BY <2>1, <2>2, <2>3, ProcChanged
  <2>6. \A p \in DOMAIN procs' : ~procs'[p].alive
    BY <2>4, <2>5 DEF ProcInv
  <2>7. ASSUME NEW p \in DOMAIN procs PROVE IdAt(p)'
    <3>1. CASE p = proc
      BY <3>1, <2>4, <2>5 DEF IdAt, OwnedIn
    <3>2. CASE p # proc BY <3>2, <2>5, IdStays DEF IdInv
    <3> QED BY <3>1, <3>2
  <2>8. IdInv' BY <2>5, <2>7 DEF IdInv
  <2> QED BY <2>1, <2>5, <2>6, <2>8
<1> QED BY <1>1, <1>2

-----------------------------------------------------------------------------
(* The steps in which work ends *)

\* The processes are those that there were, and none of them lives again or
\* forgets its handshake.
ProcsStay ==
  /\ proc' = proc /\ procs' \in Seq(Proc) /\ Len(procs') = Len(procs)
  /\ \A p \in DOMAIN procs : /\ procs'[p].alive => procs[p].alive
                             /\ procs[p].shook => procs'[p].shook

\* Work that ends badly: unless the client is closed with it, it does not end
\* between the two halves of a handshake with a living server.
LEMMA EndKeeps ==
  ASSUME ServersAssumption, ServersInv, NEW u \in Users, ~Idle(u), NEW token \in Token,
         Settle(u, "failed", token),
         (kind # "http" /\ proc # 0 /\ procs[proc].alive) => user[u].script \notin Shaken,
         UNCHANGED <<kind, serial, sessions, initialized, nextId, notes>>,
         cached' \in BOOLEAN, cut' \in BOOLEAN,
         GivesUp(u) => Closed,
         ~GivesUp(u) => ProcsStay /\ (IdStep => IdInv') /\ (Departed(u) => PipeInv')
  PROVE  ServersInv'
<1> USE DEF ServersInv
<1>3. proc' = proc \/ (GivesUp(u) /\ proc' = 0) BY DEF Closed, ProcsStay
<1>4. /\ Departed(u) /\ WorkInv'
      /\ phase' \in {"load", "serve", "shut"} /\ registered' \in BOOLEAN
      /\ user'[u].script = <<>> /\ user'[u].got = None
      /\ u # "main" => phase' = phase /\ registered' = registered
      BY <1>3, SettleWork
<1>5. IdStep BY <1>4, DepartedIds
<1>6. phase # "shut" BY DEF WorkInv, Quiet
<1>7. GivesUp(u) => phase' = "shut" BY DEF Settle, GivesUp
<1>8. ~GivesUp(u) => phase' = phase /\ (u = "main" => ~registered')
  BY DEF Settle, GivesUp
<1>9. /\ procs' \in Seq(Proc) /\ Len(procs') = Len(procs) /\ IdInv'
      /\ GivesUp(u) => proc' = 0 /\ \A p \in DOMAIN procs' : ~procs'[p].alive
  <2>1. CASE GivesUp(u) BY <2>1, <1>5, ClosedKeeps
  <2>2. CASE ~GivesUp(u) BY <2>2, <1>5 DEF ProcsStay
  <2> QED BY <2>1, <2>2
<1>10. Typed'
  <2>1. proc' \in 0..Len(procs') BY <1>3, <1>9 DEF Typed
  <2> QED BY <1>4, <1>9, <2>1 DEF Typed, Departed
<1>11. HandInv'
  <2>1. "main" \in Users BY DEF Users
  <2>2. user'["main"].script \in {user["main"].script, <<>>}
    BY <1>4, <2>1 DEF Departed
  <2>3. <<>> \notin Shaken \cup {<<"list">>} BY DEF Shaken
  <2>4. CASE GivesUp(u)
    BY <2>4, <1>7, <1>9, <2>2, <2>3 DEF HandInv
  <2>5. CASE ~GivesUp(u)
    <3>1. registered' => registered BY <2>5, <1>4, <1>8
    <3>2. user'["main"].script = user["main"].script \/ u = "main"
      BY <1>4, <2>1 DEF Departed
    <3>3. (kind # "http" /\ initialized /\ proc # 0 /\ procs[proc].alive) =>
            procs[proc].shook \/ user'["main"].script \in Shaken
      BY <3>2 DEF HandInv
    <3>4. proc # 0 => /\ procs'[proc].alive => procs[proc].alive
                      /\ procs[proc].shook => procs'[proc].shook
      BY <2>5, ProcThere DEF ProcsStay
    <3> QED BY <2>5, <1>8, <2>2, <2>3, <3>1, <3>3, <3>4 DEF HandInv, ProcsStay
  <2> QED BY <2>4, <2>5
<1>12. ProcInv'
  <2>1. CASE GivesUp(u) BY <2>1, <1>9 DEF ProcInv
  <2>2. CASE ~GivesUp(u)
    <3>1. DOMAIN procs' = DOMAIN procs BY <1>9, LenProperties DEF Typed
    <3> QED BY <2>2, <1>6, <1>8, <3>1 DEF ProcInv, ProcsStay
  <2> QED BY <2>1, <2>2
<1>13. OwnAnswer' BY <1>4, AnswersStay DEF Departed
<1>14. PipeInv'
  <2>1. CASE GivesUp(u) BY <2>1, <1>9 DEF PipeInv, Ordered
  <2>2. CASE ~GivesUp(u) BY <2>2, <1>4
  <2> QED BY <2>1, <2>2
<1> QED BY <1>4, <1>9, <1>10, <1>11, <1>12, <1>13, <1>14

\* A failure, wherever it comes from.
LEMMA FailKeeps ==
  ASSUME ServersAssumption, ServersInv, NEW u \in Users, ~Idle(u), Fail(u),
         (kind # "http" /\ proc # 0 /\ procs[proc].alive) => user[u].script \notin Shaken
  PROVE  ServersInv'
<1> USE DEF ServersInv
<1>1. None \in Token BY DEF None, Token, Parts, Answers, Unasked, Users
<1>2. /\ Settle(u, "failed", None)
      /\ UNCHANGED <<kind, serial, sessions, initialized, cached, nextId, notes>>
      /\ cut' = (cut \/ user[u].want \in {"blank", "body"})
      /\ GivesUp(u) => Closed
      /\ ~GivesUp(u) => proc' = proc /\ procs' = procs
      BY DEF Fail
<1>3. cached' \in BOOLEAN /\ cut' \in BOOLEAN BY <1>2 DEF Typed
<1>4. ASSUME ~GivesUp(u)
      PROVE  ProcsStay /\ (IdStep => IdInv') /\ (Departed(u) => PipeInv')
  <2>1. ~cut' => ~cut /\ (Reading(u) => user[u].want \in {"line", "header"})
    BY <1>2 DEF WorkInv, StandsAt
  <2>2. Stream' = Stream BY <1>2, <1>4 DEF Stream
  <2>3. ProcsStay BY <1>2, <1>4 DEF ProcsStay, Typed
  <2>4. IdStep => IdInv' BY <1>2, <1>4, IdSame
  <2> QED BY <1>2, <1>4, <2>1, <2>2, <2>3, <2>4, PipeLeft
<1> QED BY <1>1, <1>2, <1>3, <1>4, EndKeeps

\* The ways in which a request or its writing fails.
LEMMA FailuresKeep ==
  ASSUME ServersAssumption, ServersInv, NEW u \in Users,
         \/ SpawnFails(u) \/ WriteBreaks(u) \/ Clash(u) \/ AtEof(u) \/ Timeout(u)
         \/ PostFails(u) \/ Abandon(u)
  PROVE  ServersInv'
<1>1. Fail(u)
      BY DEF SpawnFails, WriteBreaks, Clash, AtEof, Timeout, PostFails, Abandon, MayTimeOut
<1>2. user[u].pc # "idle"
      BY DEF SpawnFails, WriteBreaks, Clash, AtEof, Timeout, PostFails, Abandon,
             MayTimeOut, Reads
<1>3. ~Idle(u) BY <1>2 DEF Idle
<1>4. Reading(u) => user[u].script \notin Shaken
  <2>1. \A s \in Shaken : Head(s) = "initialized" /\ Head(s) \notin Requests
    <3>1. ASSUME NEW s \in Shaken PROVE Head(s) = "initialized"
      <4>1. s \in MainScripts /\ s # <<>> BY DEF MainScripts, Shaken
      <4> QED BY <4>1, MainSteps
    <3> QED BY <3>1 DEF Requests
  <2> QED BY <2>1 DEF ServersInv, WorkInv, StandsAt
<1>5. (kind # "http" /\ proc # 0 /\ procs[proc].alive) => user[u].script \notin Shaken
  <2>1. CASE SpawnFails(u) BY <2>1 DEF SpawnFails, NeedsProcess
  <2>2. CASE WriteBreaks(u) BY <2>2 DEF WriteBreaks
  <2>3. CASE Reading(u) BY <2>3, <1>4
  <2>4. CASE user[u].pc = "posted" BY <2>4 DEF ServersInv, WorkInv, StandsAt
  <2> QED BY <2>1, <2>2, <2>3, <2>4
          DEF Clash, AtEof, Timeout, PostFails, Abandon, MayTimeOut, Reads, Reading
<1> QED BY <1>1, <1>3, <1>5, FailKeeps

-----------------------------------------------------------------------------
(* The steps that begin work, and those that only wait *)

\* A user that is idle begins a script, or is done with it at once.
LEMMA BeginWork ==
  ASSUME Typed, WorkInv, OwnAnswer, PipeInv, ServersAssumption, NEW u \in Users, Idle(u),
         NEW w \in Work, w.pc \in {"idle", "write"}, w.pc = "idle" <=> w.script = <<>>,
         w.outcome = "unused" => w.pc = "idle",
         w.want = "line", w.id = 0, w.got = None,
         w.script \in IF u = "main" THEN MainScripts ELSE CallScripts,
         u = "main" => Quiet,
         u # "main" => Idle("main") /\ registered' /\ (serial => Quiet),
         phase = "serve",
         user' = [user EXCEPT ![u] = w],
         UNCHANGED <<kind, serial, phase, nextId, proc, procs, cut>>
  PROVE  /\ user' \in [Users -> Work] /\ WorkInv' /\ OwnAnswer' /\ PipeInv' /\ IdStep
         /\ user'[u] = w /\ \A v \in Users \ {u} : user'[v] = user[v]
<1>1. user' \in [Users -> Work] /\ user'[u] = w /\ \A v \in Users \ {u} : user'[v] = user[v]
      BY DEF Typed
<1>2. "main" \in Users /\ Calls \subseteq Users /\ \A c \in Calls : c # "main"
      BY DEF Users, ServersAssumption
<1>3. \A v \in Users \ {u} : Idle(v)' <=> Idle(v) BY <1>1 DEF Idle
<1>4. WorkInv'
  <2>1. ASSUME NEW v \in Users PROVE StandsAt(v)'
    <3>1. CASE v = u BY <3>1, <1>1 DEF StandsAt, Reading, Typed
    <3>2. CASE v # u
      <4>1. StandsAt(v) BY DEF WorkInv
      <4> QED BY <3>2, <4>1, <1>1 DEF StandsAt, Reading
    <3> QED BY <3>1, <3>2
  <2>2. user'["main"].script \in MainScripts BY <1>1, <1>2 DEF WorkInv
  <2>3. \A c \in Calls : user'[c].script \in CallScripts BY <1>1, <1>2 DEF WorkInv
  <2>4. \A c \in Calls : ~Idle(c)' => Idle("main")' /\ phase' = "serve" /\ registered'
    <3>1. CASE u = "main" BY <3>1, <1>2, <1>3 DEF Quiet
    <3>2. CASE u # "main" BY <3>2, <1>2, <1>3
    <3> QED BY <3>1, <3>2
  <2>5. serial' => \A v, x \in Users : ~Idle(v)' /\ ~Idle(x)' => v = x
    <3>1. serial => \A v \in Users \ {u} : Idle(v) BY DEF Quiet
    <3> QED BY <3>1, <1>3
  <2> QED BY <2>1, <2>2, <2>3, <2>4, <2>5 DEF WorkInv
<1>5. OwnAnswer' BY <1>1, AnswersStay
<1>6. ~Reading(u) /\ ~Reading(u)' BY <1>1 DEF Reading, Idle
<1>7. \A v \in Users : Reading(v)' <=> Reading(v) BY <1>1, <1>6 DEF Reading
<1>8. \A v \in Users : Reading(v) => user'[v] = user[v] BY <1>1, <1>6
<1>9. Stream' = Stream BY DEF Stream
<1>10. PipeInv' BY <1>7, <1>8, <1>9, PipeSame
<1>11. IdStep BY <1>1 DEF IdStep, Typed
<1> QED BY <1>1, <1>4, <1>5, <1>10, <1>11

\* What begins, and what rests, is a user's state.
LEMMA Beginnings ==
  /\ \A s \in Seq(Messages) : s # <<>> =>
       LET w == Began(s) IN
       w \in Work /\ w.pc = "write" /\ w.script = s /\ w.want = "line" /\ w.id = 0 /\ w.got = None
          /\ w.outcome # "unused"
  /\ \A o \in {"ok", "failed"} :
       LET w == Rested(o) IN
       w \in Work /\ w.pc = "idle" /\ w.script = <<>> /\ w.want = "line" /\ w.id = 0 /\ w.got = None
          /\ w.outcome # "unused"
<1>1. None \in Token BY DEF None, Token, Parts, Answers, Unasked, Users
<1>2. <<>> \in Seq(Messages) OBVIOUS
<1> QED BY <1>1, <1>2 DEF Began, Rested, Work, Parts

LEMMA StartSessionKeeps ==
  ASSUME ServersAssumption, ServersInv, StartSession
  PROVE  ServersInv'
<1> USE DEF ServersInv
<1> DEFINE s == IF kind = "lsp" THEN <<>> ELSE Registration
           w == IF s = <<>> THEN Rested("ok") ELSE Began(s)
<1>1. /\ phase = "serve" /\ Quiet /\ ~registered /\ sessions < MaxSessions
      /\ sessions' = sessions + 1 /\ registered' = (s = <<>>)
      /\ UNCHANGED <<kind, serial, phase, initialized, cached, nextId, proc, procs,
                     notes, cut>>
      BY DEF StartSession
<1>2. user' = [user EXCEPT !["main"] = w] BY DEF StartSession
<1>3. s \in MainScripts BY Literals DEF MainScripts, Shaking, Handshake
<1>4. /\ s \in Shaken \cup {<<"list">>} \/ s = <<>> => initialized
  <2>1. CASE kind = "lsp" BY <2>1, <1>1 DEF HandInv
  <2>2. CASE kind # "lsp"
    <3>1. \A t \in Shaking : t # <<>> /\ Head(t) = "initialize"
      <4>1. ASSUME NEW t \in Shaking PROVE t # <<>> /\ Head(t) = "initialize"
        <5>1. t \in MainScripts /\ t # <<>> BY DEF MainScripts, Shaking
        <5> QED BY <5>1, MainSteps
      <4> QED BY <4>1
    <3>2. Head(<<"list">>) = "list" /\ \A t \in Shaken : Head(t) = "initialized"
      <4>1. ASSUME NEW t \in Shaken PROVE Head(t) = "initialized"
        <5>1. t \in MainScripts /\ t # <<>> BY DEF MainScripts, Shaken
        <5> QED BY <5>1, MainSteps
      <4> QED BY <4>1
    <3>3. ~initialized => s \in Shaking BY <2>2, Literals
    <3> QED BY <3>1, <3>2, <3>3
  <2> QED BY <2>1, <2>2
<1> HIDE DEF s
<1>5. s # <<>> => s \in Seq(Messages) BY <1>3, MainSteps
<1>6. /\ w \in Work /\ w.pc \in {"idle", "write"} /\ (w.pc = "idle" <=> w.script = <<>>)
      /\ w.want = "line" /\ w.id = 0 /\ w.got = None /\ w.script = s
      /\ w.outcome # "unused"
      BY <1>5, Beginnings
<1> HIDE DEF w
<1>7. "main" \in Users /\ Idle("main") BY <1>1 DEF Users, Quiet
<1>8. /\ user' \in [Users -> Work] /\ WorkInv' /\ OwnAnswer' /\ PipeInv' /\ IdStep
      /\ user'["main"] = w
  <2>1. w.script \in IF "main" = "main" THEN MainScripts ELSE CallScripts BY <1>3, <1>6
  <2> QED BY <1>1, <1>2, <1>6, <1>7, <2>1, BeginWork
<1>9. Typed'
  <2>1. sessions' \in 0..MaxSessions BY <1>1 DEF Typed, ServersAssumption
  <2>2. registered' \in BOOLEAN BY <1>1
  <2> QED BY <1>1, <1>8, <2>1, <2>2 DEF Typed
<1>10. HandInv'
  <2>1. user["main"].script = <<>> BY <1>7 DEF WorkInv, StandsAt, Idle
  <2>2. user["main"].script \notin Shaken BY <2>1 DEF Shaken
  <2>3. user'["main"].script = s BY <1>6, <1>8
  <2> QED BY <1>1, <1>4, <2>2, <2>3 DEF HandInv
<1>11. ProcInv' BY <1>1 DEF ProcInv
<1>12. IdInv' BY <1>1, <1>8, IdSame
<1> QED BY <1>8, <1>9, <1>10, <1>11, <1>12

LEMMA CallsBegin ==
  ASSUME ServersAssumption, ServersInv, NEW c \in Calls, StartCall(c) \/ Unrouted(c)
  PROVE  ServersInv'
<1> USE DEF ServersInv
<1>1. /\ phase = "serve" /\ registered /\ Idle("main") /\ user[c].outcome = "unused"
      /\ serial => Quiet
      /\ UNCHANGED <<kind, serial, phase, sessions, registered, initialized,
                     cached, nextId, proc, procs, notes, cut>>
      BY DEF StartCall, Unrouted
<1>2. c \in Users /\ "main" \in Users /\ c # "main" BY DEF Users, ServersAssumption
<1>3. Idle(c) BY <1>1, <1>2 DEF WorkInv, StandsAt, Idle
<1>4. PICK w \in {Began(CallScript), Rested("failed")} : user' = [user EXCEPT ![c] = w]
      BY DEF StartCall, Unrouted
<1>5. CallScript \in CallScripts /\ CallScript # <<>> BY DEF CallScript, CallScripts
<1>6. /\ w \in Work /\ w.pc \in {"idle", "write"} /\ (w.pc = "idle" <=> w.script = <<>>)
      /\ w.want = "line" /\ w.id = 0 /\ w.got = None /\ w.script \in CallScripts
      /\ w.outcome # "unused"
  <2>1. CallScript \in Seq(Messages) BY <1>5, CallSteps
  <2>2. <<>> \in CallScripts BY DEF CallScripts
  <2> QED BY <1>5, <2>1, <2>2, Beginnings
<1>7. /\ user' \in [Users -> Work] /\ WorkInv' /\ OwnAnswer' /\ PipeInv' /\ IdStep
      /\ \A v \in Users \ {c} : user'[v] = user[v]
  <2>1. w.script \in IF c = "main" THEN MainScripts ELSE CallScripts BY <1>2, <1>6
  <2> QED BY <1>1, <1>2, <1>3, <1>4, <1>6, <2>1, BeginWork
<1>8. Typed' BY <1>1, <1>7 DEF Typed
<1>9. HandInv'
  <2>1. user'["main"] = user["main"] BY <1>2, <1>7
  <2> QED BY <1>1, <2>1 DEF HandInv
<1>10. ProcInv' BY <1>1 DEF ProcInv
<1>11. IdInv' BY <1>1, <1>7, IdSame
<1> QED BY <1>7, <1>8, <1>9, <1>10, <1>11

\* The users keep their scripts and stand where they may.
LEMMA WorkKept ==
  ASSUME WorkInv, \A v \in Users : StandsAt(v)',
         \A v \in Users : user'[v].script = user[v].script /\ (Idle(v)' <=> Idle(v)),
         UNCHANGED <<serial, phase, registered>>
  PROVE  WorkInv'
<1>1. "main" \in Users /\ Calls \subseteq Users BY DEF Users
<1>2. phase' = "shut" => Quiet' BY DEF WorkInv, Quiet
<1>3. serial' => \A v, x \in Users : ~Idle(v)' /\ ~Idle(x)' => v = x BY DEF WorkInv
<1> QED BY <1>1, <1>2, <1>3 DEF WorkInv

\* A user that reads looks again, waits, or goes on reading.
Goes(v) ==
  \/ user'[v] = user[v]
  \/ /\ Reading(v) /\ Reading(v)'
     /\ user'[v].script = user[v].script /\ user'[v].id = user[v].id
     /\ user'[v].got = user[v].got /\ user'[v].outcome = user[v].outcome
     /\ user'[v].want \in IF kind = "lsp" THEN {"header", "blank", "body"} ELSE {"line"}

LEMMA GoesOn ==
  ASSUME Typed, WorkInv, OwnAnswer, \A v \in Users : Goes(v), proc # 0 => proc' # 0,
         UNCHANGED <<kind, serial, phase, registered, nextId>>
  PROVE  /\ WorkInv' /\ OwnAnswer' /\ IdStep
         /\ \A v \in Users : (Reading(v)' <=> Reading(v)) /\ user'[v].id = user[v].id
                             /\ user'[v].script = user[v].script
<1>1. ASSUME NEW v \in Users
      PROVE  /\ (Idle(v)' <=> Idle(v)) /\ (Reading(v)' <=> Reading(v))
             /\ user'[v].script = user[v].script /\ user'[v].id = user[v].id
             /\ user'[v].got = user[v].got
  BY DEF Goes, Idle, Reading
<1>2. ASSUME NEW v \in Users PROVE StandsAt(v)'
  <2>1. StandsAt(v) BY DEF WorkInv
  <2>2. CASE user'[v] = user[v] BY <2>1, <2>2 DEF StandsAt, Reading
  <2>3. CASE user'[v] # user[v] BY <2>1, <2>3 DEF StandsAt, Reading, Goes
  <2> QED BY <2>2, <2>3
<1>3. WorkInv' BY <1>1, <1>2, WorkKept
<1>4. OwnAnswer' BY <1>1 DEF OwnAnswer
<1>5. IdStep BY <1>1 DEF IdStep, Typed
<1> QED BY <1>1, <1>3, <1>4, <1>5

\* Whoever waits looks again.
LEMMA Wakes ==
  ASSUME Typed, WorkInv
  PROVE  /\ Wake \in [Users -> Work]
         /\ \A v \in Users : user' = Wake => Goes(v) /\ user'[v].want = user[v].want
<1>1. ASSUME NEW v \in Users
      PROVE  /\ Wake[v] = IF user[v].pc = "waiting" THEN [user[v] EXCEPT !.pc = "read"]
                                                    ELSE user[v]
             /\ Wake[v] \in Work
  BY DEF Wake, Typed, Work
<1>2. Wake \in [Users -> Work] BY <1>1 DEF Wake
<1>3. ASSUME NEW v \in Users, user' = Wake
      PROVE  Goes(v) /\ user'[v].want = user[v].want
  <2>1. user[v] \in Work BY DEF Typed
  <2>2. CASE user[v].pc = "waiting"
    <3>1. user'[v] = [user[v] EXCEPT !.pc = "read"] BY <1>1, <1>3, <2>2
    <3>2. /\ user'[v].pc = "read" /\ user'[v].script = user[v].script
          /\ user'[v].id = user[v].id /\ user'[v].want = user[v].want
          /\ user'[v].got = user[v].got /\ user'[v].outcome = user[v].outcome
      BY <2>1, <3>1 DEF Work
    <3>3. StandsAt(v) BY DEF WorkInv
    <3> QED BY <2>2, <3>2, <3>3 DEF Goes, Reading, StandsAt
  <2>3. CASE user[v].pc # "waiting" BY <1>1, <1>3, <2>3 DEF Goes
  <2> QED BY <2>2, <2>3
<1> QED BY <1>2, <1>3

LEMMA WaitKeeps ==
  ASSUME ServersAssumption, ServersInv, NEW u \in Users, Wait(u)
  PROVE  ServersInv'
<1> USE DEF ServersInv
<1>1. /\ Reading(u) /\ user[u] \in Work /\ user' = [user EXCEPT ![u].pc = "waiting"]
      /\ UNCHANGED <<kind, serial, phase, sessions, registered, initialized,
                     cached, nextId, proc, procs, notes, cut>>
      BY DEF Wait, Reads, Reading, Typed
<1>2. user' \in [Users -> Work] BY <1>1 DEF Typed, Work
<1>3. ASSUME NEW v \in Users PROVE Goes(v) /\ user'[v].want = user[v].want
  <2>1. StandsAt(v) BY DEF WorkInv
  <2>2. CASE v = u
    <3>1. user'[v] = [user[v] EXCEPT !.pc = "waiting"] BY <1>1, <2>2 DEF Typed
    <3>2. /\ user'[v].pc = "waiting" /\ user'[v].script = user[v].script
          /\ user'[v].id = user[v].id /\ user'[v].want = user[v].want
          /\ user'[v].got = user[v].got /\ user'[v].outcome = user[v].outcome
      BY <1>1, <2>2, <3>1 DEF Work
    <3> QED BY <1>1, <2>1, <2>2, <3>2 DEF Goes, Reading, StandsAt
  <2>3. CASE v # u BY <1>1, <2>3 DEF Goes, Typed
  <2> QED BY <2>2, <2>3
<1>4. /\ WorkInv' /\ OwnAnswer' /\ IdStep
      /\ \A v \in Users : (Reading(v)' <=> Reading(v)) /\ user'[v].id = user[v].id
                          /\ user'[v].script = user[v].script
      BY <1>1, <1>3, GoesOn
<1>5. Typed' BY <1>1, <1>2 DEF Typed
<1>6. HandInv'
  <2>1. user'["main"].script = user["main"].script BY <1>4 DEF Users
  <2> QED BY <1>1, <2>1 DEF HandInv
<1>7. ProcInv' BY <1>1 DEF ProcInv
<1>8. IdInv' BY <1>1, <1>4, IdSame
<1>9. PipeInv'
  <2>1. Stream' = Stream BY <1>1 DEF Stream
  <2> QED BY <1>1, <1>3, <1>4, <2>1, PipeSame
<1> QED BY <1>4, <1>5, <1>6, <1>7, <1>8, <1>9

LEMMA ShutdownKeeps ==
  ASSUME ServersAssumption, ServersInv, Shutdown
  PROVE  ServersInv'
<1> USE DEF ServersInv
<1>1. /\ phase = "serve" /\ Quiet /\ phase' = "shut"
      /\ UNCHANGED <<kind, serial, sessions, registered, cached, nextId, notes, user, cut>>
      /\ kind = "lsp" => UNCHANGED <<proc, procs, initialized>>
      /\ kind # "lsp" => Closed /\ initialized' = FALSE
      BY DEF Shutdown
<1>2. IdStep BY <1>1 DEF IdStep, Typed
<1>3. /\ procs' \in Seq(Proc) /\ Len(procs') = Len(procs) /\ IdInv'
      /\ kind # "lsp" => proc' = 0 /\ \A p \in DOMAIN procs' : ~procs'[p].alive
  <2>1. CASE kind # "lsp" BY <2>1, <1>1, <1>2, ClosedKeeps
  <2>2. CASE kind = "lsp" BY <2>2, <1>1, <1>2, IdSame DEF Typed
  <2> QED BY <2>1, <2>2
<1>4. Typed'
  <2>1. proc' \in 0..Len(procs') BY <1>1, <1>3 DEF Typed
  <2>2. initialized' \in BOOLEAN BY <1>1 DEF Typed
  <2> QED BY <1>1, <1>3, <2>1, <2>2 DEF Typed
<1>5. WorkInv'
  <2>1. ASSUME NEW v \in Users PROVE StandsAt(v)'
    <3>1. StandsAt(v) /\ Idle(v) BY <1>1 DEF WorkInv, Quiet
    <3> QED BY <1>1, <3>1 DEF StandsAt, Idle, Reading
  <2>2. Quiet' /\ \A v \in Users : Idle(v)' BY <1>1 DEF Quiet, Idle
  <2>3. Calls \subseteq Users BY DEF Users
  <2> QED BY <1>1, <2>1, <2>2, <2>3 DEF WorkInv
<1>6. HandInv'
  <2>1. user'["main"].script = <<>>
    BY <1>1 DEF WorkInv, StandsAt, Quiet, Idle, Users
  <2>2. <<>> \notin Shaken \cup {<<"list">>} BY DEF Shaken
  <2>3. CASE kind = "lsp"
    <3>1. user["main"].script = <<>> BY <1>1, <2>1
    <3> QED BY <2>2, <2>3, <1>1, <2>1, <3>1 DEF HandInv
  <2>4. CASE kind # "lsp" BY <2>4, <1>1, <2>1, <2>2 DEF HandInv
  <2> QED BY <2>3, <2>4
<1>7. ProcInv' BY <1>1, <1>3 DEF ProcInv
<1>8. OwnAnswer' BY <1>1 DEF OwnAnswer
<1>9. PipeInv'
  <2>1. CASE kind # "lsp" BY <2>1, <1>3 DEF PipeInv, Ordered
  <2>2. CASE kind = "lsp"
    <3>1. Stream' = Stream BY <1>1, <2>2 DEF Stream
    <3>2. \A v \in Users : (Reading(v)' <=> Reading(v)) BY <1>1 DEF Reading
    <3> QED BY <2>2, <1>1, <3>1, <3>2, PipeSame
  <2> QED BY <2>1, <2>2
<1> QED BY <1>3, <1>4, <1>5, <1>6, <1>7, <1>8, <1>9

LEMMA SpawnKeeps ==
  ASSUME ServersAssumption, ServersInv, NEW u \in Users, Spawn(u)
  PROVE  ServersInv'
<1> USE DEF ServersInv
<1> DEFINE e == [alive |-> TRUE, shook |-> FALSE, todo |-> {}, unsent |-> <<>>, out |-> <<>>]
<1>1. /\ user[u].pc = "write" /\ proc = 0 /\ Len(procs) < MaxProcs
      /\ procs' = Append(procs, e) /\ proc' = Len(procs) + 1
      /\ UNCHANGED <<kind, serial, phase, sessions, registered, initialized,
                     cached, nextId, notes, user, cut>>
      BY DEF Spawn, NeedsProcess
<1>2. <<>> \in Seq(Token) /\ {} \in SUBSET (Nat \X Users) OBVIOUS
<1>3. e \in Proc BY <1>2 DEF Proc
<1>4. /\ e.alive /\ e.todo = {} /\ e.unsent = <<>> /\ e.out = <<>> OBVIOUS
<1> HIDE DEF e
<1>5. Len(procs) \in Nat /\ DOMAIN procs = 1..Len(procs) BY LenProperties DEF Typed
<1>6. /\ procs' \in Seq(Proc) /\ Len(procs') = Len(procs) + 1
      /\ procs'[proc'] = e
      /\ \A p \in DOMAIN procs : procs'[p] = procs[p]
      /\ DOMAIN procs' = DOMAIN procs \cup {proc'} /\ proc' # 0 /\ proc' \notin DOMAIN procs
      BY <1>1, <1>3, <1>5 DEF Typed
<1>7. Typed'
  <2>1. proc' \in 0..Len(procs') /\ Len(procs') <= MaxProcs
    BY <1>1, <1>5, <1>6 DEF ServersAssumption
  <2> QED BY <1>1, <1>6, <2>1 DEF Typed
<1>8. ~Idle(u) /\ phase # "shut" BY <1>1 DEF WorkInv, Quiet, Idle
<1>9. /\ WorkInv' /\ OwnAnswer' /\ IdStep
  <2>1. \A v \in Users : Goes(v) BY <1>1 DEF Goes
  <2> QED BY <1>1, <2>1, GoesOn
<1>10. HandInv' BY <1>1, <1>6, <1>8 DEF HandInv
<1>11. ProcInv' BY <1>1, <1>5, <1>6, <1>8 DEF ProcInv
<1>12. IdInv'
  <2>1. ASSUME NEW p \in DOMAIN procs' PROVE IdAt(p)'
    <3>1. CASE p = proc'
      BY <3>1, <1>4, <1>6 DEF IdAt, OwnedIn
    <3>2. CASE p # proc' BY <3>2, <1>6, <1>9, IdStays DEF IdInv
    <3> QED BY <3>1, <3>2
  <2> QED BY <2>1 DEF IdInv
<1>13. PipeInv'
  <2>1. Stream' = <<>>
    <3>1. <<>> \o <<>> = <<>> OBVIOUS
    <3> QED BY <1>4, <1>6, <3>1 DEF Stream
  <2>2. \A v \in Users : ~Reading(v)' BY <1>1 DEF WorkInv, StandsAt, Reading
  <2>3. Len(Stream') = 0 BY <2>1
  <2> QED BY <2>2, <2>3 DEF PipeInv, Framing, InPlace
<1> QED BY <1>7, <1>9, <1>10, <1>11, <1>12, <1>13

-----------------------------------------------------------------------------
(* The server *)

\* Of a process only what it has to say and to hear changes, or it dies.
LEMMA ProcStep ==
  ASSUME Typed, WorkInv, HandInv, ProcInv, IdInv, OwnAnswer,
         NEW p \in DOMAIN procs, NEW e \in Proc, procs' = [procs EXCEPT ![p] = e],
         e.alive => procs[p].alive, procs[p].shook => e.shook,
         user' \in [Users -> Work], \A v \in Users : Goes(v), notes' \in 0..MaxNotes,
         UNCHANGED <<kind, serial, phase, sessions, registered, initialized, cached,
                     nextId, proc, cut>>
  PROVE  /\ Typed' /\ WorkInv' /\ HandInv' /\ ProcInv' /\ OwnAnswer' /\ IdStep
         /\ procs'[p] = e /\ DOMAIN procs' = DOMAIN procs
         /\ \A r \in DOMAIN procs \ {p} : procs'[r] = procs[r]
         /\ IdAt(p)' => IdInv'
         /\ \A v \in Users : (Reading(v)' <=> Reading(v)) /\ user'[v].id = user[v].id
<1>1. /\ procs' \in Seq(Proc) /\ Len(procs') = Len(procs)
      /\ DOMAIN procs' = DOMAIN procs /\ procs'[p] = e
      /\ \A r \in DOMAIN procs \ {p} : procs'[r] = procs[r]
      BY ProcChanged
<1>2. /\ WorkInv' /\ OwnAnswer' /\ IdStep
      /\ \A v \in Users : (Reading(v)' <=> Reading(v)) /\ user'[v].id = user[v].id
                          /\ user'[v].script = user[v].script
      BY GoesOn
<1>3. Typed' BY <1>1 DEF Typed
<1>4. \A r \in DOMAIN procs : /\ procs'[r].alive => procs[r].alive
                              /\ procs[r].shook => procs'[r].shook
      BY <1>1
<1>5. HandInv'
  <2>1. user'["main"].script = user["main"].script BY <1>2 DEF Users
  <2>2. proc # 0 => proc \in DOMAIN procs BY ProcThere
  <2> QED BY <1>4, <2>1, <2>2 DEF HandInv
<1>6. ProcInv' BY <1>1, <1>4 DEF ProcInv
<1>7. IdAt(p)' => IdInv'
  <2>1. \A r \in DOMAIN procs \ {p} : IdAt(r)' BY <1>1, <1>2, IdStays DEF IdInv
  <2> QED BY <1>1, <2>1 DEF IdInv
<1> QED BY <1>1, <1>2, <1>3, <1>5, <1>6, <1>7

\* The stream of a client whose process is not the one that changes.
LEMMA OtherStream ==
  ASSUME NEW p \in DOMAIN procs, p # proc, proc' = proc, Typed,
         \A r \in DOMAIN procs \ {p} : procs'[r] = procs[r]
  PROVE  proc # 0 => /\ Stream' = Stream /\ procs'[proc].alive = procs[proc].alive
                     /\ procs'[proc].todo = procs[proc].todo
BY ProcThere DEF Stream

\* What is appended to a sequence of tokens comes from the one or the other.
LEMMA ConcatFrom ==
  ASSUME NEW S, NEW s \in Seq(S), NEW t \in Seq(S), NEW k \in 1..Len(t)
  PROVE  /\ OutOf(s \o SubSeq(t, 1, k), s, t)
         /\ OutOf(SubSeq(t, k + 1, Len(t)), s, t)
<1> DEFINE c == SubSeq(t, 1, k)
           b == SubSeq(t, k + 1, Len(t))
<1>1. Len(t) \in Nat /\ Len(s) \in Nat /\ k \in 0..Len(t)
      /\ DOMAIN t = 1..Len(t) /\ DOMAIN s = 1..Len(s) BY LenProperties
<1>a. b \in Seq(S) /\ Rest(b, t, k) /\ c \in Seq(S) /\ Front(c, t, k)
      BY <1>1, Pieces, Zenon
<1> HIDE DEF b, c
<1>2. /\ b \in Seq(S) /\ Len(b) = Len(t) - k
      /\ \A i \in 1..(Len(t) - k) : b[i] = t[i + k]
      /\ c \in Seq(S) /\ Len(c) = k
      /\ \A i \in 1..k : c[i] = t[i]
      BY <1>a DEF Rest, Front
<1>3. b \in Seq(S) /\ c \in Seq(S) BY <1>2
<1>4. DOMAIN b = 1..Len(b) BY <1>3, LenProperties
<1>5. /\ s \o c \in Seq(S) /\ Len(s \o c) = Len(s) + Len(c)
      /\ \A i \in 1..(Len(s) + Len(c)) :
           (s \o c)[i] = IF i <= Len(s) THEN s[i] ELSE c[i - Len(s)]
      BY <1>3, ConcatProperties
<1>6. DOMAIN (s \o c) = 1..Len(s \o c) BY <1>5, LenProperties
<1>7. ASSUME NEW i \in DOMAIN (s \o c)
      PROVE  (\E j \in DOMAIN s : (s \o c)[i] = s[j]) \/ (\E j \in DOMAIN t : (s \o c)[i] = t[j])
  <2>1. i \in 1..(Len(s) + k) BY <1>2, <1>5, <1>6
  <2>2. CASE i <= Len(s) BY <2>1, <2>2, <1>1, <1>2, <1>5
  <2>3. CASE i > Len(s)
    <3>1. i - Len(s) \in 1..k BY <2>1, <2>3, <1>1
    <3>2. (s \o c)[i] = c[i - Len(s)] BY <2>1, <2>3, <1>1, <1>2, <1>5
    <3>3. c[i - Len(s)] = t[i - Len(s)] /\ i - Len(s) \in DOMAIN t BY <3>1, <1>1, <1>2
    <3> QED BY <3>2, <3>3
  <2> QED BY <2>1, <2>2, <2>3, <1>1
<1>8. ASSUME NEW i \in DOMAIN b PROVE \E j \in DOMAIN t : b[i] = t[j]
  <2>1. i \in 1..(Len(t) - k) BY <1>2, <1>4
  <2>2. b[i] = t[i + k] /\ i + k \in DOMAIN t BY <2>1, <1>1, <1>2
  <2> QED BY <2>2
<1> QED BY <1>7, <1>8 DEF b, c, OutOf

\* A process of whose unsent message the first k pieces have arrived.
Arrived(q, k) == [q EXCEPT !.out = q.out \o SubSeq(q.unsent, 1, k),
                           !.unsent = SubSeq(q.unsent, k + 1, Len(q.unsent))]

\* What arrives of what is sent leaves its process with the same stream.
LEMMA Arrival ==
  ASSUME NEW q \in Proc, NEW k \in DOMAIN q.unsent
  PROVE  LET e == Arrived(q, k) IN
         /\ e \in Proc /\ e.alive = q.alive /\ e.todo = q.todo /\ e.shook = q.shook
         /\ e.out \o e.unsent = q.out \o q.unsent
         /\ OutOf(e.out, q.out, q.unsent) /\ OutOf(e.unsent, q.out, q.unsent)
<1> DEFINE a == q.out \o SubSeq(q.unsent, 1, k)
           b == SubSeq(q.unsent, k + 1, Len(q.unsent))
<1>1. q.out \in Seq(Token) /\ q.unsent \in Seq(Token) BY DEF Proc
<1>2. k \in 1..Len(q.unsent) BY <1>1, LenProperties
<1>3. a \in Seq(Token) /\ b \in Seq(Token) /\ a \o b = q.out \o q.unsent
  <2> DEFINE o == q.out
             n == q.unsent
  <2>1. o \in Seq(Token) /\ n \in Seq(Token) /\ k \in 1..Len(n) BY <1>1, <1>2
  <2> HIDE DEF o, n
  <2>2. o \o SubSeq(n, 1, k) \in Seq(Token) BY <2>1, ShiftOver, Zenon
  <2>3. SubSeq(n, k + 1, Len(n)) \in Seq(Token) BY <2>1, ShiftOver, Zenon
  <2>4. Makes(o \o SubSeq(n, 1, k), SubSeq(n, k + 1, Len(n)), o, n)
        BY <2>1, ShiftOver, Zenon
  <2> QED BY <2>2, <2>3, <2>4, Zenon DEF o, n, Makes
<1>4. OutOf(a, q.out, q.unsent) /\ OutOf(b, q.out, q.unsent)
      BY <1>1, <1>2, ConcatFrom, Zenon
<1> HIDE DEF a, b
<1> DEFINE e == Arrived(q, k)
<1>5. e = [q EXCEPT !.out = a, !.unsent = b] BY DEF a, b, Arrived
<1> HIDE DEF e
<1>6. e \in Proc BY <1>3, <1>5 DEF Proc
<1>7. /\ e.out = a /\ e.unsent = b /\ e.alive = q.alive /\ e.todo = q.todo
      /\ e.shook = q.shook
      BY <1>5 DEF Proc
<1> QED BY <1>3, <1>4, <1>6, <1>7 DEF e

LEMMA ArrivesKeeps ==
  ASSUME ServersAssumption, ServersInv, NEW p \in DOMAIN procs, Arrives(p)
  PROVE  ServersInv'
<1> USE DEF ServersInv
<1>1. PICK k \in DOMAIN procs[p].unsent :
        procs' = [procs EXCEPT ![p].out = @ \o SubSeq(procs[p].unsent, 1, k),
                               ![p].unsent = SubSeq(@, k + 1, Len(@))]
      BY DEF Arrives
<1> DEFINE e == Arrived(procs[p], k)
<1>2. procs[p] \in Proc BY ProcTyped
<1>4. procs' = [procs EXCEPT ![p] = e] BY <1>1, <1>2 DEF Proc, Arrived
<1>5. /\ e \in Proc /\ e.alive = procs[p].alive /\ e.todo = procs[p].todo
      /\ e.shook = procs[p].shook
      /\ e.out \o e.unsent = procs[p].out \o procs[p].unsent
      /\ From(e.out, p) /\ From(e.unsent, p)
  <2>1. k \in DOMAIN procs[p].unsent OBVIOUS
  <2> QED BY <1>2, <2>1, Arrival DEF From
<1> HIDE DEF e
<1>8. /\ phase # "shut" /\ user' = (IF p = proc THEN Wake ELSE user)
      /\ UNCHANGED <<kind, serial, phase, sessions, registered, initialized,
                     cached, nextId, proc, notes, cut>>
      BY DEF Arrives
<1>9. /\ user' \in [Users -> Work]
      /\ \A v \in Users : Goes(v) /\ user'[v].want = user[v].want
  <2>1. CASE p = proc BY <2>1, <1>8, Wakes
  <2>2. CASE p # proc BY <2>2, <1>8 DEF Goes, Typed
  <2> QED BY <2>1, <2>2
<1>10. /\ Typed' /\ WorkInv' /\ HandInv' /\ ProcInv' /\ OwnAnswer' /\ IdStep
       /\ procs'[p] = e /\ DOMAIN procs' = DOMAIN procs
       /\ \A r \in DOMAIN procs \ {p} : procs'[r] = procs[r]
       /\ IdAt(p)' => IdInv'
       /\ \A v \in Users : (Reading(v)' <=> Reading(v)) /\ user'[v].id = user[v].id
  <2>1. notes' \in 0..MaxNotes BY <1>8 DEF Typed
  <2> QED BY <1>4, <1>5, <1>8, <1>9, <2>1, ProcStep
<1>11. IdAt(p)'
  <2>1. From(procs'[p].out, p) /\ From(procs'[p].unsent, p)
    BY <1>5, <1>10
  <2> QED BY <1>5, <1>10, <2>1, IdKept DEF IdInv
<1>12. proc # 0 => /\ Stream' = Stream /\ procs'[proc].alive = procs[proc].alive
                   /\ procs'[proc].todo = procs[proc].todo
  <2>1. CASE p = proc BY <2>1, <1>5, <1>8, <1>10 DEF Stream
  <2>2. CASE p # proc BY <2>2, <1>8, <1>10, OtherStream
  <2> QED BY <2>1, <2>2
<1>13. PipeInv' BY <1>8, <1>9, <1>10, <1>12, PipeSame
<1> QED BY <1>10, <1>11, <1>13

LEMMA CrashKeeps ==
  ASSUME ServersAssumption, ServersInv, NEW p \in DOMAIN procs, Crash(p)
  PROVE  ServersInv'
<1> USE DEF ServersInv
<1> DEFINE e == [procs[p] EXCEPT !.alive = FALSE, !.todo = {}, !.unsent = <<>>]
<1>1. procs[p] \in Proc /\ procs[p].out \in Seq(Token) /\ procs[p].unsent \in Seq(Token)
      BY ProcTyped
<1>2. /\ procs[p].alive /\ phase # "shut" /\ user' = (IF p = proc THEN Wake ELSE user)
      /\ UNCHANGED <<kind, serial, phase, sessions, registered, initialized,
                     cached, nextId, proc, notes, cut>>
      BY DEF Crash
<1>3. procs' = [procs EXCEPT ![p] = e] BY <1>1 DEF Crash, Proc
<1>4. <<>> \in Seq(Token) /\ {} \in SUBSET (Nat \X Users) OBVIOUS
<1>5. /\ e \in Proc /\ e.out = procs[p].out /\ e.unsent = <<>> /\ ~e.alive
      /\ e.todo = {} /\ e.shook = procs[p].shook
      BY <1>1, <1>4 DEF Proc
<1> HIDE DEF e
<1>6. p = proc BY <1>2 DEF ProcInv
<1>7. /\ user' \in [Users -> Work]
      /\ \A v \in Users : Goes(v) /\ user'[v].want = user[v].want
  BY <1>2, <1>6, Wakes
<1>8. /\ Typed' /\ WorkInv' /\ HandInv' /\ ProcInv' /\ OwnAnswer' /\ IdStep
      /\ procs'[p] = e
      /\ IdAt(p)' => IdInv'
      /\ \A v \in Users : (Reading(v)' <=> Reading(v)) /\ user'[v].id = user[v].id
  <2>1. notes' \in 0..MaxNotes BY <1>2 DEF Typed
  <2> QED BY <1>2, <1>3, <1>5, <1>7, <2>1, ProcStep
<1>9. IdAt(p)'
  <2>1. From(procs'[p].out, p) /\ From(procs'[p].unsent, p)
    BY <1>5, <1>8 DEF From, OutOf
  <2> QED BY <1>5, <1>8, <2>1, IdKept DEF IdInv
<1>10. PipeInv'
  <2> SUFFICES ASSUME Ordered' PROVE Framing(Stream, procs[proc].alive)' /\ InPlace(Stream)'
    BY <1>2, <1>5, <1>6, <1>8 DEF PipeInv
  <2>a. ~procs'[proc'].alive BY <1>2, <1>5, <1>6, <1>8
  <2>1. Ordered /\ proc # 0 BY <1>2 DEF Ordered
  <2> DEFINE o == procs[p].out
             n == procs[p].unsent
  <2>2. Stream' = o
    <3>1. o \o <<>> = o BY <1>1, ConcatEmptySeq
    <3> QED BY <1>2, <1>5, <1>6, <1>8, <3>1 DEF Stream
  <2>3. o \in Seq(Token) /\ n \in Seq(Token) BY <1>1
  <2>4. Len(o) \in Nat /\ Len(n) \in Nat BY <2>3, LenProperties
  <2>b. Stream = o \o n BY <1>6 DEF Stream
  <2> HIDE DEF o, n
  <2>5. /\ Len(Stream) = Len(o) + Len(n)
        /\ \A i \in 1..(Len(o) + Len(n)) :
             Stream[i] = IF i <= Len(o) THEN o[i] ELSE n[i - Len(o)]
    BY <2>3, <2>b, ConcatProperties
  <2>6. Framing(Stream, procs[proc].alive) /\ InPlace(Stream) BY <2>1 DEF PipeInv
  <2>7. \A i \in 1..Len(o) : i \in 1..Len(Stream) /\ o[i] = Stream[i] BY <2>4, <2>5
  <2>8. Framing(Stream, procs[proc].alive)'
    <3>1. kind' = kind BY <1>2
    <3>2. \A i \in 1..Len(o) :
            o[i].part \in IF kind = "lsp" THEN {"header", "blank", "body"} ELSE {"line"}
      BY <2>6, <2>7 DEF Framing
    <3>3. \A i \in 1..Len(o) : i + 1 \in 1..Len(o) => Follows(o[i], o[i + 1])
      BY <2>6, <2>7 DEF Framing
    <3> QED BY <2>a, <2>2, <3>1, <3>2, <3>3 DEF Framing, Follows
  <2>9. Len(o) # 0 => Len(Stream) # 0 /\ o[1] = Stream[1] BY <2>4, <2>5, <2>7
  <2>10. InPlace(Stream)'
    BY <1>2, <1>7, <1>8, <2>2, <2>6, <2>9 DEF InPlace, FirstPart
  <2> QED BY <2>8, <2>10
<1> QED BY <1>8, <1>9, <1>10

\* A message as the client reads it.
LEMMA FramedIs ==
  ASSUME NEW t \in Token
  PROVE  /\ Framed(t) \in Seq(Token) /\ DOMAIN Framed(t) = 1..Len(Framed(t))
         /\ Len(Framed(t)) = IF kind = "lsp" THEN 3 ELSE 1
         /\ \A i \in 1..Len(Framed(t)) :
              /\ Framed(t)[i].id = t.id /\ Framed(t)[i].kind = t.kind
              /\ Framed(t)[i].for = t.for
         /\ kind = "lsp" => /\ Framed(t)[1].part = "header" /\ Framed(t)[2].part = "blank"
                            /\ Framed(t)[3].part = "body"
         /\ kind # "lsp" => Framed(t)[1] = t
<1>1. CASE kind = "lsp"
  <2> DEFINE h == [t EXCEPT !.part = "header"]
             n == [t EXCEPT !.part = "blank"]
             y == [t EXCEPT !.part = "body"]
  <2>1. h \in Token /\ n \in Token /\ y \in Token BY DEF Token, Parts
  <2>2. /\ h.part = "header" /\ n.part = "blank" /\ y.part = "body"
        /\ \A x \in {h, n, y} : x.id = t.id /\ x.kind = t.kind /\ x.for = t.for
    BY DEF Token
  <2>3. Framed(t) = <<h, n, y>> BY <1>1 DEF Framed
  <2> HIDE DEF h, n, y
  <2>4. /\ Framed(t) \in Seq(Token) /\ Len(Framed(t)) = 3
        /\ Framed(t)[1] = h /\ Framed(t)[2] = n /\ Framed(t)[3] = y
        /\ DOMAIN Framed(t) = 1..3
    BY <2>1, <2>3
  <2> QED BY <1>1, <2>2, <2>4
<1>2. CASE kind # "lsp"
  <2>1. Framed(t) = <<t>> BY <1>2 DEF Framed
  <2> QED BY <1>2, <2>1
<1> QED BY <1>1, <1>2

\* A whole message after whole messages.
LEMMA Appends ==
  ASSUME kind \in {"stdio", "lsp"}, NEW s \in Seq(Token), NEW t \in Token,
         t.part = "line", Framing(s, TRUE)
  PROVE  LET r == s \o Framed(t) IN
         /\ Framing(r, TRUE) /\ Len(r) \in Nat \ {0}
         /\ r[1].part = IF Len(s) # 0 THEN s[1].part ELSE FirstPart
         /\ \A i \in 1..Len(s) : i \in 1..Len(r) /\ r[i] = s[i]
         /\ \E i \in 1..Len(r) : r[i].id = t.id /\ r[i].kind = t.kind
<1> DEFINE f == Framed(t)
           r == s \o f
<1>1. f \in Seq(Token) /\ Len(s) \in Nat /\ Len(f) = (IF kind = "lsp" THEN 3 ELSE 1)
      BY FramedIs, LenProperties
<1>2. /\ \A i \in 1..Len(f) : f[i].id = t.id /\ f[i].kind = t.kind
      /\ kind = "lsp" => f[1].part = "header" /\ f[2].part = "blank" /\ f[3].part = "body"
      /\ kind = "stdio" => f[1].part = "line"
      BY FramedIs
<1> HIDE DEF f
<1>3. /\ Len(r) = Len(s) + Len(f)
      /\ \A i \in 1..(Len(s) + Len(f)) : r[i] = IF i <= Len(s) THEN s[i] ELSE f[i - Len(s)]
      BY <1>1, ConcatProperties
<1> HIDE DEF r
<1>4. \A i \in 1..Len(s) : i \in 1..Len(r) /\ r[i] = s[i] BY <1>1, <1>3
<1>5. \A i \in 1..Len(f) : i + Len(s) \in 1..Len(r) /\ r[i + Len(s)] = f[i] BY <1>1, <1>3
<1>6. Len(r) \in Nat \ {0} BY <1>1, <1>3
<1>7. r[1].part = IF Len(s) # 0 THEN s[1].part ELSE FirstPart
  <2>1. CASE Len(s) # 0 BY <2>1, <1>1, <1>4
  <2>2. CASE Len(s) = 0
    <3>1. r[1] = f[1] BY <2>2, <1>1, <1>5
    <3> QED BY <2>2, <3>1, <1>2 DEF FirstPart
  <2> QED BY <2>1, <2>2
<1>8. \E i \in 1..Len(r) : r[i].id = t.id /\ r[i].kind = t.kind
  <2>1. 1 \in 1..Len(f) BY <1>1
  <2> QED BY <2>1, <1>2, <1>5
<1>9. Framing(r, TRUE)
  <2>1. CASE kind = "stdio"
    <3>1. \A i \in 1..Len(s) : s[i].part = "line" BY <2>1 DEF Framing
    <3>2. \A i \in 1..Len(r) : r[i].part = "line"
      <4>1. ASSUME NEW i \in 1..Len(r) PROVE r[i].part = "line"
        <5>1. CASE i <= Len(s) BY <5>1, <3>1, <1>1, <1>4
        <5>2. CASE i > Len(s)
          <6>1. i = 1 + Len(s) BY <5>2, <2>1, <1>1, <1>3
          <6> QED BY <6>1, <2>1, <1>1, <1>2, <1>5
        <5> QED BY <5>1, <5>2, <1>1
      <4> QED BY <4>1
    <3> QED BY <2>1, <3>2, <1>6 DEF Framing, Follows, Last
  <2>2. CASE kind = "lsp"
    <3>1. Len(f) = 3 BY <2>2, <1>1
    <3>2. /\ r[1 + Len(s)] = f[1] /\ r[2 + Len(s)] = f[2] /\ r[3 + Len(s)] = f[3]
          /\ Len(r) = Len(s) + 3
      BY <3>1, <1>1, <1>3, <1>5
    <3>3. /\ r[1 + Len(s)].part = "header" /\ r[2 + Len(s)].part = "blank"
          /\ r[3 + Len(s)].part = "body"
          /\ Follows(r[1 + Len(s)], r[2 + Len(s)]) /\ Follows(r[2 + Len(s)], r[3 + Len(s)])
      BY <3>1, <3>2, <2>2, <1>2 DEF Follows
    <3>4. /\ \A i \in 1..Len(s) : s[i].part \in {"header", "blank", "body"}
          /\ \A i \in 1..Len(s) : i + 1 \in 1..Len(s) => Follows(s[i], s[i + 1])
          /\ Len(s) # 0 => s[Len(s)].part = "body"
      BY <2>2 DEF Framing, Last
    <3>5. ASSUME NEW i \in 1..Len(r) PROVE r[i].part \in {"header", "blank", "body"}
      <4>1. CASE i <= Len(s) BY <4>1, <3>4, <1>1, <1>4
      <4>2. CASE i > Len(s)
        <5>1. i \in {1 + Len(s), 2 + Len(s), 3 + Len(s)} BY <4>2, <3>2, <1>1
        <5> QED BY <5>1, <3>3
      <4> QED BY <4>1, <4>2, <1>1
    <3>6. ASSUME NEW i \in 1..Len(r), i + 1 \in 1..Len(r) PROVE Follows(r[i], r[i + 1])
      <4>1. CASE i + 1 <= Len(s)
        <5>1. i \in 1..Len(s) /\ i + 1 \in 1..Len(s) BY <4>1, <1>1
        <5> QED BY <5>1, <3>4, <1>4
      <4>2. CASE i = Len(s)
        <5>1. i \in 1..Len(s) /\ Len(s) # 0 BY <4>2, <3>6, <1>1
        <5>2. r[i].part = "body" BY <4>2, <5>1, <3>4, <1>4
        <5>3. r[i + 1].part = "header" BY <4>2, <3>3, <1>1
        <5> QED BY <5>2, <5>3 DEF Follows
      <4>3. CASE i > Len(s)
        <5>1. i \in {1 + Len(s), 2 + Len(s)} BY <4>3, <3>2, <3>6, <1>1
        <5>2. (1 + Len(s)) + 1 = 2 + Len(s) /\ (2 + Len(s)) + 1 = 3 + Len(s) BY <1>1
        <5> QED BY <5>1, <5>2, <3>3
      <4> QED BY <4>1, <4>2, <4>3, <1>1
    <3>7. r[Len(r)].part = "body"
      <4>1. Len(r) = 3 + Len(s) BY <3>2, <1>1
      <4> QED BY <4>1, <3>3
    <3> QED BY <2>2, <3>5, <3>6, <3>7 DEF Framing, Last
  <2> QED BY <2>1, <2>2
<1> QED BY <1>4, <1>6, <1>7, <1>8, <1>9 DEF r, f

\* The living server sends a whole message after all that it had sent.
LEMMA PipeSent ==
  ASSUME Typed, PipeInv, NEW t \in Token, t.part = "line",
         proc # 0 => /\ procs[proc].alive /\ procs[proc].unsent = <<>>
                     /\ procs'[proc].unsent = Framed(t) /\ procs'[proc].out = procs[proc].out
                     /\ \A q \in procs[proc].todo :
                          q \in procs'[proc].todo \/ (q[1] = t.id /\ t.kind # "note"),
         UNCHANGED <<kind, serial, proc, cut, user>>
  PROVE  PipeInv'
<1> SUFFICES ASSUME Ordered' PROVE
      /\ Framing(Stream, TRUE)' /\ InPlace(Stream)'
      /\ \A v \in Users : Reading(v)' => Due(v, procs[proc].todo, Stream)'
    BY DEF PipeInv, Framing
<1>1. Ordered /\ proc # 0 BY DEF Ordered
<1> DEFINE s == procs[proc].out
<1>2. s \in Seq(Token) BY <1>1, ProcThere, ProcTyped
<1>3. Stream = s
  <2>1. s \o <<>> = s BY <1>2, ConcatEmptySeq
  <2> QED BY <1>1, <2>1 DEF Stream
<1>4. Stream' = s \o Framed(t) BY <1>1 DEF Stream
<1> HIDE DEF s
<1>5. /\ Framing(s, TRUE) /\ InPlace(s)
      /\ \A v \in Users : Reading(v) => Due(v, procs[proc].todo, s)
      BY <1>1, <1>3 DEF PipeInv, Framing
<1>6. kind \in {"stdio", "lsp"} BY <1>1 DEF Typed, Ordered
<1>7. /\ Framing(Stream', TRUE) /\ Len(Stream') \in Nat \ {0}
      /\ Stream'[1].part = IF Len(s) # 0 THEN s[1].part ELSE FirstPart
      /\ \A i \in 1..Len(s) : i \in 1..Len(Stream') /\ Stream'[i] = s[i]
      /\ \E i \in 1..Len(Stream') : Stream'[i].id = t.id /\ Stream'[i].kind = t.kind
  <2> DEFINE r == s \o Framed(t)
  <2>1. /\ Framing(r, TRUE) /\ Len(r) \in Nat \ {0}
        /\ r[1].part = IF Len(s) # 0 THEN s[1].part ELSE FirstPart
        /\ \A i \in 1..Len(s) : i \in 1..Len(r) /\ r[i] = s[i]
        /\ \E i \in 1..Len(r) : r[i].id = t.id /\ r[i].kind = t.kind
    BY <1>2, <1>5, <1>6, Appends
  <2>2. Stream' = r BY <1>4
  <2> HIDE DEF r
  <2> QED BY <2>1, <2>2
<1>8. Framing(Stream, TRUE)' BY <1>7 DEF Framing, Follows, Last
<1>9. \A v \in Users : Reading(v)' <=> Reading(v) BY DEF Reading
<1>10. InPlace(Stream)'
  <2>1. ASSUME NEW v \in Users, Reading(v) PROVE Stream'[1].part = user[v].want
    <3>1. CASE Len(s) # 0 BY <3>1, <2>1, <1>5, <1>7 DEF InPlace
    <3>2. CASE Len(s) = 0
      <4>1. user[v].want = FirstPart BY <3>2, <2>1, <1>5 DEF Due
      <4> QED BY <3>2, <4>1, <1>7
    <3> QED BY <3>1, <3>2
  <2>2. (\A v \in Users : ~Reading(v)) => Stream'[1].part = FirstPart
    BY <1>5, <1>7 DEF InPlace
  <2>3. FirstPart' = FirstPart BY DEF FirstPart
  <2> QED BY <1>9, <2>1, <2>2, <2>3 DEF InPlace
<1>11. ASSUME NEW v \in Users, Reading(v)' PROVE Due(v, procs[proc].todo, Stream)'
  <2>1. Due(v, procs[proc].todo, s) BY <1>5, <1>9, <1>11
  <2>2. \/ <<user[v].id, v>> \in procs'[proc].todo
        \/ \E k \in 1..Len(Stream') : Stream'[k].id = user[v].id /\ Stream'[k].kind # "note"
    <3>1. CASE <<user[v].id, v>> \in procs[proc].todo BY <3>1, <1>1, <1>7
    <3>2. CASE <<user[v].id, v>> \notin procs[proc].todo
      <4>1. PICK k \in 1..Len(s) : s[k].id = user[v].id /\ s[k].kind # "note"
        BY <2>1, <3>2 DEF Due
      <4> QED BY <4>1, <1>7
    <3> QED BY <3>1, <3>2
  <2>3. Len(Stream') # 0 BY <1>7
  <2> QED BY <2>2, <2>3 DEF Due
<1> QED BY <1>8, <1>10, <1>11

\* The user of an id, and the id of an answer, as a message is sent.
LEMMA SentOwned ==
  ASSUME NEW t \in Token, t.kind \in Answers => Owned(t.id, t.for)
  PROVE  OwnedIn(Framed(t))
BY FramedIs DEF OwnedIn

\* The server sends a message: an answer that it owed, or one unasked.
LEMMA ServerSends ==
  ASSUME ServersAssumption, ServersInv, NEW p \in DOMAIN procs, CanSend(p),
         NEW t \in Token, t.part = "line",
         NEW todo \in SUBSET procs[p].todo,
         \A q \in procs[p].todo : q \in todo \/ (q[1] = t.id /\ t.kind # "note"),
         t.kind \in Answers => Owned(t.id, t.for),
         procs' = [procs EXCEPT ![p].todo = todo, ![p].unsent = Framed(t)],
         notes' \in 0..MaxNotes,
         UNCHANGED <<kind, serial, phase, sessions, registered, initialized, cached,
                     nextId, proc, user, cut>>
  PROVE  ServersInv'
<1> USE DEF ServersInv
<1> DEFINE e == [procs[p] EXCEPT !.todo = todo, !.unsent = Framed(t)]
<1>1. procs[p] \in Proc /\ procs[p].alive /\ procs[p].unsent = <<>>
      BY ProcTyped DEF CanSend
<1>2. procs' = [procs EXCEPT ![p] = e] BY <1>1 DEF Proc
<1>3. Framed(t) \in Seq(Token) /\ todo \in SUBSET (Nat \X Users)
      BY <1>1, FramedIs DEF Proc
<1>4. /\ e \in Proc /\ e.out = procs[p].out /\ e.unsent = Framed(t) /\ e.todo = todo
      /\ e.alive = procs[p].alive /\ e.shook = procs[p].shook
      BY <1>1, <1>3 DEF Proc
<1> HIDE DEF e
<1>5. \A v \in Users : Goes(v) BY DEF Goes
<1>6. user' \in [Users -> Work] BY DEF Typed
<1>7. /\ Typed' /\ WorkInv' /\ HandInv' /\ ProcInv' /\ OwnAnswer' /\ IdStep
      /\ procs'[p] = e /\ (IdAt(p)' => IdInv')
  <2>1. (e.alive => procs[p].alive) /\ (procs[p].shook => e.shook) BY <1>4
  <2>2. UNCHANGED <<kind, serial, phase, sessions, registered, initialized, cached,
                    nextId, proc, cut>> OBVIOUS
  <2>3. e \in Proc BY <1>4
  <2> QED BY <1>2, <1>5, <1>6, <2>1, <2>2, <2>3, ProcStep
<1>8. IdAt(p)'
  <2>1. IdAt(p) BY DEF IdInv
  <2>2. \A id, for : Owned(id, for)' <=> Owned(id, for) BY DEF Owned
  <2>3. OwnedIn(procs[p].out)' BY <2>1, <1>4, <1>7 DEF IdAt, OwnedIn, Owned
  <2>4. OwnedIn(procs[p].unsent)'
    <3>1. OwnedIn(Framed(t)) BY SentOwned
    <3> QED BY <3>1, <1>4, <1>7 DEF OwnedIn, Owned
  <2>5. \A q \in procs'[p].todo : Owned(q[1], q[2])' BY <2>1, <2>2, <1>4, <1>7 DEF IdAt
  <2> QED BY <2>3, <2>4, <2>5 DEF IdAt
<1>9. PipeInv'
  <2>1. p = proc BY <1>1 DEF ProcInv
  <2> QED BY <2>1, <1>1, <1>4, <1>7, PipeSent
<1> QED BY <1>7, <1>8, <1>9

LEMMA ServerKeeps ==
  ASSUME ServersAssumption, ServersInv, NEW p \in DOMAIN procs,
         ServerAnswers(p) \/ ServerSpeaks(p)
  PROVE  ServersInv'
<1>1. procs[p] \in Proc /\ procs[p].todo \in SUBSET (Nat \X Users)
      BY ProcTyped DEF ServersInv
<1>2. "main" \in Users BY DEF Users
<1>3. CASE ServerAnswers(p)
  <2>1. PICK q \in procs[p].todo : \E k \in AnswersTo(q) :
          procs' = [procs EXCEPT ![p].todo = @ \ {q},
                                 ![p].unsent = Framed([part |-> "line", id |-> q[1],
                                                       kind |-> k, for |-> q[2]])]
    BY <1>3 DEF ServerAnswers
  <2>2. PICK k \in AnswersTo(q) :
          procs' = [procs EXCEPT ![p].todo = @ \ {q},
                                 ![p].unsent = Framed([part |-> "line", id |-> q[1],
                                                       kind |-> k, for |-> q[2]])]
    BY <2>1
  <2> DEFINE t == [part |-> "line", id |-> q[1], kind |-> k, for |-> q[2]]
             todo == procs[p].todo \ {q}
  <2>3. k \in Answers BY DEF AnswersTo, Answers
  <2>4. q[1] \in Nat /\ q[2] \in Users BY <1>1
  <2>5. /\ t \in Token /\ t.part = "line" /\ t.kind \in Answers /\ t.kind # "note"
        /\ t.id = q[1] /\ t.for = q[2]
    BY <2>3, <2>4 DEF Token, Parts, Answers
  <2>6. procs' = [procs EXCEPT ![p].todo = todo, ![p].unsent = Framed(t)]
    BY <2>2, <1>1 DEF Proc
  <2>7. Owned(q[1], q[2]) BY DEF ServersInv, IdInv, IdAt
  <2>8. notes' \in 0..MaxNotes BY <1>3 DEF ServerAnswers, ServersInv, Typed
  <2>9. todo \in SUBSET procs[p].todo /\ \A r \in procs[p].todo : r \in todo \/ r = q
    OBVIOUS
  <2> HIDE DEF t, todo
  <2>10. CanSend(p) /\ UNCHANGED <<kind, serial, phase, sessions, registered, initialized,
                                   cached, nextId, proc, user, cut>>
    BY <1>3 DEF ServerAnswers
  <2> QED BY <2>5, <2>6, <2>7, <2>8, <2>9, <2>10, ServerSends
<1>4. CASE ServerSpeaks(p)
  <2>a. notes' \in 0..MaxNotes
    <3>1. notes < MaxNotes /\ notes' = notes + 1 BY <1>4 DEF ServerSpeaks
    <3>2. notes \in 0..MaxNotes BY DEF ServersInv, Typed
    <3> QED BY <3>1, <3>2, ServersAssumption
  <2>1. PICK t \in {None} \cup {[None EXCEPT !.kind = "ask", !.id = i] : i \in ServerIds} :
          procs' = [procs EXCEPT ![p].unsent = Framed(t)]
    BY <1>4 DEF ServerSpeaks
  <2>2. t \in Token /\ t.part = "line" /\ t.kind \notin Answers
    <3>1. CASE t = None BY <3>1, <1>2 DEF None, Token, Parts, Answers, Unasked
    <3>2. CASE t # None
      <4>1. PICK i \in ServerIds : t = [None EXCEPT !.kind = "ask", !.id = i]
        BY <3>2, <2>1
      <4>2. i \in Nat BY DEF ServersAssumption
      <4> QED BY <4>1, <4>2, <1>2 DEF None, Token, Parts, Answers, Unasked
    <3> QED BY <3>1, <3>2
  <2>3. procs' = [procs EXCEPT ![p].todo = procs[p].todo, ![p].unsent = Framed(t)]
    BY <2>1, <1>1 DEF Proc
  <2>5. CanSend(p) /\ UNCHANGED <<kind, serial, phase, sessions, registered, initialized,
                                  cached, nextId, proc, user, cut>>
    BY <1>4 DEF ServerSpeaks
  <2> QED BY <2>2, <2>3, <2>a, <2>5, ServerSends
<1> QED BY <1>3, <1>4

-----------------------------------------------------------------------------
(* The client's reads and writes *)

\* A script without its first message: what is sent is one of the handshake's
\* in its order, or comes after the handshake.
LEMMA AdvanceKeeps ==
  ASSUME ServersAssumption, ServersInv, NEW u \in Users, ~Idle(u), NEW token \in Token,
         token.kind \in Answers => token.for = u,
         Advance(u, token), UNCHANGED <<kind, serial, sessions, nextId, notes, cut>>,
         cached' \in BOOLEAN, proc # 0, ProcsStay,
         initialized' = (initialized \/ Head(user[u].script) = "initialize"),
         Head(user[u].script) = "initialized" => procs'[proc].shook,
         IdStep => IdInv', Departed(u) => PipeInv'
  PROVE  ServersInv'
<1> USE DEF ServersInv
<1> DEFINE s == user[u].script
<1>1. proc' = proc /\ procs' \in Seq(Proc) /\ Len(procs') = Len(procs) BY DEF ProcsStay
<1>2. /\ Departed(u) /\ WorkInv'
      /\ phase' \in {"load", "serve", "shut"} /\ registered' \in BOOLEAN
      /\ user'[u].script = Tail(s)
      /\ user'[u].got \in {user[u].got, Gist(token)}
      /\ u # "main" => phase' = phase /\ registered' = registered
      /\ Tail(s) # <<>> => phase' = phase /\ registered' = registered
      /\ phase' = "shut" => phase = "shut"
      BY <1>1, AdvanceWork
<1>3. s # <<>> BY DEF WorkInv, StandsAt, Idle
<1>4. "main" \in Users BY DEF Users
<1>5. phase # "shut" BY DEF WorkInv, Quiet
<1>6. IdStep BY <1>2, DepartedIds
<1>7. Typed'
  <2>1. initialized' \in BOOLEAN BY DEF Typed
  <2> QED BY <1>1, <1>2, <2>1 DEF Typed, Departed
<1>8. /\ procs'[proc].alive => procs[proc].alive
      /\ procs[proc].shook => procs'[proc].shook
      BY ProcThere DEF ProcsStay
<1>9. HandInv'
  <2>1. CASE u = "main"
    <3>1. s \in MainScripts BY <2>1 DEF WorkInv
    <3>2. user'["main"].script = Tail(s) BY <2>1, <1>2
    <3> HIDE DEF s
    <3>3. CASE s \in Shaking
      <4>1. Head(s) = "initialize" /\ Tail(s) \in Shaken BY <3>1, <3>3, <1>3, MainSteps
      <4>2. Tail(s) # <<>> BY <4>1, SMTT(20) DEF Shaken
      <4> QED BY <4>1, <4>2, <3>2, <1>1, <1>2 DEF HandInv, s
    <3>4. CASE s \in Shaken
      <4>1. Head(s) = "initialized" /\ Tail(s) \in {<<>>, <<"list">>}
        BY <3>1, <3>4, <1>3, MainSteps
      <4>2. initialized BY <2>1, <3>4 DEF HandInv, s
      <4> QED BY <4>1, <4>2, <3>2, <1>1, <1>2 DEF HandInv, s
    <3>5. CASE s = <<"list">>
      <4>1. Tail(s) = <<>> BY <3>1, <3>5, <1>3, MainSteps
      <4>2. initialized BY <2>1, <3>5 DEF HandInv, s
      <4>3. <<"list">> \notin Shaken
        <5>1. Head(<<"list">>) = "list" OBVIOUS
        <5>2. ASSUME <<"list">> \in Shaken PROVE FALSE
          <6>1. Head(<<"list">>) = "initialized"
            BY <5>2, <3>1, <3>5, <1>3, MainSteps
          <6> QED BY <5>1, <6>1
        <5> QED BY <5>2
      <4>4. (kind # "http" /\ procs[proc].alive) => procs[proc].shook
        BY <2>1, <3>5, <4>2, <4>3 DEF HandInv, s
      <4> QED BY <4>2, <4>4, <3>2, <1>1, <1>2, <1>8 DEF HandInv
    <3> QED BY <3>1, <3>3, <3>4, <3>5, <1>3 DEF MainScripts
  <2>2. CASE u # "main"
    <3>1. s \in CallScripts BY <2>2 DEF WorkInv, Users
    <3>2. Head(s) \in {"didOpen", "query", "call"} BY <3>1, <1>3, CallSteps
    <3>3. initialized' <=> initialized BY <3>2
    <3>4. user'["main"] = user["main"] BY <2>2, <1>2, <1>4 DEF Departed
    <3> QED BY <2>2, <3>3, <3>4, <1>1, <1>2, <1>8 DEF HandInv
  <2> QED BY <2>1, <2>2
<1>10. ProcInv'
  <2>1. DOMAIN procs' = DOMAIN procs BY <1>1, LenProperties DEF Typed
  <2> QED BY <1>1, <1>2, <1>5, <2>1 DEF ProcInv, ProcsStay
<1>11. OwnAnswer' BY <1>2, AnswersStay DEF Departed
<1> QED BY <1>2, <1>6, <1>7, <1>9, <1>10, <1>11

\* A process of whose output the first k pieces are read.
Dropped(q, k) == [q EXCEPT !.out = SubSeq(q.out, k + 1, Len(q.out))]

LEMMA DroppedIs ==
  ASSUME NEW q \in Proc, NEW k \in DOMAIN q.out
  PROVE  LET e == Dropped(q, k) IN
         /\ e \in Proc /\ e.out = SubSeq(q.out, k + 1, Len(q.out)) /\ e.unsent = q.unsent
         /\ e.alive = q.alive /\ e.todo = q.todo /\ e.shook = q.shook
         /\ OutOf(e.out, q.out, q.unsent) /\ OutOf(e.unsent, q.out, q.unsent)
<1> DEFINE b == SubSeq(q.out, k + 1, Len(q.out))
           e == Dropped(q, k)
<1>1. q.out \in Seq(Token) /\ Len(q.out) \in Nat /\ DOMAIN q.out = 1..Len(q.out)
      BY LenProperties DEF Proc
<1>2. k \in 0..Len(q.out) /\ k \in Nat BY <1>1
<1>9. b \in Seq(Token) /\ Rest(b, q.out, k) BY <1>1, <1>2, Pieces, Zenon
<1> HIDE DEF b
<1>3. /\ b \in Seq(Token) /\ Len(b) = Len(q.out) - k
      /\ \A i \in 1..(Len(q.out) - k) : b[i] = q.out[i + k]
      BY <1>9 DEF Rest
<1>4. DOMAIN b = 1..(Len(q.out) - k) BY <1>3, LenProperties
<1>5. \A i \in DOMAIN b : i + k \in DOMAIN q.out /\ b[i] = q.out[i + k]
      BY <1>1, <1>2, <1>3, <1>4
<1>6. OutOf(b, q.out, q.unsent) BY <1>5 DEF OutOf
<1>7. OutOf(q.unsent, q.out, q.unsent) BY DEF OutOf
<1>8. /\ e \in Proc /\ e.out = b /\ e.unsent = q.unsent
      /\ e.alive = q.alive /\ e.todo = q.todo /\ e.shook = q.shook
      BY <1>3 DEF Proc, Dropped, b
<1> HIDE DEF e
<1> QED BY <1>6, <1>7, <1>8 DEF b, e

\* Some of the pipe is read.
LEMMA DropKeeps ==
  ASSUME Typed, IdInv, proc # 0, NEW k \in DOMAIN Pipe, Drop(k), proc' = proc
  PROVE  LET e == Dropped(procs[proc], k) IN
         /\ procs' = [procs EXCEPT ![proc] = e] /\ procs[proc] \in Proc /\ e \in Proc
         /\ proc \in DOMAIN procs /\ procs'[proc] = e
         /\ e.out = SubSeq(Pipe, k + 1, Len(Pipe)) /\ e.unsent = procs[proc].unsent
         /\ e.alive = procs[proc].alive /\ e.todo = procs[proc].todo
         /\ e.shook = procs[proc].shook
         /\ ProcsStay /\ (IdStep => IdAt(proc)') /\ (IdStep => IdInv')
<1> DEFINE e == Dropped(procs[proc], k)
<1>1. proc \in DOMAIN procs /\ procs[proc] \in Proc BY ProcThere, ProcTyped
<1>2. procs' = [procs EXCEPT ![proc] = e] BY <1>1 DEF Drop, Dropped, Pipe, Proc
<1>3. k \in DOMAIN procs[proc].out BY DEF Pipe
<1>4. /\ e \in Proc /\ e.out = SubSeq(procs[proc].out, k + 1, Len(procs[proc].out))
      /\ e.unsent = procs[proc].unsent
      /\ e.alive = procs[proc].alive /\ e.todo = procs[proc].todo
      /\ e.shook = procs[proc].shook
      /\ From(e.out, proc) /\ From(e.unsent, proc)
      BY <1>1, <1>3, DroppedIs DEF From
<1> HIDE DEF e
<1>5. /\ procs' \in Seq(Proc) /\ Len(procs') = Len(procs)
      /\ DOMAIN procs' = DOMAIN procs /\ procs'[proc] = e
      /\ \A r \in DOMAIN procs \ {proc} : procs'[r] = procs[r]
      BY <1>1, <1>2, <1>4, ProcChanged
<1>6. ProcsStay BY <1>4, <1>5 DEF ProcsStay
<1>7. IdStep => IdAt(proc)'
  <2>1. From(procs'[proc].out, proc) /\ From(procs'[proc].unsent, proc) BY <1>4, <1>5
  <2>2. procs'[proc].todo \subseteq procs[proc].todo BY <1>4, <1>5
  <2>4. ASSUME IdStep PROVE (IdAt(proc))'
    <3>1. \A p \in DOMAIN procs : p = proc =>
            (procs'[p].todo \subseteq procs[p].todo /\ From(procs'[p].out, p)
              /\ From(procs'[p].unsent, p) => IdAt(p)')
      BY <2>4, IdKept DEF IdInv
    <3>2. PICK p \in DOMAIN procs : p = proc BY <1>1
    <3>3. IdAt(p)' BY <3>1, <3>2, <2>1, <2>2
    <3> QED BY <3>2, <3>3
  <2> QED BY <2>4
<1>8. ASSUME IdStep PROVE IdInv'
  <2>1. ASSUME NEW r \in DOMAIN procs PROVE IdAt(r)'
    <3>1. CASE r = proc BY <3>1, <1>7, <1>8
    <3>2. CASE r # proc BY <3>2, <1>5, <1>8, IdStays DEF IdInv
    <3> QED BY <3>1, <3>2
  <2> QED BY <2>1, <1>5 DEF IdInv
<1> QED BY <1>1, <1>2, <1>4, <1>5, <1>6, <1>7, <1>8 DEF e, Pipe

\* The first piece of the stream is read: the others follow.
LEMMA StreamRead ==
  ASSUME Typed, IdInv, proc # 0, Pipe # <<>>, Drop(1), proc' = proc
  PROVE  /\ Len(Stream) \in Nat \ {0} /\ Len(Stream') \in Nat
         /\ Len(Stream') + 1 = Len(Stream)
         /\ \A i \in 1..Len(Stream') : Stream'[i] = Stream[i + 1]
         /\ Stream[1] = Pipe[1] /\ 1 \in DOMAIN Pipe /\ Pipe[1] \in Token
<1> DEFINE o == procs[proc].out
           n == procs[proc].unsent
<1>1. o \in Seq(Token) /\ n \in Seq(Token) BY ProcThere, ProcTyped
<1>2. o # <<>> BY DEF Pipe
<1>3. 1 \in DOMAIN Pipe /\ Pipe[1] \in Token
  <2>1. Len(o) \in Nat \ {0} /\ DOMAIN o = 1..Len(o)
    BY <1>1, <1>2, LenProperties, EmptySeq
  <2>2. 1 \in DOMAIN o BY <2>1
  <2>3. o[1] \in Token BY <1>1, <2>1, <2>2, ElementOfSeq
  <2> QED BY <2>2, <2>3 DEF Pipe
<1>4. procs'[proc].out = SubSeq(Pipe, 1 + 1, Len(Pipe)) /\ procs'[proc].unsent = n
  BY <1>3, DropKeeps
<1>5. 1 + 1 = 2 OBVIOUS
<1>6. Stream' = SubSeq(o, 2, Len(o)) \o n
  <2>1. procs'[proc].out = SubSeq(o, 2, Len(o)) BY <1>4, <1>5 DEF Pipe
  <2> QED BY <1>4, <2>1 DEF Stream
<1>7. Stream = o \o n BY DEF Stream
<1> HIDE DEF o, n
<1> DEFINE d == SubSeq(o, 2, Len(o)) \o n
<1>8. d \in Seq(Token) /\ Shifted(d, o \o n)
  <2>1. SubSeq(o, 2, Len(o)) \in Seq(Token) BY <1>1, <1>2, DropFirst, Zenon
  <2>2. d \in Seq(Token) BY <1>1, <2>1, ConcatProperties
  <2>3. Shifted(d, o \o n) BY <1>1, <1>2, DropFirst, Zenon
  <2> QED BY <2>2, <2>3
<1> HIDE DEF d
<1>9. Len(d) \in Nat BY <1>8, LenProperties
<1>10. Stream' = d BY <1>6 DEF d
<1>11. Stream[1] = Pipe[1] BY StreamTyped DEF Pipe
<1>12. Len(Stream') \in Nat /\ Len(Stream') + 1 = Len(Stream)
       /\ \A i \in 1..Len(Stream') : Stream'[i] = Stream[i + 1]
  BY <1>7, <1>8, <1>9, <1>10 DEF Shifted
<1> QED BY <1>3, <1>11, <1>12, StreamTyped

\* Without its first piece a stream goes on as it went on.
LEMMA FramingRead ==
  ASSUME NEW s, NEW d, NEW whole \in BOOLEAN, Framing(s, whole),
         Len(s) \in Nat \ {0}, Len(d) \in Nat, Len(d) + 1 = Len(s),
         \A i \in 1..Len(d) : d[i] = s[i + 1]
  PROVE  /\ Framing(d, whole)
         /\ Len(d) # 0 => Follows(s[1], d[1])
         /\ whole /\ Len(d) = 0 => s[1].part = Last
<1>1. \A i \in 1..Len(d) : i + 1 \in 1..Len(s) OBVIOUS
<1>2. \A i \in 1..Len(d) :
        d[i].part \in IF kind = "lsp" THEN {"header", "blank", "body"} ELSE {"line"}
      BY <1>1 DEF Framing
<1>3. ASSUME NEW i \in 1..Len(d), i + 1 \in 1..Len(d) PROVE Follows(d[i], d[i + 1])
  <2>1. i + 1 \in 1..Len(s) /\ (i + 1) + 1 \in 1..Len(s) BY <1>3
  <2>2. Follows(s[i + 1], s[(i + 1) + 1]) BY <2>1 DEF Framing
  <2> QED BY <1>3, <2>2
<1>4. whole /\ Len(d) # 0 => d[Len(d)].part = Last
  <2>1. Len(d) # 0 => Len(d) \in 1..Len(d) /\ Len(d) + 1 = Len(s) OBVIOUS
  <2> QED BY <2>1 DEF Framing
<1>5. Len(d) # 0 => Follows(s[1], d[1])
  <2>1. Len(d) # 0 => 1 \in 1..Len(d) /\ 1 \in 1..Len(s) /\ 1 + 1 \in 1..Len(s) OBVIOUS
  <2>2. Len(d) # 0 => Follows(s[1], s[1 + 1]) BY <2>1 DEF Framing
  <2> QED BY <2>1, <2>2
<1>6. whole /\ Len(d) = 0 => s[1].part = Last
  <2>1. Len(d) = 0 => Len(s) = 1 OBVIOUS
  <2> QED BY <2>1 DEF Framing
<1> QED BY <1>2, <1>3, <1>4, <1>5, <1>6 DEF Framing

\* The one reader reads a piece that it does not stop at.
LEMMA PipeRead ==
  ASSUME Typed, WorkInv, IdInv, PipeInv, NEW u \in Users, Reading(u), Pipe # <<>>, Drop(1),
         UNCHANGED <<kind, serial, proc, cut>>,
         procs'[proc].alive = procs[proc].alive, procs'[proc].todo = procs[proc].todo,
         \A v \in Users : (Reading(v)' <=> Reading(v)) /\ user'[v].id = user[v].id,
         \A v \in Users \ {u} : user'[v] = user[v],
         Ordered /\ Len(Stream) > 1 /\ Follows(Stream[1], Stream[2]) =>
           Stream[2].part = user'[u].want,
         Ordered /\ procs[proc].alive /\ Pipe[1].kind # "note" /\ Pipe[1].id = user[u].id =>
           /\ Pipe[1].part # Last
           /\ Follows(Stream[1], Stream[2]) =>
                Stream[2].id = Stream[1].id /\ Stream[2].kind = Stream[1].kind,
         Ordered /\ user'[u].want # FirstPart => Pipe[1].part # Last
  PROVE  PipeInv'
<1> SUFFICES ASSUME Ordered' PROVE
      /\ Framing(Stream, procs[proc].alive)' /\ InPlace(Stream)'
      /\ procs'[proc'].alive =>
           \A v \in Users : Reading(v)' => Due(v, procs[proc].todo, Stream)'
    BY DEF PipeInv
<1>1. Ordered /\ proc # 0 /\ proc' = proc BY DEF Ordered
<1>2. /\ Framing(Stream, procs[proc].alive) /\ InPlace(Stream)
      /\ procs[proc].alive =>
           \A v \in Users : Reading(v) => Due(v, procs[proc].todo, Stream)
      BY <1>1 DEF PipeInv
<1>3. /\ Len(Stream) \in Nat \ {0} /\ Len(Stream') \in Nat
      /\ Len(Stream') + 1 = Len(Stream)
      /\ \A i \in 1..Len(Stream') : Stream'[i] = Stream[i + 1]
      /\ Stream[1] = Pipe[1]
      BY <1>1, StreamRead
<1>4. procs[proc].alive \in BOOLEAN BY <1>1, ProcThere, ProcTyped
<1>5. /\ Framing(Stream', procs[proc].alive)
      /\ Len(Stream') # 0 => Follows(Stream[1], Stream'[1])
      /\ procs[proc].alive /\ Len(Stream') = 0 => Stream[1].part = Last
      BY <1>2, <1>3, <1>4, FramingRead
<1>6. Framing(Stream, procs[proc].alive)'
  BY <1>1, <1>5 DEF Framing, Follows, Last
<1>7. Len(Stream') # 0 => Stream'[1] = Stream[2] /\ Len(Stream) > 1
  <2>1. Len(Stream') # 0 => 1 \in 1..Len(Stream') /\ 1 + 1 = 2 BY <1>3
  <2> QED BY <2>1, <1>3
<1>8. ~Idle(u) /\ serial BY <1>1 DEF Reading, Idle, Ordered
<1>9. \A v \in Users : Reading(v) => v = u BY <1>8, OneReader
<1>10. InPlace(Stream)'
  <2>1. Len(Stream') # 0 => Stream'[1].part = user'[u].want BY <1>1, <1>5, <1>7
  <2> QED BY <1>9, <2>1 DEF InPlace
<1>11. ASSUME procs'[proc'].alive, NEW v \in Users, Reading(v)'
       PROVE  Due(v, procs[proc].todo, Stream)'
  <2>1. v = u /\ procs[proc].alive BY <1>1, <1>9, <1>11
  <2>2. Due(u, procs[proc].todo, Stream) BY <1>2, <2>1
  <2>3. \/ <<user[u].id, u>> \in procs[proc].todo
        \/ \E k \in 1..Len(Stream') : Stream'[k].id = user[u].id /\ Stream'[k].kind # "note"
    <3>1. CASE <<user[u].id, u>> \notin procs[proc].todo
      <4>1. PICK k \in 1..Len(Stream) : Stream[k].id = user[u].id /\ Stream[k].kind # "note"
        BY <2>2, <3>1 DEF Due
      <4>2. CASE k = 1
        <5>1. /\ Stream[1].part # Last
              /\ Follows(Stream[1], Stream[2]) =>
                   Stream[2].id = Stream[1].id /\ Stream[2].kind = Stream[1].kind
          BY <1>1, <1>3, <2>1, <4>1, <4>2
        <5>2. Len(Stream') # 0 BY <1>5, <2>1, <5>1
        <5>3. Stream'[1].id = user[u].id /\ Stream'[1].kind # "note"
          BY <1>5, <1>7, <4>1, <4>2, <5>1, <5>2
        <5>4. 1 \in 1..Len(Stream') BY <1>3, <5>2
        <5> QED BY <5>3, <5>4
      <4>3. CASE k # 1
        <5>1. k - 1 \in 1..Len(Stream') /\ (k - 1) + 1 = k BY <1>3, <4>3
        <5>2. Stream'[k - 1] = Stream[k] BY <1>3, <5>1
        <5> QED BY <4>1, <5>1, <5>2
      <4> QED BY <4>2, <4>3
    <3> QED BY <3>1
  <2>4. user'[u].want # FirstPart => Len(Stream') # 0
    BY <1>1, <1>3, <1>5, <2>1
  <2>5. FirstPart' = FirstPart BY DEF FirstPart
  <2> QED BY <1>1, <2>1, <2>3, <2>4, <2>5 DEF Due
<1> QED BY <1>6, <1>10, <1>11

\* A reader stands where StandsAt says, and its bytes are there.
LEMMA ReaderStands ==
  ASSUME Typed, WorkInv, NEW u \in Users, Reads(u), Ready(u)
  PROVE  /\ Reading(u) /\ ~Idle(u) /\ kind # "http" /\ proc # 0 /\ user[u].id # 0
         /\ Pipe # <<>> /\ Head(user[u].script) \in Requests
         /\ user[u].want \in IF kind = "lsp" THEN {"header", "blank", "body"} ELSE {"line"}
         /\ user[u] \in Work /\ user[u].script # <<>> /\ user[u].script \notin Shaken
<1>1. Reading(u) /\ ~Idle(u) BY DEF Reads, Reading, Idle
<1>2. StandsAt(u) BY DEF WorkInv
<1>3. Pipe # <<>> BY DEF Ready, LineEnds
<1>4. user[u].script \notin Shaken
  <2>1. ASSUME NEW s \in Shaken PROVE Head(s) = "initialized"
    <3>1. s \in MainScripts /\ s # <<>> BY DEF MainScripts, Shaken
    <3> QED BY <3>1, MainSteps
  <2> QED BY <1>1, <1>2, <2>1 DEF StandsAt, Requests
<1> QED BY <1>1, <1>2, <1>3, <1>4 DEF StandsAt, Idle, Typed

\* A reader that reads on: nothing changes but the pipe and what it waits for.
LEMMA ReadsOn ==
  ASSUME ServersAssumption, ServersInv, NEW u \in Users, Reads(u), Ready(u), Drop(1),
         NEW want \in IF kind = "lsp" THEN {"header", "blank", "body"} ELSE {"line"},
         user' = [user EXCEPT ![u].want = want],
         UNCHANGED <<kind, serial, phase, sessions, registered, initialized,
                     cached, nextId, proc, notes, cut>>,
         Ordered /\ Len(Stream) > 1 /\ Follows(Stream[1], Stream[2]) =>
           Stream[2].part = want,
         Ordered /\ procs[proc].alive /\ Pipe[1].kind # "note" /\ Pipe[1].id = user[u].id =>
           /\ Pipe[1].part # Last
           /\ Follows(Stream[1], Stream[2]) =>
                Stream[2].id = Stream[1].id /\ Stream[2].kind = Stream[1].kind,
         Ordered /\ want # FirstPart => Pipe[1].part # Last
  PROVE  ServersInv'
<1> USE DEF ServersInv
<1>1. /\ Reading(u) /\ proc # 0 /\ Pipe # <<>> /\ user[u] \in Work /\ user[u].pc = "read"
      BY ReaderStands DEF Reads
<1>2. 1 \in DOMAIN Pipe BY <1>1, StreamRead
<1> DEFINE e == Dropped(procs[proc], 1)
<1>3. /\ procs' = [procs EXCEPT ![proc] = e] /\ e \in Proc
      /\ proc \in DOMAIN procs /\ procs'[proc] = e
      /\ e.alive = procs[proc].alive /\ e.todo = procs[proc].todo
      /\ e.shook = procs[proc].shook
      /\ IdStep => IdInv'
      BY <1>1, <1>2, DropKeeps
<1> HIDE DEF e
<1> DEFINE w == [user[u] EXCEPT !.want = want]
<1>4. user' = [user EXCEPT ![u] = w] OBVIOUS
<1>5. /\ w \in Work /\ w.pc = user[u].pc /\ w.script = user[u].script /\ w.id = user[u].id
      /\ w.got = user[u].got /\ w.outcome = user[u].outcome /\ w.want = want
      BY <1>1 DEF Work, Parts
<1> HIDE DEF w
<1>6. /\ user' \in [Users -> Work] /\ user'[u] = w
      /\ \A v \in Users \ {u} : user'[v] = user[v]
      BY <1>4, <1>5 DEF Typed
<1>7. \A v \in Users : Goes(v) BY <1>1, <1>5, <1>6 DEF Goes, Reading
<1>8. /\ Typed' /\ WorkInv' /\ HandInv' /\ ProcInv' /\ OwnAnswer' /\ IdStep
      /\ \A v \in Users : (Reading(v)' <=> Reading(v)) /\ user'[v].id = user[v].id
  <2>1. notes' \in 0..MaxNotes BY DEF Typed
  <2>2. (e.alive => procs[proc].alive) /\ (procs[proc].shook => e.shook) BY <1>3
  <2> QED BY <1>3, <1>6, <1>7, <2>1, <2>2, ProcStep
<1>9. PipeInv'
  <2>1. user'[u].want = want BY <1>5, <1>6
  <2>2. procs'[proc].alive = procs[proc].alive /\ procs'[proc].todo = procs[proc].todo
    BY <1>3
  <2> QED BY <1>1, <1>6, <1>8, <2>1, <2>2, PipeRead
<1> QED BY <1>3, <1>8, <1>9

\* A header or a blank line is followed by the rest of its message.
LEMMA ReadPartKeeps ==
  ASSUME ServersAssumption, ServersInv, NEW u \in Users, ReadPart(u)
  PROVE  ServersInv'
<1> USE DEF ServersInv
<1>1. /\ Reads(u) /\ Ready(u) /\ user[u].want \in {"header", "blank"}
      /\ Pipe[1].part = user[u].want /\ Drop(1)
      /\ user' = [user EXCEPT ![u].want = NextPart(@)]
      /\ UNCHANGED <<kind, serial, phase, sessions, registered, initialized,
                     cached, nextId, proc, notes, cut>>
      BY DEF ReadPart
<1>2. proc # 0 /\ Pipe # <<>> /\ kind = "lsp" BY <1>1, ReaderStands
<1>3. Stream[1] = Pipe[1] BY <1>1, <1>2, StreamRead
<1> DEFINE want == NextPart(user[u].want)
<1>4. want \in {"blank", "body"} /\ user' = [user EXCEPT ![u].want = want]
      BY <1>1 DEF NextPart, Typed
<1>5. Follows(Stream[1], Stream[2]) =>
        /\ Stream[2].part = want
        /\ Stream[2].id = Stream[1].id /\ Stream[2].kind = Stream[1].kind
      BY <1>1, <1>3 DEF Follows, NextPart
<1>6. Pipe[1].part # Last BY <1>1, <1>2 DEF Last
<1> HIDE DEF want
<1>7. want \in IF kind = "lsp" THEN {"header", "blank", "body"} ELSE {"line"}
      BY <1>2, <1>4
<1> QED BY <1>1, <1>4, <1>5, <1>6, <1>7, ReadsOn

\* A message for someone else is thrown away, and no more than it.
LEMMA SkipKeeps ==
  ASSUME ServersAssumption, ServersInv, NEW u \in Users, Skip(u)
  PROVE  ServersInv'
<1> USE DEF ServersInv
<1>1. /\ Reads(u) /\ Ready(u) /\ user[u].want \in {"line", "body"}
      /\ Pipe[1].part = user[u].want /\ ~Matches(u, Pipe[1]) /\ Drop(1)
      /\ user' = [user EXCEPT ![u].want = FirstPart]
      /\ UNCHANGED <<kind, serial, phase, sessions, registered, initialized,
                     cached, nextId, proc, notes, cut>>
      BY DEF Skip, Whole, Skipped
<1>2. /\ proc # 0 /\ Pipe # <<>> /\ kind # "http"
      /\ user[u].want \in IF kind = "lsp" THEN {"header", "blank", "body"} ELSE {"line"}
      BY <1>1, ReaderStands
<1>3. Stream[1] = Pipe[1] BY <1>1, <1>2, StreamRead
<1>4. FirstPart \in IF kind = "lsp" THEN {"header", "blank", "body"} ELSE {"line"}
      BY DEF FirstPart
<1>5. ~(Pipe[1].kind # "note" /\ Pipe[1].id = user[u].id) BY <1>1 DEF Matches
<1>6. Ordered /\ Len(Stream) > 1 /\ Follows(Stream[1], Stream[2]) =>
        Stream[2].part = FirstPart
  <2>1. CASE kind = "lsp" BY <2>1, <1>1, <1>2, <1>3 DEF Follows, FirstPart
  <2>2. CASE kind # "lsp"
    <3>1. Ordered /\ Len(Stream) > 1 => Stream[2].part = "line"
      <4>1. Len(Stream) \in Nat BY <1>2, StreamTyped
      <4>2. Len(Stream) > 1 => 2 \in 1..Len(Stream) BY <4>1
      <4> QED BY <2>2, <4>2 DEF PipeInv, Framing
    <3> QED BY <2>2, <3>1 DEF FirstPart
  <2> QED BY <2>1, <2>2
<1> DEFINE want == FirstPart
<1>7. want \in (IF kind = "lsp" THEN {"header", "blank", "body"} ELSE {"line"})
      /\ want = FirstPart /\ user' = [user EXCEPT ![u].want = want]
      BY <1>1, <1>4
<1> HIDE DEF want
<1> QED BY <1>1, <1>5, <1>6, <1>7, ReadsOn

\* A message that is none ends the request; the stream is out of step.
LEMMA MisreadKeeps ==
  ASSUME ServersAssumption, ServersInv, NEW u \in Users, Misread(u)
  PROVE  ServersInv'
<1> USE DEF ServersInv
<1>1. /\ Reads(u) /\ Ready(u) /\ Settle(u, "failed", None) /\ cut' = TRUE
      /\ UNCHANGED <<kind, serial, sessions, initialized, cached, nextId, notes>>
      /\ GivesUp(u) => Closed
      BY DEF Misread
<1>2. ~GivesUp(u) => \E k \in DOMAIN Pipe : Drop(k) /\ proc' = proc
      BY DEF Misread
<1>3. ~Idle(u) /\ proc # 0 /\ user[u].script \notin Shaken BY <1>1, ReaderStands
<1>4. None \in Token BY DEF None, Token, Parts, Answers, Unasked, Users
<1>5. ~GivesUp(u) => ProcsStay /\ (IdStep => IdInv')
      BY <1>2, <1>3, DropKeeps
<1>6. PipeInv' BY <1>1 DEF PipeInv, Ordered
<1>7. cached' \in BOOLEAN /\ cut' \in BOOLEAN BY <1>1 DEF Typed
<1> QED BY <1>1, <1>3, <1>4, <1>5, <1>6, <1>7, EndKeeps

\* The one reader stops at the end of a message.
LEMMA PipeAnswered ==
  ASSUME Typed, WorkInv, IdInv, PipeInv, NEW u \in Users, Whole(u), Drop(1), Departed(u),
         UNCHANGED <<kind, serial, proc, cut>>, procs'[proc].alive = procs[proc].alive
  PROVE  PipeInv'
<1> SUFFICES ASSUME Ordered' PROVE
      /\ Framing(Stream, procs[proc].alive)' /\ InPlace(Stream)'
      /\ \A v \in Users : ~Reading(v)'
    BY DEF PipeInv
<1>1. /\ Ordered /\ proc # 0 /\ Reading(u) /\ ~Idle(u) /\ Pipe # <<>>
      /\ user[u].want \in {"line", "body"} /\ Pipe[1].part = user[u].want
      BY ReaderStands DEF Ordered, Whole
<1>2. \A v \in Users : Reading(v) => v = u BY <1>1, OneReader DEF Ordered
<1>3. \A v \in Users : ~Reading(v)' BY <1>2 DEF Departed, Reading
<1>4. /\ Len(Stream) \in Nat \ {0} /\ Len(Stream') \in Nat
      /\ Len(Stream') + 1 = Len(Stream)
      /\ \A i \in 1..Len(Stream') : Stream'[i] = Stream[i + 1]
      /\ Stream[1] = Pipe[1]
      BY <1>1, StreamRead
<1>5. Framing(Stream, procs[proc].alive) BY <1>1 DEF PipeInv
<1>6. procs[proc].alive \in BOOLEAN BY <1>1, ProcThere, ProcTyped
<1>7. /\ Framing(Stream', procs[proc].alive)
      /\ Len(Stream') # 0 => Follows(Stream[1], Stream'[1])
      /\ procs[proc].alive /\ Len(Stream') = 0 => Stream[1].part = Last
      BY <1>4, <1>5, <1>6, FramingRead, Z3
<1>8. Framing(Stream, procs[proc].alive)' BY <1>7 DEF Framing, Follows, Last
<1>9. Len(Stream') # 0 => Stream'[1].part = FirstPart
  <2>1. Len(Stream') # 0 => 1 \in 1..Len(Stream') BY <1>4
  <2>2. CASE kind = "lsp"
    <3>1. Pipe[1].part = "body"
      BY <1>1, <2>2, ReaderStands DEF Whole
    <3> QED BY <2>2, <3>1, <1>4, <1>7 DEF Follows, FirstPart
  <2>3. CASE kind # "lsp" BY <2>1, <2>3, <1>7 DEF Framing, FirstPart
  <2> QED BY <2>2, <2>3
<1>10. InPlace(Stream)' BY <1>3, <1>9 DEF InPlace, FirstPart
<1> QED BY <1>3, <1>8, <1>10

LEMMA AnsweredKeeps ==
  ASSUME ServersAssumption, ServersInv, NEW u \in Users, Answered(u)
  PROVE  ServersInv'
<1> USE DEF ServersInv
<1> DEFINE t == Pipe[1]
<1>1. /\ Whole(u) /\ Reads(u) /\ Ready(u) /\ Matches(u, t) /\ Accept(u, t)
      BY DEF Answered, Whole
<1>2. IF GivesUp(u) /\ Verdict(t) # "ok" THEN Closed ELSE Drop(1) /\ proc' = proc
      BY DEF Answered
<1>3. /\ Reading(u) /\ ~Idle(u) /\ proc # 0 /\ Pipe # <<>>
      /\ Head(user[u].script) \in Requests /\ user[u].script \notin Shaken
      BY <1>1, ReaderStands
<1>4. 1 \in DOMAIN Pipe /\ t \in Token
  <2>1. Pipe \in Seq(Token) BY <1>3, ProcThere, ProcTyped DEF Pipe
  <2>2. Len(Pipe) \in Nat \ {0} /\ DOMAIN Pipe = 1..Len(Pipe)
    BY <1>3, <2>1, LenProperties, EmptySeq
  <2>3. 1 \in 1..Len(Pipe) BY <2>2
  <2> QED BY <2>1, <2>2, <2>3, ElementOfSeq
<1>5. t.kind \in Answers => t.for = u
  <2>1. IdAt(proc) BY <1>3, ProcThere DEF IdInv
  <2>2. t.kind \in Answers => Owned(t.id, t.for) BY <1>4, <2>1 DEF IdAt, OwnedIn, Pipe
  <2>3. t.id = user[u].id BY <1>1 DEF Matches
  <2> QED BY <2>2, <2>3 DEF Owned
<1>6. /\ UNCHANGED <<kind, serial, sessions, nextId, notes, cut>>
      /\ cached' \in BOOLEAN /\ cut' \in BOOLEAN
      BY <1>1 DEF Accept, Typed
<1>7. Drop(1) /\ proc' = proc => ProcsStay /\ (IdStep => IdInv') /\ (Departed(u) => PipeInv')
  <2> SUFFICES ASSUME Drop(1), proc' = proc
               PROVE  ProcsStay /\ (IdStep => IdInv') /\ (Departed(u) => PipeInv')
      OBVIOUS
  <2>1. /\ ProcsStay /\ (IdStep => IdInv')
        /\ procs'[proc].alive = procs[proc].alive
    BY <1>3, <1>4, DropKeeps
  <2> QED BY <2>1, <1>1, <1>6, PipeAnswered
<1> HIDE DEF t
<1>8. CASE Verdict(t) = "ok"
  <2>1. Advance(u, t) /\ initialized' = (initialized \/ Head(user[u].script) = "initialize")
    BY <1>1, <1>8 DEF Accept
  <2>2. Head(user[u].script) # "initialized" BY <1>3 DEF Requests
  <2>3. Drop(1) /\ proc' = proc BY <1>2, <1>8
  <2> QED BY <2>1, <2>2, <2>3, <1>3, <1>4, <1>5, <1>6, <1>7, AdvanceKeeps
<1>9. CASE Verdict(t) # "ok"
  <2>1. Verdict(t) = "failed" BY <1>9 DEF Verdict
  <2>2. Settle(u, "failed", t) /\ initialized' = initialized
    BY <1>1, <2>1 DEF Accept, Typed
  <2> QED BY <2>2, <1>2, <1>3, <1>4, <1>6, <1>7, <1>9, EndKeeps
<1> QED BY <1>8, <1>9

\* A user that sends a request has an id that no one has had.
LEMMA AskWork ==
  ASSUME Typed, WorkInv, OwnAnswer, NEW u \in Users, user[u].pc = "write", proc # 0,
         NEW w \in Work, w.script = user[u].script, w.got = user[u].got,
         w.outcome = user[u].outcome,
         w.id \in {0, nextId}, w.id = nextId => nextId' = nextId + 1,
         \/ /\ w.pc = "posted" /\ w.want = "line" /\ kind = "http"
            /\ w.id # 0 <=> Head(w.script) \in Requests
         \/ /\ w.pc = "read" /\ w.want = FirstPart /\ kind # "http" /\ w.id # 0
            /\ Head(w.script) \in Requests,
         nextId' \in {nextId, nextId + 1},
         user' = [user EXCEPT ![u] = w],
         UNCHANGED <<kind, serial, phase, registered, proc>>
  PROVE  /\ user' \in [Users -> Work] /\ WorkInv' /\ OwnAnswer' /\ IdStep
         /\ user'[u] = w /\ \A v \in Users \ {u} : user'[v] = user[v]
<1>1. user' \in [Users -> Work] /\ user'[u] = w /\ \A v \in Users \ {u} : user'[v] = user[v]
      BY DEF Typed
<1>2. nextId \in Nat \ {0} BY DEF Typed
<1>3. IdStep BY <1>1, <1>2 DEF IdStep
<1>4. ASSUME NEW v \in Users PROVE StandsAt(v)'
  <2>1. StandsAt(v) BY DEF WorkInv
  <2>2. CASE v = u
    BY <2>1, <2>2, <1>1, <1>2 DEF StandsAt, Reading, FirstPart
  <2>3. CASE v # u
    <3>1. user[v].id \in Nat BY DEF Typed, Work
    <3> QED BY <2>1, <2>3, <3>1, <1>1, <1>2 DEF StandsAt, Reading
  <2> QED BY <2>2, <2>3
<1>5. \A v \in Users : user'[v].script = user[v].script /\ (Idle(v)' <=> Idle(v))
      BY <1>1 DEF Idle
<1>6. WorkInv' BY <1>4, <1>5, WorkKept
<1>7. OwnAnswer' BY <1>1 DEF OwnAnswer
<1> QED BY <1>1, <1>3, <1>6, <1>7

\* The one reader begins where the stream goes on, and is owed its answer.
LEMMA PipeAsked ==
  ASSUME WorkInv, PipeInv, NEW u \in Users, ~Idle(u), ~Reading(u),
         user'[u].want = FirstPart, \A v \in Users \ {u} : user'[v] = user[v],
         UNCHANGED <<kind, serial, proc, cut>>,
         Ordered => /\ Stream' = Stream /\ procs'[proc].alive = procs[proc].alive
                    /\ procs[proc].alive => <<user'[u].id, u>> \in procs'[proc].todo
  PROVE  PipeInv'
<1> SUFFICES ASSUME Ordered' PROVE
      /\ Framing(Stream, procs[proc].alive)' /\ InPlace(Stream)'
      /\ procs'[proc'].alive =>
           \A v \in Users : Reading(v)' => Due(v, procs[proc].todo, Stream)'
    BY DEF PipeInv
<1>1. Ordered BY DEF Ordered
<1>2. \A v \in Users : ~Reading(v) BY <1>1, OneReader DEF Ordered
<1>3. \A v \in Users : Reading(v)' => v = u BY <1>2 DEF Reading
<1>4. /\ Stream' = Stream /\ procs'[proc'].alive = procs[proc].alive
      /\ Framing(Stream, procs[proc].alive) /\ InPlace(Stream)
      BY <1>1 DEF PipeInv
<1>5. Framing(Stream, procs[proc].alive)' BY <1>4 DEF Framing, Last, Follows
<1>6. FirstPart' = FirstPart BY DEF FirstPart
<1>7. InPlace(Stream)' BY <1>2, <1>3, <1>4, <1>6 DEF InPlace
<1>8. ASSUME procs'[proc'].alive PROVE Due(u, procs[proc].todo, Stream)'
      BY <1>1, <1>4, <1>6, <1>8 DEF Due
<1> QED BY <1>3, <1>5, <1>7, <1>8

\* A request is sent.
LEMMA AskKeeps ==
  ASSUME ServersAssumption, ServersInv, NEW u \in Users, user[u].pc = "write", proc # 0,
         NEW w \in Work, w.script = user[u].script, w.got = user[u].got,
         w.outcome = user[u].outcome,
         w.id \in {0, nextId}, w.id = nextId => nextId' = nextId + 1,
         \/ /\ w.pc = "posted" /\ w.want = "line" /\ kind = "http"
            /\ w.id # 0 <=> Head(w.script) \in Requests
         \/ /\ w.pc = "read" /\ w.want = FirstPart /\ kind # "http" /\ w.id # 0
            /\ Head(w.script) \in Requests,
         nextId' \in {nextId, nextId + 1},
         user' = [user EXCEPT ![u] = w],
         NEW e \in Proc, procs' = [procs EXCEPT ![proc] = e],
         e.alive = procs[proc].alive, e.shook = procs[proc].shook,
         e.out = procs[proc].out, e.unsent = procs[proc].unsent,
         \A q \in e.todo : q \in procs[proc].todo \/ (q = <<nextId, u>> /\ w.id = nextId),
         kind # "http" /\ e.alive => <<nextId, u>> \in e.todo,
         UNCHANGED <<kind, serial, phase, sessions, registered, initialized, cached,
                     proc, notes, cut>>
  PROVE  ServersInv'
<1> USE DEF ServersInv
<1>1. /\ user' \in [Users -> Work] /\ WorkInv' /\ OwnAnswer' /\ IdStep
      /\ user'[u] = w /\ \A v \in Users \ {u} : user'[v] = user[v]
      BY AskWork
<1>2. /\ procs' \in Seq(Proc) /\ Len(procs') = Len(procs)
      /\ DOMAIN procs' = DOMAIN procs /\ procs'[proc] = e /\ proc \in DOMAIN procs
      /\ \A r \in DOMAIN procs \ {proc} : procs'[r] = procs[r]
      BY ProcThere, ProcChanged
<1>3. Typed'
  <2>1. nextId' \in Nat \ {0} BY DEF Typed
  <2> QED BY <1>1, <1>2, <2>1 DEF Typed
<1>4. \A v \in Users : user'[v].script = user[v].script BY <1>1
<1>5. HandInv'
  <2>1. user'["main"].script = user["main"].script BY <1>4 DEF Users
  <2>2. procs'[proc].alive = procs[proc].alive /\ procs'[proc].shook = procs[proc].shook
    BY <1>2
  <2> QED BY <2>1, <2>2 DEF HandInv
<1>6. ProcInv' BY <1>2 DEF ProcInv
<1>7. ASSUME NEW n \in Nat, n = nextId, w.id = n PROVE Owned(n, u)'
  <2>1. \A v \in Users : user[v].id < n /\ user[v].id \in Nat
    BY <1>7 DEF WorkInv, StandsAt, Typed, Work
  <2>2. \A v \in Users \ {u} : user'[v].id < n /\ user'[v].id \in Nat BY <1>1, <2>1
  <2>3. n # 0 /\ n < nextId' BY <1>7 DEF Typed
  <2> QED BY <2>2, <2>3 DEF Owned
<1>8. IdInv'
  <2>1. ASSUME NEW r \in DOMAIN procs PROVE IdAt(r)'
    <3>1. CASE r # proc BY <3>1, <1>1, <1>2, IdStays DEF IdInv
    <3>2. CASE r = proc
      <4>1. IdAt(r) BY DEF IdInv
      <4>2. procs'[r].out = procs[r].out /\ procs'[r].unsent = procs[r].unsent
        BY <3>2, <1>2
      <4>3. From(procs'[r].out, r) /\ From(procs'[r].unsent, r) BY <4>2 DEF From, OutOf
      <4>4. \A q \in procs'[r].todo : q \in procs[r].todo \/ Owned(q[1], q[2])'
        <5>1. ASSUME NEW q \in e.todo, q \notin procs[r].todo PROVE Owned(q[1], q[2])'
          <6>1. q = <<nextId, u>> /\ w.id = nextId BY <3>2, <5>1
          <6>2. q[1] \in Nat /\ q[1] = nextId /\ q[2] = u BY <6>1 DEF Typed
          <6> QED BY <6>1, <6>2, <1>7
        <5> QED BY <3>2, <1>2, <5>1
      <4> QED BY <1>1, <4>1, <4>3, <4>4, IdGrows
    <3> QED BY <3>1, <3>2
  <2> QED BY <1>2, <2>1 DEF IdInv
<1>9. PipeInv'
  <2>1. CASE kind = "http" BY <2>1 DEF PipeInv, Ordered
  <2>2. CASE kind # "http"
    <3>1. w.want = FirstPart /\ w.id = nextId BY <2>2
    <3>2. ~Idle(u) /\ ~Reading(u) BY DEF Idle, Reading
    <3>3. Stream' = Stream BY <1>2 DEF Stream
    <3>4. /\ procs'[proc].alive = procs[proc].alive
          /\ procs[proc].alive => <<user'[u].id, u>> \in procs'[proc].todo
      BY <1>1, <1>2, <2>2, <3>1
    <3> QED BY <1>1, <3>1, <3>2, <3>3, <3>4, PipeAsked
  <2> QED BY <2>1, <2>2
<1> QED BY <1>1, <1>3, <1>5, <1>6, <1>8, <1>9

\* A message that is not answered goes through.
LEMMA NotifyKeeps ==
  ASSUME ServersAssumption, ServersInv, NEW u \in Users, user[u].pc \in {"write", "posted"},
         proc # 0, Head(user[u].script) \notin Requests, Advance(u, None),
         procs' \in {procs, [procs EXCEPT ![proc].shook = TRUE]},
         Head(user[u].script) = "initialized" =>
           procs' = [procs EXCEPT ![proc].shook = TRUE],
         UNCHANGED <<kind, serial, sessions, initialized, cached, nextId, proc, notes, cut>>
  PROVE  ServersInv'
<1> USE DEF ServersInv
<1>1. None \in Token /\ None.kind \notin Answers
      BY DEF None, Token, Parts, Answers, Unasked, Users
<1>2. ~Idle(u) /\ ~Reading(u) BY DEF Idle, Reading
<1>3. initialized' = (initialized \/ Head(user[u].script) = "initialize")
      BY DEF Requests, Typed
<1>4. proc \in DOMAIN procs /\ procs[proc] \in Proc BY ProcThere, ProcTyped
<1>5. /\ procs' \in Seq(Proc) /\ Len(procs') = Len(procs)
      /\ \A r \in DOMAIN procs : r # proc => procs'[r] = procs[r]
      /\ procs'[proc].alive = procs[proc].alive /\ procs'[proc].todo = procs[proc].todo
      /\ procs'[proc].out = procs[proc].out /\ procs'[proc].unsent = procs[proc].unsent
      /\ procs[proc].shook => procs'[proc].shook
      /\ procs' # procs => procs'[proc].shook
      /\ DOMAIN procs' = DOMAIN procs
  <2>1. CASE procs' = procs BY <2>1 DEF Typed
  <2>2. CASE procs' = [procs EXCEPT ![proc].shook = TRUE]
    <3> DEFINE e == [procs[proc] EXCEPT !.shook = TRUE]
    <3>1. procs' = [procs EXCEPT ![proc] = e] BY <2>2
    <3>2. /\ e \in Proc /\ e.alive = procs[proc].alive /\ e.todo = procs[proc].todo
          /\ e.out = procs[proc].out /\ e.unsent = procs[proc].unsent /\ e.shook
      BY <1>4 DEF Proc
    <3> HIDE DEF e
    <3>3. /\ procs' \in Seq(Proc) /\ Len(procs') = Len(procs)
          /\ DOMAIN procs' = DOMAIN procs /\ procs'[proc] = e
          /\ \A r \in DOMAIN procs \ {proc} : procs'[r] = procs[r]
      BY <1>4, <3>1, <3>2, ProcChanged
    <3> QED BY <3>2, <3>3
  <2> QED BY <2>1, <2>2
<1>6. Head(user[u].script) = "initialized" => procs'[proc].shook
  <2>1. CASE Head(user[u].script) = "initialized"
    <3>1. procs' = [procs EXCEPT ![proc].shook = TRUE] BY <2>1
    <3>2. DOMAIN procs = 1..Len(procs) /\ procs \in [1..Len(procs) -> Proc]
      BY LenProperties DEF Typed
    <3> QED BY <3>1, <3>2, <1>4 DEF Proc
  <2> QED BY <2>1
<1>7. ProcsStay BY <1>5 DEF ProcsStay
<1>8. ASSUME IdStep PROVE IdInv'
  <2>1. ASSUME NEW r \in DOMAIN procs PROVE IdAt(r)'
    <3>1. /\ procs'[r].todo \subseteq procs[r].todo
          /\ procs'[r].out = procs[r].out /\ procs'[r].unsent = procs[r].unsent
      BY <1>5
    <3>2. From(procs'[r].out, r) /\ From(procs'[r].unsent, r) BY <3>1 DEF From, OutOf
    <3> QED BY <1>8, <3>1, <3>2, IdKept DEF IdInv
  <2> QED BY <1>5, <2>1 DEF IdInv
<1>9. Departed(u) => PipeInv'
  <2>1. Stream' = Stream BY <1>5 DEF Stream
  <2> QED BY <1>2, <1>5, <2>1, PipeLeft
<1>10. cached' \in BOOLEAN BY DEF Typed
<1> QED BY <1>1, <1>2, <1>3, <1>6, <1>7, <1>8, <1>9, <1>10, AdvanceKeeps

\* One message is written.
LEMMA WriteKeeps ==
  ASSUME ServersAssumption, ServersInv, NEW u \in Users, Write(u)
  PROVE  ServersInv'
<1> USE DEF ServersInv
<1>1. /\ user[u].pc = "write" /\ proc # 0 /\ kind # "http"
      /\ UNCHANGED <<kind, serial, sessions, initialized, cached, proc, notes, cut>>
      BY DEF Write
<1>2. CASE Head(user[u].script) \in Requests
  <2> DEFINE w == [user[u] EXCEPT !.pc = "read", !.id = nextId, !.want = FirstPart]
             e == IF procs[proc].alive
                  THEN [procs[proc] EXCEPT !.todo = procs[proc].todo \cup {<<nextId, u>>}]
                  ELSE procs[proc]
  <2>1. /\ user' = [user EXCEPT ![u] = w] /\ nextId' = nextId + 1
        /\ UNCHANGED <<phase, registered>>
    BY <1>2 DEF Write, NextId
  <2>2. proc \in DOMAIN procs /\ procs[proc] \in Proc BY <1>1, ProcThere, ProcTyped
  <2>3. procs' = [procs EXCEPT ![proc] = e]
    <3>1. CASE procs[proc].alive
      <4>1. procs' = [procs EXCEPT ![proc].todo = @ \cup {<<nextId, u>>}]
        BY <1>2, <3>1 DEF Write
      <4> QED BY <3>1, <4>1
    <3>2. CASE ~procs[proc].alive
      <4>1. procs' = procs BY <1>2, <3>2 DEF Write
      <4>2. procs \in [1..Len(procs) -> Proc] BY LenProperties DEF Typed
      <4> QED BY <3>2, <4>1, <4>2
    <3> QED BY <3>1, <3>2
  <2>4. user[u] \in Work /\ nextId \in Nat \ {0} BY DEF Typed
  <2>5. /\ w \in Work /\ w.pc = "read" /\ w.id = nextId /\ w.want = FirstPart
        /\ w.script = user[u].script /\ w.got = user[u].got /\ w.outcome = user[u].outcome
    BY <2>4 DEF Work, Parts, FirstPart
  <2>6. /\ e \in Proc /\ e.alive = procs[proc].alive /\ e.shook = procs[proc].shook
        /\ e.out = procs[proc].out /\ e.unsent = procs[proc].unsent
        /\ \A q \in e.todo : q \in procs[proc].todo \/ q = <<nextId, u>>
        /\ e.alive => <<nextId, u>> \in e.todo
    <3>1. <<nextId, u>> \in Nat \X Users BY <2>4
    <3>2. procs[proc].todo \cup {<<nextId, u>>} \in SUBSET (Nat \X Users)
      BY <2>2, <3>1 DEF Proc
    <3> QED BY <2>2, <3>2 DEF Proc
  <2> HIDE DEF w, e
  <2> QED BY <1>1, <1>2, <2>1, <2>3, <2>4, <2>5, <2>6, AskKeeps
<1>3. CASE Head(user[u].script) \notin Requests
  <2>1. /\ Advance(u, None) /\ nextId' = nextId
        /\ procs' = IF Head(user[u].script) = "initialized"
                    THEN [procs EXCEPT ![proc].shook = TRUE] ELSE procs
    BY <1>3 DEF Write
  <2> QED BY <1>1, <1>3, <2>1, NotifyKeeps
<1> QED BY <1>2, <1>3

\* A message is posted.
LEMMA PostKeeps ==
  ASSUME ServersAssumption, ServersInv, NEW u \in Users, Post(u)
  PROVE  ServersInv'
<1> USE DEF ServersInv
<1> DEFINE id == IF Head(user[u].script) \in Requests THEN nextId ELSE 0
           w == [user[u] EXCEPT !.pc = "posted", !.id = id]
<1>1. /\ user[u].pc = "write" /\ proc # 0 /\ kind = "http" /\ procs' = procs
      /\ nextId' = (IF Head(user[u].script) \in Requests THEN nextId + 1 ELSE nextId)
      /\ UNCHANGED <<kind, serial, phase, sessions, registered, initialized,
                     cached, proc, notes, cut>>
      BY DEF Post, NextId
<1>2. user' = [user EXCEPT ![u] = w] BY DEF Post
<1>3. user[u] \in Work /\ nextId \in Nat \ {0} BY DEF Typed
<1>4. user[u].want = "line" BY <1>1 DEF WorkInv, StandsAt
<1>5. /\ w \in Work /\ w.pc = "posted" /\ w.id = id /\ w.want = "line"
      /\ w.script = user[u].script /\ w.got = user[u].got /\ w.outcome = user[u].outcome
      BY <1>3, <1>4 DEF Work
<1>6. proc \in DOMAIN procs /\ procs[proc] \in Proc BY <1>1, ProcThere, ProcTyped
<1>7. procs' = [procs EXCEPT ![proc] = procs[proc]]
  <2>1. procs \in [1..Len(procs) -> Proc] BY LenProperties DEF Typed
  <2> QED BY <1>1, <2>1
<1>8. /\ id \in {0, nextId} /\ (id = nextId => nextId' = nextId + 1)
      /\ (id # 0 <=> Head(user[u].script) \in Requests)
      /\ nextId' \in {nextId, nextId + 1}
      BY <1>1, <1>3
<1> HIDE DEF w, id
<1>9. \A q \in procs[proc].todo :
        q \in procs[proc].todo \/ (q = <<nextId, u>> /\ w.id = nextId)
      OBVIOUS
<1> QED BY <1>1, <1>2, <1>5, <1>6, <1>7, <1>8, <1>9, AskKeeps

\* A notification is through.
LEMMA AcceptedKeeps ==
  ASSUME ServersAssumption, ServersInv, NEW u \in Users, Accepted(u)
  PROVE  ServersInv'
<1>1. StandsAt(u) BY DEF ServersInv, WorkInv
<1>2. /\ user[u].pc = "posted" /\ user[u].id = 0 /\ Advance(u, None)
      /\ procs' = [procs EXCEPT ![proc].shook = TRUE]
      /\ UNCHANGED <<kind, serial, sessions, initialized, cached, nextId, proc,
                     notes, cut>>
      BY DEF Accepted
<1>3. proc # 0 /\ Head(user[u].script) \notin Requests BY <1>1, <1>2 DEF StandsAt
<1> QED BY <1>2, <1>3, NotifyKeeps

\* What a response holds for u, and what u makes of its last line.
Reply(u, k) == [part |-> "line", id |-> user[u].id, kind |-> k, for |-> u]
Takes(u, last) ==
  IF Matches(u, last)
    THEN /\ Accept(u, last)
         /\ IF GivesUp(u) /\ Verdict(last) # "ok" THEN Closed
                                         ELSE UNCHANGED <<proc, procs>>
    ELSE Fail(u)
TakesOne(u, t) ==
  \E lines \in {<<t>>, <<None, t>>, <<t, None>>} : Takes(u, lines[Len(lines)])

\* An exchange is answered.
LEMMA RepliedKeeps ==
  ASSUME ServersAssumption, ServersInv, NEW u \in Users, Replied(u)
  PROVE  ServersInv'
<1> USE DEF ServersInv
<1>1. user[u].pc = "posted" /\ user[u].id # 0 BY DEF Replied
<1>2. StandsAt(u) /\ user[u].id \in Nat BY DEF WorkInv, Typed, Work
<1>3. kind = "http" /\ proc # 0 /\ Head(user[u].script) \in Requests
      BY <1>1, <1>2 DEF StandsAt
<1>4. ~Idle(u) BY <1>1 DEF Idle
<1>5. PICK k \in Answers : TakesOne(u, Reply(u, k)) BY DEF Replied, TakesOne, Takes, Reply
<1> DEFINE t == Reply(u, k)
<1>6. t \in Token /\ t.for = u BY <1>2 DEF Token, Parts, Reply
<1>7. PICK last \in {t, None} : Takes(u, last)
  <2>1. PICK lines \in {<<t>>, <<None, t>>, <<t, None>>} : Takes(u, lines[Len(lines)])
    BY <1>5 DEF TakesOne
  <2> HIDE DEF t
  <2>2. lines[Len(lines)] \in {t, None} OBVIOUS
  <2> QED BY <2>1, <2>2
<1> HIDE DEF t
<1>8. CASE ~Matches(u, last) BY <1>8, <1>7, <1>3, <1>4, FailKeeps DEF Takes
<1>9. CASE Matches(u, last)
  <2>1. last = t BY <1>9 DEF Matches, None
  <2>2. Accept(u, t) BY <1>9, <1>7, <2>1 DEF Takes
  <2>3. /\ UNCHANGED <<kind, serial, sessions, nextId, notes, cut>>
        /\ cached' \in BOOLEAN /\ cut' \in BOOLEAN
    BY <2>2 DEF Accept, Typed
  <2>4. PipeInv' BY <1>3, <2>3 DEF PipeInv, Ordered
  <2>5. procs' = procs /\ proc' = proc => ProcsStay /\ (IdStep => IdInv')
    BY IdSame DEF ProcsStay, Typed
  <2>6. CASE Verdict(t) = "ok"
    <3>1. Advance(u, t) /\ initialized' = (initialized \/ Head(user[u].script) = "initialize")
      BY <2>2, <2>6 DEF Accept
    <3>2. Head(user[u].script) # "initialized" BY <1>3 DEF Requests
    <3>3. procs' = procs /\ proc' = proc BY <1>7, <1>9, <2>1, <2>6 DEF Takes
    <3> QED BY <1>3, <1>4, <1>6, <2>3, <2>4, <2>5, <3>1, <3>2, <3>3, AdvanceKeeps
  <2>7. CASE Verdict(t) # "ok"
    <3>1. Verdict(t) = "failed" BY <2>7 DEF Verdict
    <3>2. Settle(u, "failed", t) /\ initialized' = initialized
      BY <2>2, <3>1 DEF Accept, Typed
    <3>3. /\ GivesUp(u) => Closed
          /\ ~GivesUp(u) => procs' = procs /\ proc' = proc
      BY <1>7, <1>9, <2>1, <2>7 DEF Takes
    <3> QED BY <1>3, <1>4, <1>6, <2>3, <2>4, <2>5, <3>2, <3>3, EndKeeps
  <2> QED BY <2>6, <2>7
<1> QED BY <1>8, <1>9

-----------------------------------------------------------------------------
(* The theorems *)

LEMMA NextKeeps == ServersAssumption /\ ServersInv /\ [Next]_vars => ServersInv'
<1> SUFFICES ASSUME ServersAssumption, ServersInv, [Next]_vars PROVE ServersInv'
    OBVIOUS
<1>1. CASE UNCHANGED vars
  <2>1. UNCHANGED vars BY <1>1
  <2>2. Typed' BY <2>1 DEF vars, ServersInv, Typed
  <2>3. WorkInv'
    BY <2>1 DEF vars, ServersInv, WorkInv, StandsAt, Idle, Quiet, Reading
  <2>4. HandInv' /\ ProcInv' /\ OwnAnswer'
    BY <2>1 DEF vars, ServersInv, HandInv, ProcInv, OwnAnswer
  <2>5. IdInv'
    <3>1. IdStep BY <2>1 DEF vars, ServersInv, IdStep, Typed
    <3> QED BY <2>1, <3>1, IdSame DEF vars, ServersInv
  <2>6. PipeInv'
    <3>1. Stream' = Stream BY <2>1 DEF vars, Stream
    <3>2. \A v \in Users : Reading(v)' <=> Reading(v) BY <2>1 DEF vars, Reading
    <3> QED BY <2>1, <3>1, <3>2, PipeSame DEF vars, ServersInv
  <2> QED BY <2>2, <2>3, <2>4, <2>5, <2>6 DEF ServersInv
<1>2. ASSUME NEW u \in Users, Works(u) PROVE ServersInv'
  <2>1. CASE SpawnFails(u) \/ WriteBreaks(u) \/ Clash(u) \/ AtEof(u) \/ Timeout(u)
               \/ PostFails(u)
    BY <2>1, FailuresKeep
  <2>2. CASE Spawn(u) BY <2>2, SpawnKeeps
  <2>3. CASE Write(u) BY <2>3, WriteKeeps
  <2>4. CASE Wait(u) BY <2>4, WaitKeeps
  <2>5. CASE ReadPart(u) BY <2>5, ReadPartKeeps
  <2>6. CASE Misread(u) BY <2>6, MisreadKeeps
  <2>7. CASE Skip(u) BY <2>7, SkipKeeps
  <2>8. CASE Answered(u) BY <2>8, AnsweredKeeps
  <2>9. CASE Post(u) BY <2>9, PostKeeps
  <2>10. CASE Accepted(u) BY <2>10, AcceptedKeeps
  <2>11. CASE Replied(u) BY <2>11, RepliedKeeps
  <2> QED BY <1>2, <2>1, <2>2, <2>3, <2>4, <2>5, <2>6, <2>7, <2>8, <2>9, <2>10, <2>11
          DEF Works
<1>3. ASSUME NEW p \in DOMAIN procs,
             ServerAnswers(p) \/ ServerSpeaks(p) \/ Arrives(p) \/ Crash(p)
      PROVE  ServersInv'
  <2>1. CASE ServerAnswers(p) \/ ServerSpeaks(p) BY <2>1, ServerKeeps
  <2>2. CASE Arrives(p) BY <2>2, ArrivesKeeps
  <2>3. CASE Crash(p) BY <2>3, CrashKeeps
  <2> QED BY <1>3, <2>1, <2>2, <2>3
<1>4. ASSUME NEW c \in Calls, StartCall(c) \/ Unrouted(c) \/ Abandon(c)
      PROVE  ServersInv'
  <2>1. c \in Users BY DEF Users
  <2>2. CASE StartCall(c) \/ Unrouted(c) BY <2>2, CallsBegin
  <2>3. CASE Abandon(c) BY <2>1, <2>3, FailuresKeep
  <2> QED BY <1>4, <2>2, <2>3
<1>5. CASE StartSession BY <1>5, StartSessionKeeps
<1>6. CASE Shutdown BY <1>6, ShutdownKeeps
<1>7. Done => UNCHANGED vars BY DEF Done
<1> QED BY <1>1, <1>2, <1>3, <1>4, <1>5, <1>6, <1>7 DEF Next

\* The invariant holds of every behaviour of a client and its servers.
THEOREM ServersKept == Spec => []ServersInv
<1>1. ServersAssumption /\ Init => ServersInv BY Begins
<1>2. ServersAssumption /\ ServersInv /\ [Next]_vars => ServersInv' BY NextKeeps
<1> QED BY <1>1, <1>2, ServersAssumption, PTL DEF Spec

\* The client's variables stay in their ranges, and no process owes an answer
\* under an id that is still to be given (_next_request_id).
THEOREM ServersTyped == Spec => []TypeOK
<1>1. ServersInv => TypeOK
  <2> SUFFICES ASSUME ServersInv PROVE TypeOK
      OBVIOUS
  <2>1. \A p \in DOMAIN procs : \A q \in procs[p].todo : q[1] < nextId
    BY DEF ServersInv, IdInv, IdAt, Owned
  <2>2. \A u \in Users : /\ user[u].got \in Token /\ user[u].want \in Parts
                         /\ (user[u].script = <<>>) <=> Idle(u)
    BY DEF ServersInv, Typed, Work, WorkInv, StandsAt, Idle
  <2> QED BY <2>1, <2>2 DEF ServersInv, Typed, TypeOK
<1> QED BY <1>1, ServersKept, PTL

\* A request that succeeds has its own answer (_send_request, _request); with
\* requests one at a time and no read given up inside a message, the answer of
\* a living server is never thrown away with what stands in front of it, and a
\* language server's messages are read from their first byte.
THEOREM AnswersKept == Spec => []AnswerLaw
<1>1. ServersInv => AnswerLaw
  <2> SUFFICES ASSUME ServersInv PROVE AnswerLaw
      OBVIOUS
  <2>1. proc # 0 => /\ Stream \in Seq(Token) /\ Len(Stream) \in Nat
                    /\ DOMAIN Stream = 1..Len(Stream)
                    /\ Stream = <<>> <=> Len(Stream) = 0
    BY StreamTyped, LenProperties, EmptySeq DEF ServersInv
  <2>2. AnswerKept
    <3> SUFFICES ASSUME serial /\ ~cut /\ proc # 0 /\ kind # "http", NEW u \in Users,
                        user[u].pc \in {"read", "waiting"}, procs[proc].alive
                 PROVE  \/ <<user[u].id, u>> \in procs[proc].todo
                        \/ \E k \in DOMAIN Stream : /\ Stream[k].id = user[u].id
                                                    /\ Stream[k].kind # "note"
        BY DEF AnswerKept, Stream
    <3>1. Due(u, procs[proc].todo, Stream) BY DEF ServersInv, PipeInv, Ordered, Reading
    <3> QED BY <3>1, <2>1 DEF Due
  <2>3. InStep
    <3> DEFINE readers == {u \in Users : user[u].pc \in {"read", "waiting"}}
    <3> SUFFICES ASSUME kind = "lsp" /\ serial /\ ~cut /\ proc # 0, Stream # <<>>
                 PROVE  IF readers = {} THEN Stream[1].part = "header"
                        ELSE \A u \in readers : Stream[1].part = user[u].want
        BY DEF InStep, Stream
    <3>1. InPlace(Stream) BY DEF ServersInv, PipeInv, Ordered
    <3>2. \A u \in Users : Reading(u) <=> u \in readers BY DEF Reading
    <3>3. Len(Stream) # 0 BY <2>1
    <3> HIDE DEF readers
    <3>4. \A u \in readers : u \in Users BY DEF readers
    <3>5. readers = {} => \A u \in Users : ~Reading(u) BY <3>2
    <3> QED BY <3>1, <3>2, <3>3, <3>4, <3>5 DEF InPlace, FirstPart
  <2> QED BY <2>2, <2>3 DEF AnswerLaw, ServersInv
<1> QED BY <1>1, ServersKept, PTL

\* A living server is asked for tools and calls only after its handshake, which
\* a client that was handed in, one whose session failed and one that tries
\* again have had too; and no server lives but the client's, nor an MCP server
\* after the end of the daemon.
THEOREM UsesKept == Spec => []ServerLaw
<1>1. ServersInv => ServerLaw
  <2> SUFFICES ASSUME ServersInv PROVE ServerLaw
      OBVIOUS
  <2>1. Handshaken
    <3> SUFFICES ASSUME NEW u \in Users, kind # "http" /\ proc # 0 /\ procs[proc].alive,
                        user[u].pc \in {"read", "waiting"},
                        Head(user[u].script) \in Requests \ {"initialize"}
                 PROVE  procs[proc].shook
        BY DEF Handshaken
    <3>1. user[u].script # <<>> /\ ~Idle(u) /\ "main" \in Users
      BY DEF ServersInv, WorkInv, StandsAt, Idle, Users
    <3>2. initialized /\ user["main"].script \notin Shaken
      <4>1. CASE u = "main"
        <5>1. user[u].script \in MainScripts BY <4>1 DEF ServersInv, WorkInv
        <5>2. user[u].script \notin Shaking \cup Shaken
          BY <3>1, <5>1, MainSteps DEF Requests
        <5>3. user[u].script = <<"list">> BY <3>1, <5>1, <5>2 DEF MainScripts
        <5> QED BY <4>1, <5>2, <5>3 DEF ServersInv, HandInv
      <4>2. CASE u # "main"
        <5>1. Idle("main") /\ phase = "serve" /\ registered
          BY <3>1, <4>2 DEF ServersInv, WorkInv, Users
        <5>2. user["main"].script = <<>>
          BY <5>1, <3>1 DEF ServersInv, WorkInv, StandsAt, Idle
        <5>3. <<>> \notin Shaken BY DEF Shaken
        <5> QED BY <5>1, <5>2, <5>3 DEF ServersInv, HandInv
      <4> QED BY <4>1, <4>2
    <3> QED BY <3>2 DEF ServersInv, HandInv
  <2>2. NoOrphan
    <3>1. \A p \in DOMAIN procs : procs[p].alive => p = proc
      BY DEF ServersInv, ProcInv
    <3>2. phase = "shut" /\ kind # "lsp" => proc = 0 BY DEF ServersInv, ProcInv
    <3>3. \A p \in DOMAIN procs : p # 0 BY LenProperties DEF ServersInv, Typed
    <3> QED BY <3>1, <3>2, <3>3 DEF NoOrphan
  <2> QED BY <2>1, <2>2 DEF ServerLaw
<1> QED BY <1>1, ServersKept, PTL
=============================================================================
