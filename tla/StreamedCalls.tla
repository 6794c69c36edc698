--------------------------- MODULE StreamedCalls ----------------------------
(***************************************************************************)
(* The tool calls of one response: how a provider sends them, how the      *)
(* adapter reads each chunk, and how the loop merges what it reads.        *)
(*                                                                         *)
(* The arguments of call c are the text <<c, 1>>, ..., <<c, Pieces>>; all  *)
(* of it is a JSON object, a part of it is not.  Its name stands for the   *)
(* call as well.                                                           *)
(***************************************************************************)
EXTENDS Naturals, FiniteSets, Sequences, SequencesExt

CONSTANTS
  Calls,   \* what the model asks for
  Pieces,  \* into how many pieces the arguments of a call may be cut
  Styles   \* the ways in which providers send calls

\* "whole": each call at once, under its id; "together": all calls in one
\* chunk without ids, as the native endpoint of Ollama may; "pieces": every
\* piece carries the id of its call; "opening": only the first, which has the
\* name and no arguments, as OpenAI does.
AllStyles == {"whole", "together", "pieces", "opening"}
Nothing == "nothing"

ASSUME CallsAssumption ==
  /\ Pieces \in Nat \ {0} /\ Styles \subseteq AllStyles
  /\ IsFiniteSet(Calls) /\ Nothing \notin Calls

VARIABLES
  style,     \* how this provider sends calls
  sent,      \* how much of each call has been sent; 0: nothing, 1: its opening
  acc,       \* what the loop has merged, in the order of its keys
  stream,    \* "open", "ended", or "broken"
  dispatch   \* the calls that the response is taken to hold

svars == <<style, sent, acc, stream, dispatch>>

TextOf(c) == [k \in 1..Pieces |-> <<c, k>>]
IsObject(text) == \E c \in Calls : text = TextOf(c)

-----------------------------------------------------------------------------
(* The provider *)

\* A fragment of a call: its id and name, where it has them, and its text.
Frag(id, name, text) == [id |-> id, name |-> name, text |-> text]

\* The next fragment of call c, and how much of it is sent with it.
NextFrag(c) ==
  CASE style = "whole"    -> Frag(c, c, TextOf(c))
    [] style = "together" -> Frag(Nothing, c, TextOf(c))
    [] style = "pieces"   -> Frag(c, IF sent[c] = 0 THEN c ELSE Nothing, <<TextOf(c)[sent[c] + 1]>>)
    [] style = "opening"  -> IF sent[c] = 0 THEN Frag(c, c, <<>>)
                             ELSE Frag(Nothing, Nothing, <<TextOf(c)[sent[c]]>>)
\* How many fragments a call is sent in.
LastFrag == CASE style \in {"whole", "together"} -> 1 [] style = "pieces" -> Pieces
          [] style = "opening" -> Pieces + 1

\* The calls that may be in the next chunk, in their order.
Chunks ==
  IF style = "together"
    THEN {s \in SetToSeqs(Calls) : \A c \in Calls : sent[c] = 0}
    ELSE {s \in UNION {[1..n -> Calls] : n \in 1..2} :
            IsInjective(s) /\ \A i \in DOMAIN s : sent[s[i]] < LastFrag}

-----------------------------------------------------------------------------
(* The adapter *)

Dict(text) == [dict |-> TRUE, text |-> text]
Raw(text) == [dict |-> FALSE, text |-> text]

\* Mutant of Arguments: what does not parse is dropped.
ArgumentsParsed(text) == IF IsObject(text) THEN Dict(text) ELSE Dict(<<>>)

\* No text is an empty object; a text that is no object by itself is kept.
Arguments(text) ==
  IF text = <<>> \/ IsObject(text) THEN Dict(text) ELSE Raw(text)

\* A call without an id is named by its place in the chunk.
ToolCall(frag, i) ==
  [id |-> IF frag.id = Nothing THEN i ELSE frag.id, name |-> frag.name,
   args |-> Arguments(frag.text)]

Parsed(chunk) == [i \in DOMAIN chunk |-> ToolCall(NextFrag(chunk[i]), i)]

-----------------------------------------------------------------------------
(* The loop *)

\* What str() makes of a dict is no JSON that a later fragment completes.
Printed(args) == IF args.dict THEN <<"printed">> \o args.text ELSE args.text

\* Mutant of Joined: a fragment replaces what came before it.
JoinedLast(old, new) == new

\* Fragments are concatenated, a whole object replaces what came before it.
Joined(old, new) == IF new.dict THEN new ELSE Raw(Printed(old) \o new.text)

MergeDelta(seen, call) ==
  LET at == SelectInSeq(seen, LAMBDA e : e.id = call.id) IN
  IF at = 0 THEN Append(seen, call)
  ELSE [seen EXCEPT ![at].args = Joined(@, call.args)]

\* The accumulator after the deltas of a chunk.
Merged(seen, calls) == FoldLeft(MergeDelta, seen, calls)

\* A call whose text is no object at the end of the stream is dropped.
FinishCall(done, e) ==
  IF e.args.dict \/ IsObject(e.args.text) THEN Append(done, [e EXCEPT !.args.dict = TRUE])
  ELSE done
Finalized(seen) == FoldLeft(FinishCall, <<>>, seen)

\* A response that is not streamed: one chunk, its calls collected by id.
Collect(seen, call) ==
  LET at == SelectInSeq(seen, LAMBDA e : e.id = call.id) IN
  IF at = 0 THEN Append(seen, call) ELSE [seen EXCEPT ![at] = call]
Collected(calls) == Finalized(FoldLeft(Collect, <<>>, calls))

\* How the calls are told to the provider in the next request.
Replayed(calls) ==
  [i \in DOMAIN calls |-> Frag(calls[i].id, calls[i].name, calls[i].args.text)]

StreamInit ==
  /\ style \in Styles
  /\ sent = [c \in Calls |-> 0]
  /\ acc = <<>>
  /\ stream = "open"
  /\ dispatch = <<>>

\* A chunk arrives.
Chunk ==
  /\ stream = "open"
  /\ \E chunk \in Chunks :
       /\ acc' = Merged(acc, Parsed(chunk))
       /\ sent' = [c \in Calls |-> IF c \in ToSet(chunk) THEN sent[c] + 1 ELSE sent[c]]
  /\ UNCHANGED <<style, stream, dispatch>>

\* The same response without streaming.
Complete ==
  /\ stream = "open" /\ style \in {"whole", "together"}
  /\ \A c \in Calls : sent[c] = 0
  /\ \E chunk \in SetToSeqs(Calls) : dispatch' = Collected(Parsed(chunk))
  /\ sent' = [c \in Calls |-> LastFrag]
  /\ stream' = "ended"
  /\ UNCHANGED <<style, acc>>

\* The stream ends: its calls are dispatched.
EndStream ==
  /\ stream = "open"
  /\ \A c \in Calls : sent[c] = LastFrag
  /\ stream' = "ended"
  /\ dispatch' = Finalized(acc)
  /\ UNCHANGED <<style, sent, acc>>

\* A stream that breaks is a failure of the call; nothing of it is dispatched.
Break ==
  /\ stream = "open"
  /\ stream' = "broken"
  /\ UNCHANGED <<style, sent, acc, dispatch>>

StreamNext == Chunk \/ Complete \/ EndStream \/ Break

-----------------------------------------------------------------------------
(* Properties *)

StreamTypeOK ==
  /\ style \in Styles /\ sent \in [Calls -> 0..(Pieces + 1)]
  /\ stream \in {"open", "ended", "broken"}
  /\ \A e \in ToSet(acc) \cup ToSet(dispatch) :
       e.id \in Calls \cup (1..Cardinality(Calls)) /\ e.name \in Calls \cup {Nothing}
  /\ \A i, j \in DOMAIN acc : acc[i].id = acc[j].id => i = j

\* However its calls are cut, mixed and grouped, a response dispatches what the
\* model asked for, each call once with its own arguments, and the next request
\* repeats them so; a broken one dispatches nothing.
WholeCalls ==
  /\ stream = "ended" =>
       /\ Len(dispatch) = Cardinality(Calls)
       /\ \A c \in Calls : \E f \in ToSet(Replayed(dispatch)) :
            f.name = c /\ f.text = TextOf(c)
  /\ stream = "broken" => dispatch = <<>>
=============================================================================
