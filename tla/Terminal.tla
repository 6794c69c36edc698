------------------------------ MODULE Terminal ------------------------------
(* What a terminal shows of one run (tui.py): the items of Agent.stream() are *)
(* drawn in a live display that changes in place, and lines that stay. Calls  *)
(* of the same tool in a row share one live line, which becomes "name xN".    *)
EXTENDS Naturals, Sequences, FiniteSets, SequencesExt

CONSTANTS
  Made,     \* the calls of a run
  Drawers,   \* the tools
  Writers,   \* those of them that write files
  NoDrawer,  \* no tool: there is no streak
  MaxTurns   \* responses of the model (a bound)

ASSUME TerminalAssumption ==
  NoDrawer \notin Drawers /\ Writers \subseteq Drawers /\ MaxTurns \in Nat

VARIABLES
  toolOf,    \* by call, its tool
  streams,   \* whether the text of a response comes in deltas
  turn,      \* responses so far, and the one whose deltas come
  talking,   \* deltas of that response have come
  spoken,    \* the responses with text
  announced, \* calls of the last response that were not made
  called,    \* calls that were made and have no result, in their order
  results,   \* by call, "none", "failing" (an error before its result), "ok", "diff"
             \* (ok, and a file changed) or "error"
  ended,     \* "no", "result" or "finished"
  streamed,  \* the turns whose text was accumulated
  live,      \* what the live display holds, or Blank
  streak,    \* [tool, count]
  screen     \* the lines that stay

evars == <<toolOf, streams, turn, talking, spoken, announced, called, results, ended>>
dvars == <<streamed, live, streak, screen>>
tvars == <<evars, dvars>>

Blank == [kind |-> "blank"]
TextFrame(turns) == [kind |-> "text", turns |-> turns]
ToolFrame(kind, c) == [kind |-> kind, call |-> c]
Panel == [kind |-> "panel"]

\* The display while an item is handled.
Display == [streamed |-> streamed, live |-> live, streak |-> streak, screen |-> screen]
Becomes(d) ==
  streamed' = d.streamed /\ live' = d.live /\ streak' = d.streak /\ screen' = d.screen

NoStreak == [tool |-> NoDrawer, count |-> 0]

TerminalStart ==
  /\ turn = 0 /\ talking = FALSE /\ spoken = {} /\ announced = {} /\ called = <<>>
  /\ results = [c \in Made |-> "none"] /\ ended = "no"
  /\ streamed = {} /\ live = Blank /\ streak = NoStreak /\ screen = <<>>

TerminalInit == toolOf \in [Made -> Drawers] /\ streams \in BOOLEAN /\ TerminalStart
-----------------------------------------------------------------------------
(* The display                                                               *)

Prints(d, line) == [d EXCEPT !.screen = Append(@, line)]

\* Mutant of StopLive: a live display is dropped, not left where it is.
StopLiveBlank(d) == [d EXCEPT !.live = Blank]

StopLive(d) ==
  IF d.live = Blank THEN d
  ELSE [d EXCEPT !.live = Blank, !.screen = Append(@, d.live)]

Update(d, frame) == [d EXCEPT !.live = frame]

\* Results may be counted when no tool has the streak; the count is kept then.
FinalizeStreak(d) ==
  IF d.streak.tool = NoDrawer \/ d.streak.count = 0 THEN StopLive(d)
  ELSE LET stopped == [StopLive(d) EXCEPT !.streak = NoStreak]
       IN  IF d.streak.count > 1
             THEN Prints(stopped, [kind |-> "streak", tool |-> d.streak.tool,
                                   count |-> d.streak.count])
             ELSE stopped

HandleDelta(d, t) ==
  LET ready == IF d.streamed = {} THEN FinalizeStreak(d) ELSE d
      texts == ready.streamed \cup {t}
  IN  Update([ready EXCEPT !.streamed = texts], TextFrame(texts))

\* The text of a response that was not streamed, and the end of one with calls.
HandleResponse(d, t, content, calls) ==
  LET said == IF content /\ d.streamed = {}
                THEN Update(FinalizeStreak(d), TextFrame({t})) ELSE d
  IN  IF calls = {} THEN said ELSE [StopLive(said) EXCEPT !.streamed = {}]

HandleCall(d, c) ==
  LET ready == IF toolOf[c] = d.streak.tool THEN d
               ELSE [FinalizeStreak(d) EXCEPT !.streak = [tool |-> toolOf[c], count |-> 0]]
  IN  Update(ready, ToolFrame("pending", c))

Counted(d) == [d EXCEPT !.streak.count = @ + 1]

\* Mutant of HandleFailure: a failure updates the line of its streak.
HandleFailureInPlace(d, c) == Update(Counted(d), ToolFrame("error", c))

HandleFailure(d, c) ==
  Prints(StopLive(Update(FinalizeStreak(Counted(d)), ToolFrame("error", c))),
         ToolFrame("detail", c))

HandleDiff(d, c) ==
  Prints(Prints(StopLive(FinalizeStreak(Counted(d))), ToolFrame("ok", c)),
         ToolFrame("diff", c))

HandleSuccess(d, c) == Update(Counted(d), ToolFrame("ok", c))

HandlePanel(d, panel) == Prints(FinalizeStreak(d), panel)
-----------------------------------------------------------------------------
(* The items of a run                                                        *)

Running == ended = "no"
Quiet == announced = {} /\ called = <<>>

\* The response an item belongs to, and whether it has text.
Speaks(text) ==
  /\ Running /\ Quiet /\ (talking \/ turn < MaxTurns)
  /\ turn' = IF talking THEN turn ELSE turn + 1
  /\ spoken' = IF text THEN spoken \cup {turn'} ELSE spoken
  /\ UNCHANGED <<toolOf, streams, called, results, ended>>

DrawDelta ==
  /\ streams /\ Speaks(TRUE) /\ talking' = TRUE /\ UNCHANGED announced
  /\ Becomes(HandleDelta(Display, turn'))

\* The whole text, which came in deltas before when the run streams.
DrawResponse ==
  /\ talking' = FALSE
  /\ \E calls \in SUBSET {c \in Made : results[c] = "none"}, content \in BOOLEAN :
       /\ Speaks(content) /\ IF streams THEN content = talking ELSE TRUE
       /\ announced' = calls /\ Becomes(HandleResponse(Display, turn', content, calls))

DrawCall(c) ==
  /\ c \in announced /\ announced' = announced \ {c} /\ called' = Append(called, c)
  /\ UNCHANGED <<toolOf, streams, turn, talking, spoken, results, ended>>
  /\ Becomes(HandleCall(Display, c))

\* The calls of a response are all drawn before their results, which keep their order.
Answering(c) == announced = {} /\ called # <<>> /\ c = Head(called)

\* The error of a call, drawn before the result that failed.
DrawError(c) ==
  /\ Answering(c) /\ results[c] = "none" /\ results' = [results EXCEPT ![c] = "failing"]
  /\ Becomes(HandlePanel(Display, ToolFrame("panel", c)))
  /\ UNCHANGED <<toolOf, streams, turn, talking, spoken, announced, called, ended>>

Outcomes(c) ==
  IF results[c] = "failing" THEN {"error"}
  ELSE {"ok", "error"} \cup (IF toolOf[c] \in Writers THEN {"diff"} ELSE {})

DrawResult(c) ==
  /\ Answering(c) /\ called' = Tail(called)
  /\ \E r \in Outcomes(c) :
       /\ results' = [results EXCEPT ![c] = r]
       /\ Becomes(CASE r = "ok" -> HandleSuccess(Display, c)
                    [] r = "diff" -> HandleDiff(Display, c)
                    [] r = "error" -> HandleFailure(Display, c))
  /\ UNCHANGED <<toolOf, streams, turn, talking, spoken, announced, ended>>

\* A plan, a verdict or an error of the run, between two turns; and the error of
\* a stream that fails amid a response, after which the run has no other.
OtherItem ==
  /\ Running /\ Quiet /\ ~Contains(screen, Panel)  \* a bound
  /\ Becomes(HandlePanel(Display, Panel))
  /\ talking' = FALSE /\ turn' = IF talking THEN MaxTurns ELSE turn
  /\ UNCHANGED <<toolOf, streams, spoken, announced, called, results, ended>>

RunEnds ==
  /\ Running /\ Quiet /\ ~talking /\ ended' = "result"
  /\ \E success \in BOOLEAN :
       Becomes(IF success THEN FinalizeStreak(Display) ELSE HandlePanel(Display, Panel))
  /\ UNCHANGED <<toolOf, streams, turn, talking, spoken, announced, called, results>>

\* finish() follows the result, or the exception that ended the run anywhere.
FinishDisplay ==
  /\ ended # "finished" /\ ended' = "finished" /\ Becomes(FinalizeStreak(Display))
  /\ UNCHANGED <<toolOf, streams, turn, talking, spoken, announced, called, results>>

TerminalNext ==
  \/ DrawDelta \/ DrawResponse \/ OtherItem \/ RunEnds \/ FinishDisplay
  \/ \E c \in Made : Running /\ (DrawCall(c) \/ DrawError(c) \/ DrawResult(c))
-----------------------------------------------------------------------------
TerminalTypeOK ==
  /\ turn \in 0..MaxTurns /\ streamed \subseteq 1..MaxTurns
  /\ announced \subseteq Made /\ called \in Seq(Made)
  /\ results \in [Made -> {"none", "failing", "ok", "diff", "error"}]
  /\ streak \in [tool : Drawers \cup {NoDrawer}, count : 0..Cardinality(Made)]
  /\ live.kind \in {"blank", "text", "pending", "ok", "error"}

\* A line, and the one right below it, stay on the screen.
Stay(above, below) ==
  \E i \in 1..Len(screen) - 1 : screen[i] = above /\ screen[i + 1] = below

\* Whatever streak the calls of a turn belong to and whatever fails between them, a
\* failure keeps a line and its reason, a changed file keeps a line and its
\* difference, and the text of a response is never drawn over.
NothingHidden ==
  /\ \A c \in Made :
       /\ results[c] = "error" => Stay(ToolFrame("error", c), ToolFrame("detail", c))
       /\ results[c] = "diff" => Stay(ToolFrame("ok", c), ToolFrame("diff", c))
  /\ \A t \in spoken :
       \E f \in Range(Append(screen, live)) : f.kind = "text" /\ t \in f.turns

\* finish() leaves no live display, whatever item the stream stopped at.
NothingLive == ended = "finished" => live = Blank

\* The terminal keeps what a person must see of a run (tui.py).
TerminalLaw == NothingHidden /\ NothingLive

\* A call that went well and changed no file keeps a line of its own, or is
\* counted in the "name xN" of its tool (tui.py: the streak is "finalized as
\* 'name xN' the moment a different tool starts or an error breaks the streak").
StreaksTold ==
  ended = "finished" =>
    \A c \in Made : results[c] = "ok" =>
      \E line \in Range(screen) :
        \/ line = ToolFrame("ok", c)
        \/ line.kind = "streak" /\ line.tool = toolOf[c]
=============================================================================
