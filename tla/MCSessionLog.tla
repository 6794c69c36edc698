---------------------------- MODULE MCSessionLog ----------------------------
\* A session of a few turns, from an empty store or from one that a build
\* without the compaction boundary has left.
EXTENDS SessionLog

CONSTANTS c1, c2

MCCalls == {c1, c2}
MCSymmetry == Permutations(CallIds)

MCEvent(id, kind, calls, gone) ==
  [id |-> id, kind |-> kind, calls |-> calls, tokens |-> 0, gone |-> gone]

\* What a build that folded away all but the last two events may have left: a
\* prompt, a turn of two calls and its results, an answer, and the compaction,
\* wherever it cut.
MCBefore(c, d) ==
  <<MCEvent(1, "user", {}, {}), MCEvent(2, "response", {c, d}, {}),
    MCEvent(3, "result", {c}, {}), MCEvent(4, "result", {d}, {}),
    MCEvent(5, "response", {}, {})>>
MCNaive(n, c, d) ==
  Append(SubSeq(MCBefore(c, d), 1, n), MCEvent(n + 1, "compaction", {}, 1..(n - RecentKeep)))

\* A store that has lost the response.
MCMissing(c, d) ==
  <<MCEvent(1, "user", {}, {}), MCEvent(2, "result", {c}, {}),
    MCEvent(3, "result", {d}, {})>>

MCHistories ==
  UNION {{MCMissing(c, d)} \cup {MCNaive(n, c, d) : n \in 3..5} :
            <<c, d>> \in {<<c1, c2>>, <<c2, c1>>}}

MCSession(history, rewinds, usages, events) ==
  [history |-> history, repeats |-> FALSE, rewinds |-> rewinds,
   usages |-> usages, events |-> events]
MCSettings ==
  {MCSession(<<>>, FALSE, 0..2, 7), MCSession(<<>>, TRUE, {0}, 7)}
    \cup {MCSession(h, TRUE, {0}, 8) : h \in MCHistories}
=============================================================================
