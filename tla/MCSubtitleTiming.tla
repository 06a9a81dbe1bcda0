--------------------------- MODULE MCSubtitleTiming ---------------------------
(* An instance of the subtitle timing for TLC.  With 6000 ticks in a second every
   division of a time by a number of words is exact. *)
EXTENDS SubtitleTiming

CONSTANT MaxShortText

\* Words of 1, 3 and 9 characters: one more than fits into the limit of 7, which
\* "3 + 1 + 1" and "3 + 3" fill to the last.
ShortTexts == UNION {[1..n -> {1, 3, 9}] : n \in 1..MaxShortText}

\* Two lines from two chunks, and three lines from four.
LongTexts == {<<3, 1, 1, 1, 1, 1>>, <<1, 1, 1, 1, 3, 3, 1, 1, 1, 1, 1>>}

MCTexts == ShortTexts \cup LongTexts

\* Below the least duration, and longer than the two seconds of an unmeasured canvas.
MCVoices == {1200, 18000}

ASSUME ExactAssumption == Exact

\* n words, each of length ticks with gap after it.
Steady(n, length, gap) ==
  [i \in 1..n |-> [start |-> (i - 1) * (length + gap),
                   end |-> (i - 1) * (length + gap) + length]]

\* The same, with a pause of so many ticks after the second word.
Paused(n, length, pause) ==
  [i \in 1..n |-> [start |-> (i - 1) * length + (IF i > 2 THEN pause ELSE 0),
                   end |-> i * length + (IF i > 2 THEN pause ELSE 0)]]

\* Nothing; one word, to 1.1 seconds (spread over six, the second line starts in
\* the last half centisecond of a second) or to more than a minute; as many words
\* as any text has, slurred to nothing, with gaps, with short and long pauses.
MCHearings ==
  {<<>>, Steady(1, 6600, 0), Steady(1, 369600, 0), Steady(12, 60, 0),
   Steady(12, 1500, 300), Paused(12, 600, 12000), Paused(12, 600, 180000)}
=============================================================================
