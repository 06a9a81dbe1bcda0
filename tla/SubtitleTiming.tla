---------------------------- MODULE SubtitleTiming ----------------------------
(***************************************************************************)
(* From the text of a job to its karaoke subtitles and its video: the      *)
(* chunks that are spoken, the word timestamps (Whisper's, interpolated,   *)
(* or derived from the chunks), the lines of the .ass file and the length  *)
(* of the .mp4.  Shortz.py, and the stages of worker/pipeline/ that call   *)
(* it.  The loops of the code are the steps.                               *)
(*                                                                         *)
(* A word is its number of characters.  Times are whole ticks, Second of   *)
(* them in a second: floats without their representation error.            *)
(*                                                                         *)
(*   words      text.split()                                               *)
(*   pc, next   the loop that runs, the word or chunk it comes to next     *)
(*   cur        the chunk being filled: its first and last word, its       *)
(*              length as a string                                         *)
(*   chunks     the texts given to XTTS, one after the other               *)
(*   voice      how long XTTS speaks each: no variable of the code         *)
(*   durations  what tts_generate_and_measure() says of that               *)
(*   audio      the length of the .wav, its temporary files joined         *)
(*   heard      raw_ts: the timestamps in Whisper's answer                 *)
(*   clock      current_time of the fallback                               *)
(*   stamps     the timestamps given to build_karaoke_ass()                *)
(*   lines      the dialogues of the .ass file                             *)
(*   video      the length of the .mp4                                     *)
(***************************************************************************)
EXTENDS Integers, Sequences, FiniteSets, Functions

CONSTANTS
  Texts,      \* the texts a job may have
  Limit,      \* MAX_CHUNK_CHARS
  Second,     \* ticks in a second
  Voices,     \* how long a chunk may be spoken, in ticks
  Hearings    \* the timestamps Whisper may answer with

Stamp == [start : Nat, end : Nat]

InOrder(s) ==
  /\ \A i \in 1..Len(s) : s[i].start <= s[i].end
  /\ \A i, j \in 1..Len(s) : i < j => s[i].end <= s[j].start

ASSUME TextsAssumption == Texts \subseteq Seq(Nat \ {0}) \ {<<>>}
ASSUME LimitAssumption == Limit \in Nat \ {0}
ASSUME SecondAssumption == Second \in Nat \ {0} /\ Second % 100 = 0
ASSUME VoicesAssumption == Voices \subseteq Nat
ASSUME HearingsAssumption ==
  /\ Hearings \subseteq Seq(Stamp)
  /\ \A h \in Hearings : InOrder(h)

VARIABLES words, pc, next, cur, chunks, voice, durations, audio, heard, clock,
          stamps, lines, video

spoken == <<voice, durations, audio>>
vars == <<words, pc, next, cur, chunks, spoken, heard, clock, stamps, lines, video>>

Centi == Second \div 100
INTER_CHUNK_HOLD_SECONDS == 250 * Centi
INTER_CHUNK_DELAY_SECONDS == 8 * Centi
SUBTITLE_START_DELAY_SECONDS == Second
CHUNK_SIZE_WORDS == 5
WORD_DELAY_CS == 3

NoChunk == [first |-> 0, last |-> 0, chars |-> 0]
Unrendered == -1

Least(a, b) == IF a <= b THEN a ELSE b
Most(a, b) == IF a >= b THEN a ELSE b

Init ==
  /\ words \in Texts
  /\ pc = "split" /\ next = 1
  /\ cur = NoChunk /\ chunks = <<>>
  /\ voice = <<>> /\ durations = <<>> /\ audio = 0
  /\ heard = <<>> /\ clock = 0 /\ stamps = <<>>
  /\ lines = <<>> /\ video = Unrendered

\* The loop ends and the next one starts at its first item.
Begin(loop) == pc' = loop /\ next' = 1
Advance(to) == next' = to /\ UNCHANGED pc

-----------------------------------------------------------------------------
(* split_word_safe() *)

Alone(w) == [first |-> w, last |-> w, chars |-> words[w]]
Joined(w) == [first |-> cur.first, last |-> w, chars |-> cur.chars + 1 + words[w]]

\* Slip: a word that fills the chunk to the last character is put off.
Fits_Strictly(w) == cur.chars + 1 + words[w] < Limit

Fits(w) == cur.chars + 1 + words[w] <= Limit

\* One word.  One that is longer than Limit is a chunk of its own.
TakeWord ==
  /\ pc = "split" /\ next <= Len(words)
  /\ \/ cur = NoChunk /\ cur' = Alone(next) /\ UNCHANGED chunks
     \/ cur # NoChunk /\ Fits(next) /\ cur' = Joined(next) /\ UNCHANGED chunks
     \/ cur # NoChunk /\ ~Fits(next) /\ cur' = Alone(next) /\ chunks' = Append(chunks, cur)
  /\ Advance(next + 1)
  /\ UNCHANGED <<words, spoken, heard, clock, stamps, lines, video>>

\* Slip: the last chunk is forgotten.
EndSplit_Drops ==
  /\ pc = "split" /\ next > Len(words)
  /\ chunks' = (IF chunks = <<>> THEN <<cur>> ELSE chunks)
  /\ Begin("speak")
  /\ UNCHANGED <<words, cur, spoken, heard, clock, stamps, lines, video>>

EndSplit ==
  /\ pc = "split" /\ next > Len(words)
  /\ chunks' = Append(chunks, cur)
  /\ Begin("speak")
  /\ UNCHANGED <<words, cur, spoken, heard, clock, stamps, lines, video>>

-----------------------------------------------------------------------------
(* tts_generate_and_measure() *)

\* ffprobe says how long the file is, or anything fails: 1.0.
get_wav_duration(length) == {length, Second}

AtLeast == 40 * Centi

\* A chunk is spoken into a file of its own and measured.
Speak ==
  /\ pc = "speak" /\ next <= Len(chunks)
  /\ \E length \in Voices : \E measured \in get_wav_duration(length) :
       /\ voice' = Append(voice, length)
       /\ durations' = Append(durations, Most(AtLeast, measured))
       /\ audio' = audio + length
  /\ Advance(next + 1)
  /\ UNCHANGED <<words, cur, chunks, heard, clock, stamps, lines, video>>

\* ffmpeg has joined the files.
Merge ==
  /\ pc = "speak" /\ next > Len(chunks)
  /\ Begin("hear")
  /\ UNCHANGED <<words, cur, chunks, spoken, heard, clock, stamps, lines, video>>

-----------------------------------------------------------------------------
(* Alignment: main_generate() and align_stage.run() *)

\* n timestamps of the same length, one after the other.
Shares(n, from, per) ==
  [i \in 1..n |-> [start |-> from + (i - 1) * per, end |-> from + i * per]]

\* Slip: the interval is that of the words heard.
Interpolated_Heard(h) == Shares(Len(words), 0, h[Len(h)].end \div Len(h))

\* Too few words were heard: all are spread evenly up to the end of the last.
Interpolated(h) == Shares(Len(words), 0, h[Len(h)].end \div Len(words))

Aligned(h) ==
  IF Len(h) >= Len(words) THEN SubSeq(h, 1, Len(words)) ELSE Interpolated(h)

Hear ==
  /\ pc = "hear"
  /\ heard' \in Hearings
  /\ IF heard' = <<>> THEN Begin("derive") /\ UNCHANGED stamps
                      ELSE Begin("lines") /\ stamps' = Aligned(heard')
  /\ UNCHANGED <<words, cur, chunks, spoken, clock, lines, video>>

\* derive_word_timestamps_from_chunks(): the words of a chunk share its duration,
\* and every chunk but the last is followed by a hold.
NumWords(k) == chunks[k].last - chunks[k].first + 1
TimePerWord(k) == durations[k] \div NumWords(k)

Shared(k, from) == Shares(NumWords(k), from, TimePerWord(k))

\* Slip: every word is followed by the hold of its chunk.
Held_PerWord(k) ==
  IF chunks[k].last < Len(words) THEN NumWords(k) * INTER_CHUNK_HOLD_SECONDS ELSE 0

Held(k) == IF chunks[k].last < Len(words) THEN INTER_CHUNK_HOLD_SECONDS ELSE 0

DeriveChunk ==
  /\ pc = "derive" /\ next <= Len(chunks)
  /\ stamps' = stamps \o Shared(next, clock)
  /\ clock' = clock + NumWords(next) * TimePerWord(next) + Held(next)
  /\ Advance(next + 1)
  /\ UNCHANGED <<words, cur, chunks, spoken, heard, lines, video>>

EndDerive ==
  /\ pc = "derive" /\ next > Len(chunks)
  /\ Begin("lines")
  /\ UNCHANGED <<words, cur, chunks, spoken, heard, clock, stamps, lines, video>>

-----------------------------------------------------------------------------
(* build_karaoke_ass() *)

\* Python's round() to whole centiseconds: halves go to the even neighbour.
RoundCs(t) ==
  LET q == t \div Centi
      twice == 2 * (t % Centi)
  IN  IF twice < Centi \/ (twice = Centi /\ q % 2 = 0) THEN q ELSE q + 1

\* Slip: the fraction is cut off.
format_ass_time_Cut(t) ==
  [h |-> t \div (3600 * Second),
   m |-> (t % (3600 * Second)) \div (60 * Second),
   s |-> (t % (60 * Second)) \div Second,
   cs |-> (t % Second) \div Centi]

\* Slip: the seconds keep the minutes in.
format_ass_time_Unreduced(t) ==
  [h |-> t \div (3600 * Second),
   m |-> (t % (3600 * Second)) \div (60 * Second),
   s |-> (t % (3600 * Second)) \div Second,
   cs |-> RoundCs(t % Second)]

\* The fields as numbers; cs is 100 when the fraction is rounded up to a second.
format_ass_time(t) ==
  [h |-> t \div (3600 * Second),
   m |-> (t % (3600 * Second)) \div (60 * Second),
   s |-> (t % (60 * Second)) \div Second,
   cs |-> RoundCs(t % Second)]

\* A line of the words from first to last: when it is shown and hidden, the \k
\* before its first word, and the \kf of each word.
StartOf(first) ==
  stamps[first].start + SUBTITLE_START_DELAY_SECONDS
    + (IF first # 1 THEN INTER_CHUNK_DELAY_SECONDS ELSE 0)

EndOf(last) == stamps[last].end + SUBTITLE_START_DELAY_SECONDS + INTER_CHUNK_HOLD_SECONDS

\* Slip: the difference is taken the other way round.
LeadOf_Negated(first) ==
  Most(0, RoundCs(StartOf(first) - (stamps[first].start + SUBTITLE_START_DELAY_SECONDS)))

LeadOf(first) ==
  Most(0, RoundCs(stamps[first].start + SUBTITLE_START_DELAY_SECONDS - StartOf(first)))

Line(first, last) ==
  [first |-> first, last |-> last,
   shown |-> format_ass_time(StartOf(first)),
   hidden |-> format_ass_time(EndOf(last)),
   lead |-> LeadOf(first),
   sweep |-> [i \in first..last |-> RoundCs(stamps[i].end - stamps[i].start)]]

LastOf(first) == Least(first + CHUNK_SIZE_WORDS - 1, Len(words))

BuildLine ==
  /\ pc = "lines" /\ next <= Len(words)
  /\ lines' = Append(lines, Line(next, LastOf(next)))
  /\ Advance(LastOf(next) + 1)
  /\ UNCHANGED <<words, cur, chunks, spoken, heard, clock, stamps, video>>

EndLines ==
  /\ pc = "lines" /\ next > Len(words)
  /\ Begin("render")
  /\ UNCHANGED <<words, cur, chunks, spoken, heard, clock, stamps, lines, video>>

-----------------------------------------------------------------------------
(* create_final_video() *)

Canvas(measured) == measured + Second

\* -shortest ends the video with the canvas or the audio.
RenderVideo ==
  /\ pc = "render"
  /\ \E measured \in get_wav_duration(audio) : video' = Least(Canvas(measured), audio)
  /\ Begin("done")
  /\ UNCHANGED <<words, cur, chunks, spoken, heard, clock, stamps, lines>>

Next ==
  \/ TakeWord \/ EndSplit \/ Speak \/ Merge \/ Hear \/ DeriveChunk \/ EndDerive
  \/ BuildLine \/ EndLines \/ RenderVideo

Spec == Init /\ [][Next]_vars

-----------------------------------------------------------------------------
(* Properties *)

ChunkType == [first : Nat, last : Nat, chars : Nat]
AssTime == [h : Nat, m : 0..59, s : 0..59, cs : 0..100]

\* Every variable has its type.
TypeOK ==
  /\ words \in Seq(Nat \ {0}) \ {<<>>}
  /\ pc \in {"split", "speak", "hear", "derive", "lines", "render", "done"}
  /\ next \in Nat \ {0}
  /\ cur \in ChunkType /\ chunks \in Seq(ChunkType)
  /\ voice \in Seq(Nat) /\ durations \in Seq(Nat) /\ audio \in Nat
  /\ heard \in Seq(Stamp) /\ clock \in Nat /\ stamps \in Seq(Stamp)
  /\ \A k \in 1..Len(lines) :
       /\ lines[k].first \in Nat /\ lines[k].last \in Nat
       /\ lines[k].shown \in AssTime /\ lines[k].hidden \in AssTime
  /\ video \in Nat \cup {Unrendered}

\* The chunks given to XTTS hold the words of the text, each once and in their
\* order, and a chunk is longer than MAX_CHUNK_CHARS only if it is one word
\* (Shortz.py:185).
ChunksTileText ==
  /\ chunks # <<>> => chunks[1].first = 1
  /\ \A k \in 1..Len(chunks) :
       /\ chunks[k].first <= chunks[k].last
       /\ chunks[k].chars <= Limit \/ chunks[k].first = chunks[k].last
  /\ \A k \in 1..Len(chunks) - 1 : chunks[k + 1].first = chunks[k].last + 1
  /\ pc # "split" => chunks # <<>> /\ chunks[Len(chunks)].last = Len(words)

\* The length of words first to last, joined with spaces.
Chars(first, last) == SumFunctionOnSet(words, first..last) + last - first

\* Whether the text, cut after the words in cuts, is in pieces XTTS may be given.
FitCuts(cuts) ==
  LET ends == cuts \cup {Len(words)}
      PieceFrom(f) == CHOOSE l \in ends : l >= f /\ \A e \in ends : e >= f => l <= e
  IN  \A f \in {1} \cup {c + 1 : c \in cuts} :
        f = PieceFrom(f) \/ Chars(f, PieceFrom(f)) <= Limit

\* Taking the words greedily is best: the chunks are within the limit, and no
\* other way to cut the text between words that is needs fewer seams in the voice
\* (Shortz.py:185).
FewestChunks ==
  (pc = "speak" /\ next = 1) =>
    /\ FitCuts({chunks[k].last : k \in 1..Len(chunks) - 1})
    /\ \A cuts \in SUBSET (1..Len(words) - 1) :
         FitCuts(cuts) => Cardinality(cuts) + 1 >= Len(chunks)

\* When the .ass file is built every word has its timestamp, whichever way they
\* came about; the words follow one another, and none lies after the last one
\* Whisper heard (Shortz.py:567-582, align_stage.py:43-58).
StampsInOrder ==
  /\ InOrder(stamps)
  /\ pc \in {"lines", "render", "done"} =>
       /\ Len(stamps) = Len(words)
       /\ heard # <<>> => stamps[Len(words)].end <= heard[Len(heard)].end

\* When XTTS begins to speak chunk k; the holds before it in the fallback; by how
\* much more or less was measured of the chunks before it than was spoken.
SpokenFrom(k) == SumFunctionOnSet(voice, 1..k - 1)
HoldsBefore(k) == (k - 1) * INTER_CHUNK_HOLD_SECONDS
Mismeasured(k) == SumFunctionOnSet(durations, 1..k - 1) - SpokenFrom(k)

\* Every duration is a whole number of ticks for each of the words a chunk within the
\* limit can have: no time of the fallback is rounded down.
Exact ==
  \A n \in 1..(Limit + 1) \div 2 : \A d \in Voices \cup {Second, AtLeast} : d % n = 0

\* Without Whisper the timestamps run behind the voice, and it is known by how
\* much: the .wav has no pause where the fallback puts its hold, so chunk k is
\* behind by k - 1 holds and by what was measured wrong of the chunks before it,
\* which nothing makes up for (Shortz.py:222, 302).
LagIsHolds ==
  \A k \in 1..Len(chunks) :
    heard = <<>> /\ Len(stamps) >= chunks[k].first =>
      stamps[chunks[k].first].start - SpokenFrom(k) = HoldsBefore(k) + Mismeasured(k)

\* The lines of the .ass file show every word once, in the order of the text, at
\* most five to a line (Shortz.py:391).
LinesTileWords ==
  /\ lines # <<>> => lines[1].first = 1
  /\ \A k \in 1..Len(lines) :
       /\ lines[k].first <= lines[k].last
       /\ lines[k].last < lines[k].first + CHUNK_SIZE_WORDS
  /\ \A k \in 1..Len(lines) - 1 : lines[k + 1].first = lines[k].last + 1
  /\ pc \in {"render", "done"} => lines # <<>> /\ lines[Len(lines)].last = Len(words)

\* What libass makes of the fields of a time: centiseconds from the start.
Read(time) == ((time.h * 60 + time.m) * 60 + time.s) * 100 + time.cs

NearestCs(time, t) == 2 * Most(Read(time) * Centi - t, t - Read(time) * Centi) <= Centi

\* A time in the file is the centisecond nearest to the one that was computed, also
\* when the centiseconds round to 100, "0:00:01.100", and the field grows a digit:
\* read as a number of centiseconds it carries (Shortz.py:359).
TimesAreNearest ==
  \A k \in 1..Len(lines) :
    /\ NearestCs(lines[k].shown, StartOf(lines[k].first))
    /\ NearestCs(lines[k].hidden, EndOf(lines[k].last))

\* When the highlight of word i of a line starts to run and, for i + 1, when that
\* of word i is through, in centiseconds from the start.
SweepAt(line, i) ==
  Read(line.shown) + line.lead + SumFunctionOnSet(line.sweep, line.first..i - 1)
    + (i - line.first) * WORD_DELAY_CS

\* The highlight of a word does not fall behind its timestamp, moved by the start
\* delay, by more than the delay of the line, the pauses of three centiseconds
\* before the words and half a centisecond of rounding for each word
\* (Shortz.py:408-417).
SweepKeepsUp ==
  \A k \in 1..Len(lines) : \A i \in lines[k].first..lines[k].last :
    2 * SweepAt(lines[k], i) * Centi
      <= 2 * (stamps[i].start + SUBTITLE_START_DELAY_SECONDS + INTER_CHUNK_DELAY_SECONDS
              + (i - lines[k].first) * WORD_DELAY_CS * Centi)
         + (i - lines[k].first + 1) * Centi

\* The video has all of the audio, or, when ffprobe failed on the .wav, the first
\* two seconds of it (Shortz.py:439-449, 476).
VideoKeepsAudio ==
  pc = "done" => video = audio \/ (audio > 2 * Second /\ video = 2 * Second)
=============================================================================
