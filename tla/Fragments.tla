----------------------------- MODULE Fragments -----------------------------
(***************************************************************************)
(* How a stored body is cut into the fragments that are embedded and read  *)
(* (index/fragments.py).  A body is a sequence of lines, each with its     *)
(* words, its bytes and whether a section starts there; a line longer than *)
(* a window is already in pieces (_pieces).  A span is the numbers of its  *)
(* first and last line, so offsets touch when numbers follow each other.   *)
(* Trails and text are left out.                                           *)
(***************************************************************************)
EXTENDS Integers, Sequences, FiniteSetsExt, SequencesExt

CONSTANTS
    ShortWords,     \* a page within these words and the bytes is one fragment
    SectionWords,   \* a section within these is one span
    WindowWords,    \* the words of a window of a longer one
    OverlapWords,   \* what two windows share
    OverlapCap,     \* and the most they share
    MinWords,       \* a section below these joins the next
    MaxBytes        \* the bytes of any fragment

WordsOf(lines, first, last) ==
    FoldLeft(LAMBDA n, line : n + line.words, 0, SubSeq(lines, first, last))

BytesOf(lines, first, last) ==
    FoldLeft(LAMBDA n, line : n + line.bytes, 0, SubSeq(lines, first, last))

\* The lines that start a section; the text before the first one is the lead.
Sections(lines) ==
    LET starts == {1} \union {i \in DOMAIN lines : lines[i].heads}
        order == SetToSortSeq(starts, <) IN
    [i \in DOMAIN order |->
        [first |-> order[i], last |-> IF i = Len(order) THEN Len(lines) ELSE order[i + 1] - 1]]

\* A section under the minimum joins the next one; a short last one the previous.
Joined(lines, sections) ==
    LET short(s) == WordsOf(lines, s.first, s.last) < MinWords
        step(done, s) ==
            LET section == [s EXCEPT !.first = IF done.pending = 0 THEN @ ELSE done.pending] IN
            IF short(section) THEN [done EXCEPT !.pending = section.first]
            ELSE [kept |-> Append(done.kept, section), pending |-> 0]
        all == FoldLeft(step, [kept |-> <<>>, pending |-> 0], sections) IN
    IF all.pending = 0 THEN all.kept
    ELSE IF all.kept = <<>> THEN <<[first |-> all.pending, last |-> Len(lines)]>>
    ELSE [all.kept EXCEPT ![Len(all.kept)].last = Len(lines)]

\* The last line of a window that begins at a line: as many as fit, the first one
\* always, and back to the end of a paragraph that fills most of it.
Fits(lines, begin, stop) ==
    /\ WordsOf(lines, begin, stop) <= WindowWords
    /\ BytesOf(lines, begin, stop) <= MaxBytes

Full(lines, begin, last) ==
    Max({begin} \union {i \in begin..last : \A j \in begin..i : j = begin \/ Fits(lines, begin, j)})

Stop(lines, begin, last) ==
    LET full == Full(lines, begin, last)
        blanks == {i \in (begin + 1)..full : lines[i].words = 0}
        paragraph == Max(blanks) IN
    IF /\ full < last
       /\ blanks # {}
       /\ 10 * WordsOf(lines, begin, paragraph - 1) >= 6 * WindowWords
    THEN paragraph ELSE full

\* SLIP of NextBegin: an overlap beside which the next line does not fit.
NextBeginAnyway(lines, begin, stop) ==
    LET words == Min({OverlapCap, WordsOf(lines, begin, stop) \div 4})
        shares(i) == \A j \in i..stop :
                        /\ WordsOf(lines, j + 1, stop) < OverlapWords
                        /\ WordsOf(lines, j, stop) <= words IN
    Min({stop + 1} \union {i \in (begin + 1)..stop : shares(i)})

\* SLIP of NextBegin: an overlap of any number of bytes.
NextBeginByWords(lines, begin, stop) ==
    LET words == Min({OverlapCap, WordsOf(lines, begin, stop) \div 4})
        shares(i) == \A j \in i..stop :
                        /\ WordsOf(lines, j + 1, stop) < OverlapWords
                        /\ WordsOf(lines, j, stop) <= words
        back == Min({stop + 1} \union {i \in (begin + 1)..stop : shares(i)}) IN
    IF Fits(lines, back, stop + 1) THEN back ELSE stop + 1

\* Where the next window begins: within the words and the quarter of this one that
\* two may share, and only if the line after this one still fits beside them.
NextBegin(lines, begin, stop) ==
    LET words == Min({OverlapCap, WordsOf(lines, begin, stop) \div 4})
        bytes == BytesOf(lines, begin, stop) \div 4
        shares(i) == \A j \in i..stop :
                        /\ WordsOf(lines, j + 1, stop) < OverlapWords
                        /\ WordsOf(lines, j, stop) <= words
                        /\ BytesOf(lines, j, stop) <= bytes
        back == Min({stop + 1} \union {i \in (begin + 1)..stop : shares(i)}) IN
    IF Fits(lines, back, stop + 1) THEN back ELSE stop + 1

\* The windows of a section that is too long to be one span.
Windows(lines, section) ==
    LET last == section.last
        from[begin \in section.first..last] ==
            LET stop == Stop(lines, begin, last) IN
            <<<<begin, stop>>>> \o (IF stop = last THEN <<>> ELSE from[NextBegin(lines, begin, stop)]) IN
    IF /\ WordsOf(lines, section.first, last) <= SectionWords
       /\ BytesOf(lines, section.first, last) <= MaxBytes
    THEN <<<<section.first, last>>>>
    ELSE from[section.first]

Spans(lines) ==
    IF lines = <<>> THEN <<>>
    ELSE IF /\ WordsOf(lines, 1, Len(lines)) <= ShortWords
            /\ BytesOf(lines, 1, Len(lines)) <= MaxBytes
    THEN <<<<1, Len(lines)>>>>
    ELSE FlattenSeq([i \in DOMAIN Joined(lines, Sections(lines)) |->
                        Windows(lines, Joined(lines, Sections(lines))[i])])

-----------------------------------------------------------------------------
(* What the cut of a body keeps.                                           *)

\* "consecutive spans overlap or touch: the fragments reassemble the body", and
\* no window lies inside the one before it (fragments.py:6-7, 250).
Reassembles(lines, spans) ==
    /\ lines # <<>> => Head(spans)[1] = 1 /\ Last(spans)[2] = Len(lines)
    /\ \A i \in 1..(Len(spans) - 1) :
          /\ spans[i + 1][1] <= spans[i][2] + 1
          /\ spans[i][1] < spans[i + 1][1]
          /\ spans[i][2] < spans[i + 1][2]

\* Every fragment is within the bytes the embedding model is sure to take, and
\* two share no more than a quarter of the first.
Bounded(lines, spans) ==
    /\ \A i \in DOMAIN spans : BytesOf(lines, spans[i][1], spans[i][2]) <= MaxBytes
    /\ \A i \in 1..(Len(spans) - 1) :
          /\ 4 * BytesOf(lines, spans[i + 1][1], spans[i][2]) <= BytesOf(lines, spans[i][1], spans[i][2])
          /\ 4 * WordsOf(lines, spans[i + 1][1], spans[i][2]) <= WordsOf(lines, spans[i][1], spans[i][2])
=============================================================================
