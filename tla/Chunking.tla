------------------------------ MODULE Chunking ------------------------------
(***************************************************************************)
(* ChunkText: how a document is cut into the passages that are indexed.    *)
(*                                                                         *)
(* The machine is the loop over the lines: a step consumes a line, or adds *)
(* one unit (a line, or a sentence of an oversized one) to the buffer.  A  *)
(* document is a sequence of lines, known by their length in runes and by  *)
(* what headingLevel and the fence test see in them; a rune has no other   *)
(* identity.  Line i of the document is the unit [line |-> i, seg |-> 1]   *)
(* and, when it is longer than HardSplit, one unit per sentence.           *)
(***************************************************************************)
EXTENDS Integers, Sequences, FiniteSets, SequencesExt, FiniteSetsExt

CONSTANTS Line,        \* [level, fence, len, segs]: see LineRecords
          MaxLines,    \* lines of a document
          MaxChunk,    \* maxChunkRunes
          Overlap,     \* overlapRunes
          HardSplit    \* hardSplitRunes

\* The sum of a sequence of numbers.
Total(s) == LET upTo[n \in 0..Len(s)] == IF n = 0 THEN 0 ELSE upTo[n - 1] + s[n]
            IN upTo[Len(s)]

\* level: headingLevel of the line, 0 for ordinary text; len: its length; segs:
\* the lengths of its sentences, without the blanks between them.  A blank line
\* has none and is neither a heading nor a fence.
LineRecords ==
  {l \in [level : 0..3, fence : BOOLEAN, len : Nat, segs : Seq(Nat \ {0})] :
     /\ Total(l.segs) <= l.len
     /\ l.segs = <<>> => l.len = 0 /\ l.level = 0 /\ ~l.fence}

ASSUME ChunkingAssumption ==
  /\ Line \subseteq LineRecords
  /\ MaxChunk \in Nat /\ Overlap \in Nat \ {0} /\ HardSplit \in Nat
  /\ Overlap <= HardSplit
  /\ MaxLines \in Nat

VARIABLES text,      \* the document
          pos,       \* lines consumed
          offset,    \* runes consumed, a newline per line included
          inFence,   \* between two ``` lines
          path,      \* the breadcrumb: the lines of the open headings
          todo,      \* units of the current line that are not added yet
          buf,       \* the chunk that is being filled: carry, the runes of
                     \* overlap it begins with; parts, its units; runes; start
          chunks     \* what has been emitted
chunkingVars == <<text, pos, offset, inFence, path, todo, buf, chunks>>

Blank(l) == l.segs = <<>>
MinOf(a, b) == IF a < b THEN a ELSE b

Whole(t, i) == [line |-> i, seg |-> 1, len |-> t[i].len]

\* The units of line i: the line itself, or its sentences (sentenceSplit).
Units(t, i) ==
  IF t[i].len > HardSplit
    THEN [s \in DOMAIN t[i].segs |->
            [line |-> i, seg |-> s, len |-> t[i].segs[s]]]
    ELSE <<Whole(t, i)>>

Unfilled(start) == [carry |-> 0, parts |-> <<>>, runes |-> 0, start |-> start]

ChunkingInit ==
  /\ text \in UNION {[1..n -> Line] : n \in 0..MaxLines}
  /\ pos = 0 /\ offset = 0 /\ inFence = FALSE /\ path = <<>> /\ todo = <<>>
  /\ buf = Unfilled(0)
  /\ chunks = <<>>

-----------------------------------------------------------------------------
\* flush: the buffer becomes a chunk, its tail the beginning of the next one.
\* The offset already includes the line that made it necessary.
Empty(b) == b.carry = 0 /\ b.parts = <<>>
Emit(b, end) ==
  IF Empty(b) THEN chunks
  ELSE Append(chunks, [carry |-> b.carry, parts |-> b.parts, runes |-> b.runes,
                       path |-> path, start |-> b.start, end |-> end])
Carry(b) == MinOf(b.runes, Overlap)
Flushed(b, end) ==
  IF Empty(b) THEN b
  ELSE [carry |-> Carry(b), parts |-> <<>>, runes |-> Carry(b),
        start |-> end - Carry(b)]

\* The joining newline.
Sep(b) == IF Empty(b) THEN 0 ELSE 1
With(b, u) == [b EXCEPT !.parts = Append(@, u), !.runes = @ + Sep(b) + u.len]
Overflows(b, u) == ~Empty(b) /\ b.runes + Sep(b) + u.len > MaxChunk

(* Plausible bugs, each the twin of a definition below; see UploadQueue.   *)

\* The unit that does not fit is forgotten when the buffer is flushed.
AddUnitDropping ==
  /\ todo # <<>>
  /\ LET u == Head(todo) IN
       \/ /\ ~Overflows(buf, u)
          /\ buf' = With(buf, u)
          /\ UNCHANGED chunks
       \/ /\ Overflows(buf, u)
          /\ chunks' = Emit(buf, offset - 1)
          /\ buf' = Flushed(buf, offset - 1)
  /\ todo' = Tail(todo)
  /\ UNCHANGED <<text, pos, offset, inFence, path>>

\* A heading leaves its predecessor of the same level in the breadcrumb.
CrumbsOffByOne(p, i) ==
  Append(SubSeq(p, 1, MinOf(Len(p), text[i].level)), i)

\* addUnit.
AddUnit ==
  /\ todo # <<>>
  /\ LET u == Head(todo) IN
       \/ /\ ~Overflows(buf, u)
          /\ buf' = With(buf, u)
          /\ UNCHANGED chunks
       \/ /\ Overflows(buf, u)
          /\ chunks' = Emit(buf, offset - 1)
          /\ buf' = With(Flushed(buf, offset - 1), u)
  /\ todo' = Tail(todo)
  /\ UNCHANGED <<text, pos, offset, inFence, path>>

\* A short numbered line before another one is an item of a list.
InList(i) == /\ text[i].level = 3 /\ i < Len(text)
             /\ ~Blank(text[i + 1]) /\ text[i + 1].level = 3
Heading(i) == text[i].level > 0 /\ ~inFence /\ ~InList(i)

\* The next line of the document, once the units of the one before are added.
Take ==
  /\ todo = <<>> /\ pos < Len(text)
  /\ pos' = pos + 1
  /\ offset' = offset + text[pos'].len + 1
  /\ UNCHANGED text

BlankLine ==
  /\ Take /\ Blank(text[pos'])
  /\ UNCHANGED <<inFence, path, todo, buf, chunks>>

FenceLine ==
  /\ Take /\ ~Blank(text[pos']) /\ text[pos'].fence
  /\ inFence' = ~inFence
  /\ todo' = <<Whole(text, pos')>>
  /\ UNCHANGED <<path, buf, chunks>>

TextLine ==
  /\ Take /\ ~Blank(text[pos']) /\ ~text[pos'].fence /\ ~Heading(pos')
  /\ todo' = Units(text, pos')
  /\ UNCHANGED <<inFence, path, buf, chunks>>

\* A heading ends the section: no overlap is carried over it, and it replaces
\* the part of the breadcrumb from its level on.
Crumbs(p, i) == Append(SubSeq(p, 1, MinOf(Len(p), text[i].level - 1)), i)

HeadingLine ==
  /\ Take /\ ~Blank(text[pos']) /\ ~text[pos'].fence /\ Heading(pos')
  /\ chunks' = Emit(buf, offset' - 1)
  /\ buf' = Unfilled(offset')
  /\ path' = Crumbs(path, pos')
  /\ UNCHANGED <<inFence, todo>>

\* The last flush.
Finish ==
  /\ todo = <<>> /\ pos = Len(text)
  /\ pos' = Len(text) + 1
  /\ chunks' = Emit(buf, offset - 1)
  /\ buf' = Flushed(buf, offset - 1)
  /\ UNCHANGED <<text, offset, inFence, path, todo>>

ChunkingNext ==
  AddUnit \/ BlankLine \/ FenceLine \/ TextLine \/ HeadingLine \/ Finish

ChunkingSpec == ChunkingInit /\ [][ChunkingNext]_chunkingVars

-----------------------------------------------------------------------------
(* What the text says, without the loop.                                   *)

Fences(i) == {j \in 1..i : text[j].fence}
Fenced(i) == Cardinality(Fences(i - 1)) % 2 = 1
Heads == {i \in DOMAIN text : /\ text[i].level > 0 /\ ~text[i].fence
                              /\ ~Blank(text[i]) /\ ~Fenced(i) /\ ~InList(i)}
Read == 1..MinOf(pos, Len(text))
Spoken == {i \in Read : ~Blank(text[i]) /\ i \notin Heads}
Content ==
  UNION {ToSet(IF text[i].fence THEN <<Whole(text, i)>> ELSE Units(text, i)) :
           i \in Spoken}

Before(u, v) == \/ u.line < v.line
                \/ u.line = v.line /\ u.seg < v.seg
InOrder(S, T) == \A u \in S, v \in T : Before(u, v)
Ascending(s) == \A i, j \in DOMAIN s : i < j => Before(s[i], s[j])

\* The units of chunk k, the buffer behind the last chunk.
Parts(k) == IF k \in DOMAIN chunks THEN chunks[k].parts ELSE buf.parts
Slots == 1..(Len(chunks) + 1)

(* Every line that is not a heading, code that looks like one and items of *)
(* a numbered list included, is in the chunks, once and in its place, with *)
(* the sentences of an oversized line in order ("segments stay             *)
(* contiguous"); whatever a heading or a full buffer cuts off is flushed.  *)
NothingIsLost ==
  /\ (UNION {ToSet(Parts(k)) : k \in Slots}) \cup ToSet(todo) = Content
  /\ Ascending(todo)
  /\ \A k \in Slots :
       /\ Ascending(Parts(k))
       /\ \A m \in Slots : k < m => InOrder(ToSet(Parts(k)), ToSet(Parts(m)))
       /\ InOrder(ToSet(Parts(k)), ToSet(todo))

(* "chunks flush before exceeding" (maxChunkRunes): a chunk is longer than *)
(* MaxChunk only when one unit and the overlap before it are, and there is *)
(* no chunk of nothing but overlap.                                        *)
SizesAreBounded ==
  \A k \in DOMAIN chunks :
    /\ chunks[k].parts # <<>>
    /\ chunks[k].runes > MaxChunk => Len(chunks[k].parts) = 1

\* The section a line is in: the last heading above it, 0 before the first.
LastHead(n) == Max({0} \cup {h \in Heads : h <= n})
Section(i) == LastHead(i - 1)
\* The headings that are open in section h, outermost first.
Open(h) == {g \in Heads : /\ g <= h
                          /\ \A m \in Heads : g < m /\ m <= h =>
                               text[g].level < text[m].level}
\* No level is skipped: every heading is at most one level below its parent.
Nested == \A h \in Heads : text[h].level <= Cardinality(Open(h))

\* A chunk is its overlap and its units, joined by newlines.
Joined(c) == c.carry + Total([i \in DOMAIN c.parts |-> c.parts[i].len])
               + (IF c.carry > 0 THEN Len(c.parts) ELSE Len(c.parts) - 1)

(* Chunks do not cross headings, the overlap is the tail of the chunk      *)
(* before and never reaches over a heading, and "heading breadcrumbs in    *)
(* TitlePath" are the headings that are open there.  The last holds where  *)
(* no level is skipped: sections that begin with "###" at the top come out *)
(* as one another's children.                                              *)
SectionsAreKept ==
  \A k \in DOMAIN chunks :
    LET c == chunks[k]
        s == Section(Head(c.parts).line)
        carried == k > 1 /\ Section(Last(chunks[k - 1].parts).line) = s
    IN /\ \A u \in ToSet(c.parts) : Section(u.line) = s
       /\ c.carry = IF carried THEN Carry(chunks[k - 1]) ELSE 0
       /\ c.runes = Joined(c)
       /\ Nested => /\ ToSet(c.path) = Open(s)
                    /\ \A i, j \in DOMAIN c.path : i < j => c.path[i] < c.path[j]
       /\ Len(c.path) <= 3
       /\ s # 0 => Last(c.path) = s

(* CharStart and CharEnd are positions of the text.  They are not the ends *)
(* of the chunk's own text: the offset at a flush already includes the line*)
(* that made it necessary.                                                 *)
RangesAreInText ==
  \A k \in DOMAIN chunks :
    /\ 0 <= chunks[k].start /\ chunks[k].start <= chunks[k].end
    /\ chunks[k].end < offset
    /\ k > 1 => chunks[k - 1].end <= chunks[k].end

Chunked == SizesAreBounded /\ SectionsAreKept /\ RangesAreInText

(* What makes these inductive: what the loop's variables say of the lines  *)
(* that are read, and where the next chunk stands.                         *)
Unit == [line : Nat \ {0}, seg : Nat \ {0}, len : Nat \ {0}]
ChunkingTypeOK ==
  /\ text \in Seq(Line) /\ pos \in 0..(Len(text) + 1) /\ offset \in Nat
  /\ inFence \in BOOLEAN /\ path \in Seq(Nat) /\ todo \in Seq(Unit)
  /\ buf \in [carry : Nat, parts : Seq(Unit), runes : Nat, start : Int]
  /\ chunks \in Seq([carry : Nat, parts : Seq(Unit), runes : Nat,
                     path : Seq(Nat), start : Int, end : Int])
LineIsRead ==
  /\ pos <= Len(text) => inFence = Fenced(pos + 1)
  /\ todo # <<>> => /\ pos \in 1..Len(text) /\ pos \notin Heads
                    /\ \A u \in ToSet(todo) : u.line = pos
PathIsOpen ==
  LET s == LastHead(pos)
  IN /\ Len(path) <= 3
     /\ IF s = 0 THEN path = <<>> ELSE path # <<>> /\ Last(path) = s
     /\ Nested => /\ ToSet(path) = Open(s)
                  /\ \A i, j \in DOMAIN path : i < j => path[i] < path[j]
                  /\ \A i \in DOMAIN path : text[path[i]].level = i
BufferIsOpen ==
  LET s == LastHead(pos)
      carried == chunks # <<>> /\ Section(Last(Last(chunks).parts).line) = s
  IN /\ \A u \in ToSet(buf.parts) : Section(u.line) = s
     /\ buf.carry = IF carried THEN Carry(Last(chunks)) ELSE 0
     /\ buf.runes = IF Empty(buf) THEN 0 ELSE Joined(buf)
     /\ buf.runes > MaxChunk => Len(buf.parts) <= 1
     /\ buf.parts = <<>> => buf.carry = 0 \/ pos > Len(text)
(* The overlap is part of the text: a line that is cut into sentences is   *)
(* longer than it; without one, nothing is counted twice.                  *)
BufferIsInText ==
  /\ 0 <= buf.start /\ buf.start <= offset
  /\ ~Empty(buf) \/ todo # <<>> => buf.start < offset
  /\ offset <= Overlap =>
       /\ ~Empty(buf) => buf.runes < offset
       /\ todo # <<>> => /\ Len(todo) = 1
                         /\ buf.runes + Sep(buf) + Head(todo).len < offset
ChunkingInv ==
  /\ ChunkingTypeOK /\ LineIsRead /\ PathIsOpen /\ BufferIsOpen /\ BufferIsInText
  /\ NothingIsLost /\ Chunked
=============================================================================
