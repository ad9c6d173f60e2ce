------------------------------- MODULE Chunker -------------------------------
(***************************************************************************)
(* How a text becomes chunks, chunker.py, and the numbers that name them,  *)
(* as rag.ingest, rag.index_concepts_for_doc and the attachment of a       *)
(* document use them.                                                      *)
(*                                                                         *)
(* A text is a sequence of blocks with a blank line between them.  Of a    *)
(* block only its kind and its length are kept, and a piece of text is a   *)
(* span of a block, so that what a chunk holds, in which order and under   *)
(* which anchor can be told.                                               *)
(***************************************************************************)
EXTENDS Naturals, Sequences, FiniteSets, SequencesExt

CONSTANTS
  Texts,       \* the texts considered
  MinLen,      \* MIN_CHUNK_CHARS
  MaxLen,      \* MAX_CHUNK_CHARS
  WindowSize,  \* FALLBACK_CHUNK_SIZE
  Overlap,     \* FALLBACK_CHUNK_OVERLAP
  SepLen,      \* the length of a blank line
  Base,        \* numbers from here on have two digits
  MaxDropped   \* bound: chunks of a text that cannot be embedded

Block == [kind: {"heading", "clause", "paragraph"}, len: Nat \ {0}]

ASSUME ChunkerAssumption ==
  /\ Texts \subseteq Seq(Block)
  /\ MinLen \in Nat \ {0} /\ MaxLen \in Nat /\ MinLen <= MaxLen
  /\ WindowSize \in 1 .. MaxLen /\ Overlap \in 0 .. WindowSize - 1
  /\ SepLen \in Nat /\ Base \in Nat \ {0, 1} /\ MaxDropped \in Nat

VARIABLES
  text,      \* the text of a document
  chunks,    \* its chunks
  stored,    \* the chunks in the vector store: the k-th has the id k - 1
  concept,   \* what the graph holds: the concepts of a chunk, under an id
  copy       \* the chunks an attachment put together again

vars == <<text, chunks, stored, concept, copy>>

-----------------------------------------------------------------------------
(* Pieces of text.                                                         *)

(* The characters from + 1 .. to of a block.                               *)
Span(block, from, to) == [block |-> block, from |-> from, to |-> to]

(* The length of what a body holds of the blocks of B.                     *)
LengthIn(body, B) ==
  LET upto[k \in 0 .. Len(body)] ==
        IF k = 0 THEN 0
        ELSE IF body[k].block \notin B THEN upto[k - 1]
        ELSE upto[k - 1] + (IF upto[k - 1] = 0 THEN 0 ELSE SepLen) + (body[k].to - body[k].from)
  IN  upto[Len(body)]

Length(body) == LengthIn(body, Nat)

Section(anchor, body) == [anchor |-> anchor, body |-> body]

Whole(blocks, b) == Span(b, 0, blocks[b].len)

-----------------------------------------------------------------------------
(* Sections.  An anchor is the number of the block that is the heading,    *)
(* and 0 is no anchor.  <<>> is None.                                      *)

(* A section without a body is dropped.                                    *)
Closed(acc) == IF acc.buffer.body = <<>> THEN acc.done ELSE Append(acc.done, acc.buffer)

(* _split_by_headings and _split_by_numbered_clauses, up to a block: what  *)
(* comes before the first mark is a section without an anchor.             *)
SplitSoFar(blocks, kind) ==
  LET upto[b \in 0 .. Len(blocks)] ==
        IF b = 0 THEN [done |-> <<>>, buffer |-> Section(0, <<>>)]
        ELSE IF blocks[b].kind = kind
        THEN [done |-> Closed(upto[b - 1]), buffer |-> Section(b, <<>>)]
        ELSE [upto[b - 1] EXCEPT !.buffer.body = Append(@, Whole(blocks, b))]
  IN  upto

SplitAt(blocks, kind) == Closed(SplitSoFar(blocks, kind)[Len(blocks)])

Count(blocks, kind) == Len(SelectSeq(blocks, LAMBDA b : b.kind = kind))

SplitByHeadings(blocks) ==
  IF Count(blocks, "heading") = 0 THEN <<>> ELSE SplitAt(blocks, "heading")

SplitByClauses(blocks) ==
  IF Count(blocks, "clause") < 3 THEN <<>> ELSE SplitAt(blocks, "clause")

SplitByParagraphs(blocks) ==
  IF Len(blocks) < 2 THEN <<>>
  ELSE [b \in DOMAIN blocks |-> Section(0, <<Whole(blocks, b)>>)]

Sections(blocks) ==
  IF SplitByHeadings(blocks) # <<>> THEN SplitByHeadings(blocks)
  ELSE IF SplitByClauses(blocks) # <<>> THEN SplitByClauses(blocks)
  ELSE SplitByParagraphs(blocks)

-----------------------------------------------------------------------------
(* _fixed_window: the starts are a step apart as long as they lie in the   *)
(* text, so that the last window may lie inside the one before it.         *)
Windows(s, size) ==
  LET step == size - Overlap
      len == s.to - s.from
  IN  [k \in 1 .. (len + step - 1) \div step |->
         LET start == s.from + (k - 1) * step IN
         Span(s.block, start, IF start + size < s.to THEN start + size ELSE s.to)]

-----------------------------------------------------------------------------
(* _merge_short: a section that is too short waits for its successor,      *)
(* whose anchor the two get; a short tail goes to the last section.        *)

Joined(anchor, section) == IF section.anchor # 0 THEN section.anchor ELSE anchor

(* Mutant: what is left in the buffer at the end is dropped.               *)
TailDropped(done, buffer) == done

TailMerged(done, buffer) ==
  IF buffer.body = <<>> THEN done
  ELSE IF done = <<>> THEN <<buffer>>
  ELSE [done EXCEPT ![Len(done)].body = @ \o buffer.body]

(* A section behind what is done and what waits.                           *)
Merged(acc, section) ==
  LET both == Section(Joined(acc.buffer.anchor, section), acc.buffer.body \o section.body)
  IN  IF Length(both.body) < MinLen THEN [acc EXCEPT !.buffer = both]
      ELSE [done |-> Append(acc.done, both), buffer |-> Section(0, <<>>)]

MergedSoFar(sections) ==
  LET upto[k \in 0 .. Len(sections)] ==
        IF k = 0 THEN [done |-> <<>>, buffer |-> Section(0, <<>>)]
        ELSE Merged(upto[k - 1], sections[k])
  IN  upto

MergeShort(sections) ==
  LET end == MergedSoFar(sections)[Len(sections)] IN TailMerged(end.done, end.buffer)

-----------------------------------------------------------------------------
(* _split_long: a section that is too long is cut between paragraphs, and  *)
(* a paragraph that is still too long into windows.                        *)

(* The bodies made of as many paragraphs as fit.                           *)
WithSpan(bodies, s) ==
  LET candidate == Append(bodies[Len(bodies)], s) IN
  IF bodies[Len(bodies)] # <<>> /\ Length(candidate) > MaxLen THEN Append(bodies, <<s>>)
  ELSE [bodies EXCEPT ![Len(bodies)] = candidate]

PackedSoFar(body) ==
  LET upto[k \in 0 .. Len(body)] ==
        IF k = 0 THEN <<<<>>>> ELSE WithSpan(upto[k - 1], body[k])
  IN  upto

Packed(body) == PackedSoFar(body)[Len(body)]

Windowed(body) ==
  IF Length(body) <= MaxLen THEN <<body>>
  ELSE LET w == Windows(body[1], MaxLen) IN [k \in DOMAIN w |-> <<w[k]>>]

Chunk(anchor, part, of, body) == [anchor |-> anchor, part |-> part, of |-> of, body |-> body]

SplitLong(section) ==
  LET pieces == IF Length(section.body) <= MaxLen THEN <<section.body>>
                ELSE FlattenSeq([k \in DOMAIN Packed(section.body) |->
                                   Windowed(Packed(section.body)[k])])
  IN  [k \in DOMAIN pieces |-> Chunk(section.anchor, k, Len(pieces), pieces[k])]

(* _finalize. *)
Finalize(sections) ==
  LET merged == MergeShort(sections) IN FlattenSeq([k \in DOMAIN merged |-> SplitLong(merged[k])])

(* chunk_structured.  A text without structure is a single block.          *)
ChunkStructured(blocks) ==
  IF blocks = <<>> THEN <<>>
  ELSE IF Sections(blocks) # <<>> THEN Finalize(Sections(blocks))
  ELSE LET w == Windows(Whole(blocks, 1), WindowSize)
       IN  [k \in DOMAIN w |-> Chunk(0, k, Len(w), <<w[k]>>)]

-----------------------------------------------------------------------------
(* The numbers of chunks.                                                  *)

(* The numbers 1 .. n that are in S, in their order.                       *)
InOrder(n, S) ==
  LET upto[k \in 0 .. n] ==
        IF k = 0 THEN <<>> ELSE IF k \in S THEN Append(upto[k - 1], k) ELSE upto[k - 1]
  IN  upto[n]

(* rag.ingest: chunks whose embedding fails are dropped, and the others    *)
(* numbered from 0.                                                        *)
Ingest(dropped) ==
  /\ chunks = <<>> /\ text # <<>>
  /\ chunks' = ChunkStructured(text)
  /\ dropped \subseteq DOMAIN chunks'
  /\ stored' = InOrder(Len(chunks'), DOMAIN chunks' \ dropped)
  /\ UNCHANGED <<text, concept, copy>>

(* The concepts of the chunks that were kept, under their ids.             *)
IndexInline ==
  /\ stored # <<>> /\ concept = {}
  /\ concept' = {<<k - 1, stored[k]>> : k \in DOMAIN stored}
  /\ UNCHANGED <<text, chunks, stored, copy>>

(* Mutant: the ids of the concepts count from 1.                           *)
IdsFromOne(n) == n

IdInText(n) == n - 1

(* rag.index_concepts_for_doc chunks the text once more, and numbers every *)
(* chunk.                                                                  *)
IndexBehind ==
  /\ chunks # <<>> /\ concept = {}
  /\ concept' = {<<IdInText(n), n>> : n \in DOMAIN ChunkStructured(text)}
  /\ UNCHANGED <<text, chunks, stored, copy>>

(* The least power of Base above an id has as many zeros as the id digits. *)
Power(id) ==
  LET least[k \in 0 .. id] ==
        IF k = 0 THEN Base ELSE IF k < least[k - 1] THEN least[k - 1] ELSE Base * least[k - 1]
  IN  least[id]

(* Ids are compared as text, like the fractions that have the ids behind   *)
(* the point; of 1 and 10 the shorter comes first.                         *)
TextBefore(i, j) ==
  \/ i * Power(j) < j * Power(i)
  \/ i * Power(j) = j * Power(i) /\ i < j

Before(j) == {k \in DOMAIN stored : TextBefore(k - 1, j - 1)}

(* The attachment of a document to a conversation joins the chunks that    *)
(* are stored, sorted by id.                                               *)
Attach ==
  /\ stored # <<>> /\ copy = <<>>
  /\ copy' = [k \in DOMAIN stored |->
                stored[CHOOSE j \in DOMAIN stored : Cardinality(Before(j)) = k - 1]]
  /\ UNCHANGED <<text, chunks, stored, concept>>

Init ==
  /\ text \in Texts
  /\ chunks = <<>> /\ stored = <<>> /\ concept = {} /\ copy = <<>>

Next ==
  \/ \E dropped \in {D \in SUBSET (DOMAIN ChunkStructured(text)) : Cardinality(D) <= MaxDropped} :
       Ingest(dropped)
  \/ IndexInline \/ IndexBehind \/ Attach

Spec == Init /\ [][Next]_vars

-----------------------------------------------------------------------------
(* No chunk is longer than MAX_CHUNK_CHARS, and one is shorter than        *)
(* MIN_CHUNK_CHARS only if it is the only chunk or a part of a section, or *)
(* of a text, that was too long.                                           *)
EnvelopeHolds ==
  \A k \in DOMAIN chunks :
    LET len == Length(chunks[k].body) IN
    /\ 0 < len /\ len <= MaxLen
    /\ len >= MinLen \/ Len(chunks) = 1 \/ chunks[k].of > 1

(* The blocks that are marks of sections: the text of the others is body.  *)
Marks ==
  LET kind == IF SplitByHeadings(text) # <<>> THEN {"heading"}
              ELSE IF SplitByClauses(text) # <<>> THEN {"clause"} ELSE {}
  IN  {b \in DOMAIN text : text[b].kind \in kind}

Spans == FlattenSeq([k \in DOMAIN chunks |-> chunks[k].body])

(* Every character of every body is in a chunk, and the chunks follow the  *)
(* text: a span begins where the one before it ends, or, in a window,      *)
(* before.                                                                 *)
Bodies == DOMAIN text \ Marks

NothingLost ==
  LET s == Spans IN
  chunks # <<>> =>
    /\ s # <<>> /\ \A j \in DOMAIN s : s[j].block \in Bodies
    /\ ~\E b \in Bodies : b < s[1].block \/ s[Len(s)].block < b
    /\ s[1].from = 0 /\ s[Len(s)].to = text[s[Len(s)].block].len
    /\ \A j \in 1 .. Len(s) - 1 :
         \/ /\ s[j + 1].block = s[j].block
            /\ s[j].from < s[j + 1].from /\ s[j + 1].from <= s[j].to
            /\ s[j].to <= s[j + 1].to
         \/ /\ s[j].to = text[s[j].block].len /\ s[j + 1].from = 0
            /\ s[j].block < s[j + 1].block
            /\ ~\E b \in Bodies : s[j].block < b /\ b < s[j + 1].block

(* The section a block of the text belongs to.                             *)
SectionOf(b) == LET before == {m \in Marks : m <= b} IN IF before = {} THEN 0 ELSE Max(before)

(* What a chunk holds of other sections than the one it cites is less than *)
(* MIN_CHUNK_CHARS of text before that section, and less after it; and the *)
(* parts of a section are numbered through.                                *)
CitesItsSection ==
  \A k \in DOMAIN chunks :
    /\ LengthIn(chunks[k].body, {b \in DOMAIN text : SectionOf(b) < chunks[k].anchor}) < MinLen
    /\ LengthIn(chunks[k].body, {b \in DOMAIN text : SectionOf(b) > chunks[k].anchor}) < MinLen
    /\ chunks[k].part > 1 => k > 1 /\ chunks[k - 1].part = chunks[k].part - 1
                                 /\ chunks[k - 1].anchor = chunks[k].anchor

ChunksKeepTheText == EnvelopeHolds /\ NothingLost /\ CitesItsSection

(* The concepts under an id are those of the chunk that has the id, unless *)
(* a chunk up to it could not be embedded; and an attached copy holds the  *)
(* chunks in their order, unless there are more than there are numbers of  *)
(* one digit.                                                              *)
IdsNameTheirChunks ==
  /\ \A link \in concept :
       link[1] + 1 \in DOMAIN stored /\ stored[link[1] + 1] # link[2] =>
         \E m \in 1 .. link[2] : \A k \in DOMAIN stored : stored[k] # m
  /\ ToSet(copy) \subseteq ToSet(stored)
  /\ copy # <<>> => Len(copy) = Len(stored) /\ (Len(stored) <= Base => copy = stored)
=============================================================================
