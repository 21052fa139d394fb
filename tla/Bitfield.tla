------------------------------ MODULE Bitfield ------------------------------
(***************************************************************************)
(* The sparse presence map of crates/storage/src/bitfield.rs: pages of     *)
(* words of bits, made when a bit in them is set first.  A word is the set *)
(* of its bit positions, so a mask is an interval, |= a union, &= ! a      *)
(* difference, trailing_zeros a minimum.  Indices stay far below 2^64.     *)
(***************************************************************************)
EXTENDS Naturals, Sequences, FiniteSets, FiniteSetsExt, SequencesExt

CONSTANTS
    WordBits,   \* 64 in the code
    PageWords,  \* WORDS_PER_PAGE
    Indices,    \* the bit indices the calls use: an interval from 0
    None

VARIABLES
    pages,      \* BTreeMap from page index to page
    bits        \* history: the indices whose last write was true

vars == <<pages, bits>>

PageBits == WordBits * PageWords
Positions == 0 .. WordBits - 1
Words == 0 .. PageWords - 1
ZeroPage == [w \in Words |-> {}]
PageOf(ps, p) == IF p \in DOMAIN ps THEN ps[p] ELSE ZeroPage

\* locate
Locate(i) == [page |-> i \div PageBits,
              word |-> (i % PageBits) \div WordBits,
              bit  |-> (i % PageBits) % WordBits]

\* word_mask
WordMask(lo, hi) == lo .. hi - 1

\* The mask the loops of page_set_range and page_count_set use in word w, for w in LoopWords.
MaskIn(w, lo, hi) ==
    LET b == IF w = lo \div WordBits THEN lo ELSE w * WordBits
        top == Min({hi, (w + 1) * WordBits})
    IN WordMask(b % WordBits, top - w * WordBits)
LoopWords(lo, hi) == IF lo < hi THEN lo \div WordBits .. (hi - 1) \div WordBits ELSE {}

\* page_set_range
PageSetRange(page, lo, hi, value) ==
    [w \in Words |-> IF w \notin LoopWords(lo, hi) THEN page[w]
                     ELSE IF value THEN page[w] \cup MaskIn(w, lo, hi)
                     ELSE page[w] \ MaskIn(w, lo, hi)]

\* page_count_set
PageCountSet(page, lo, hi) ==
    MapThenSumSet(LAMBDA w : Cardinality(page[w] \cap MaskIn(w, lo, hi)), LoopWords(lo, hi))

Equal(word, value) == IF value THEN word ELSE Positions \ word

\* page_find_first
PageFindFirst(page, value, lo) ==
    LET first == lo \div WordBits
        masked(w) == Equal(page[w], value) \ (IF w = first THEN 0 .. (lo % WordBits) - 1 ELSE {})
        hits == {w \in first .. PageWords - 1 : masked(w) # {}}
    IN IF hits = {} THEN None ELSE Min(hits) * WordBits + Min(masked(Min(hits)))

\* page_find_last
PageFindLast(page, value, hi) ==
    LET masked(w) == IF w * WordBits + WordBits - 1 <= hi THEN Equal(page[w], value)
                     ELSE Equal(page[w], value) \cap WordMask(0, (hi % WordBits) + 1)
        hits == {w \in 0 .. hi \div WordBits : masked(w) # {}}
    IN IF hits = {} THEN None ELSE Max(hits) * WordBits + Max(masked(Max(hits)))

-----------------------------------------------------------------------------
\* The chunk of [start, end) in page p, page-local: the loops of set_range and count.
ChunkPages(start, end) == IF start < end THEN start \div PageBits .. (end - 1) \div PageBits ELSE {}
ChunkFrom(p, start) == IF p = start \div PageBits THEN start - p * PageBits ELSE 0
ChunkEnd(p, end) == Min({end, p * PageBits + PageBits}) - p * PageBits

Get(i) == LET at == Locate(i) IN
          at.page \in DOMAIN pages /\ at.bit \in pages[at.page][at.word]

Count(start, length, value) ==
    LET end == start + length
        InPage(p) ==
            LET range == ChunkEnd(p, end) - ChunkFrom(p, start)
                set == IF p \in DOMAIN pages
                       THEN PageCountSet(pages[p], ChunkFrom(p, start), ChunkEnd(p, end)) ELSE 0
            IN IF value THEN set ELSE range - set
    IN MapThenSumSet(InPage, ChunkPages(start, end))

\* find_first, first_set, first_unset: the page after the last one is missing, which ends the loop.
FindFirst(value, position) ==
    LET start == position \div PageBits
        lo(p) == IF p = start THEN position % PageBits ELSE 0
        In(p) == IF p \in DOMAIN pages THEN PageFindFirst(pages[p], value, lo(p))
                 ELSE IF value THEN None ELSE lo(p)
        hits == {p \in start .. Max(DOMAIN pages \cup {start}) + 1 : In(p) # None}
    IN IF hits = {} THEN None ELSE Min(hits) * PageBits + In(Min(hits))

\* Mutant: an earlier page is searched up to the offset of the position only.
FindLastSameOffset(value, position) ==
    LET start == position \div PageBits
        In(p) == IF p \in DOMAIN pages THEN PageFindLast(pages[p], value, position % PageBits)
                 ELSE IF value THEN None ELSE position % PageBits
        hits == {p \in 0 .. start : In(p) # None}
    IN IF hits = {} THEN None ELSE Max(hits) * PageBits + In(Max(hits))

\* find_last, last_set, last_unset
FindLast(value, position) ==
    LET start == position \div PageBits
        hi(p) == IF p = start THEN position % PageBits ELSE PageBits - 1
        In(p) == IF p \in DOMAIN pages THEN PageFindLast(pages[p], value, hi(p))
                 ELSE IF value THEN None ELSE hi(p)
        hits == {p \in 0 .. start : In(p) # None}
    IN IF hits = {} THEN None ELSE Max(hits) * PageBits + In(Max(hits))

-----------------------------------------------------------------------------
\* serialize, one cell per number: how many pages have a bit set, then index and words of each.
Serialize(ps) ==
    LET live == SetToSortSeq({p \in DOMAIN ps : \E w \in Words : ps[p][w] # {}}, <)
        Cells(p) == <<p>> \o [i \in 1 .. PageWords |-> ps[p][i - 1]]
    IN <<Len(live)>> \o FlattenSeq([i \in 1 .. Len(live) |-> Cells(live[i])])

\* The pages of a buffer that is long enough.
PagesIn(cells) ==
    LET at(n) == 1 + (n - 1) * (1 + PageWords)
    IN [p \in {cells[at(n) + 1] : n \in 1 .. cells[1]} |->
           LET n == Max({n \in 1 .. cells[1] : cells[at(n) + 1] = p})
           IN [w \in Words |-> cells[at(n) + 2 + w]]]

\* deserialize: None when a page is cut short and when cells are left over.
Deserialize(cells) ==
    IF cells = <<>> \/ Len(cells) # 1 + cells[1] * (1 + PageWords) THEN None ELSE PagesIn(cells)

-----------------------------------------------------------------------------
Init == pages = [p \in {} |-> ZeroPage] /\ bits = {}

Set(i, value) ==
    LET at == Locate(i)
        page == PageOf(pages, at.page)
        word == IF value THEN page[at.word] \cup {at.bit} ELSE page[at.word] \ {at.bit}
    IN /\ pages' = [p \in DOMAIN pages \cup (IF value THEN {at.page} ELSE {}) |->
                       IF p = at.page THEN [page EXCEPT ![at.word] = word] ELSE pages[p]]
       /\ bits' = IF value THEN bits \cup {i} ELSE bits \ {i}

SetRange(start, end, value) ==
    LET chunks == ChunkPages(start, end)
    IN /\ pages' = [p \in DOMAIN pages \cup (IF value THEN chunks ELSE {}) |->
                       IF p \notin chunks THEN pages[p]
                       ELSE PageSetRange(PageOf(pages, p), ChunkFrom(p, start), ChunkEnd(p, end), value)]
       /\ bits' = IF value THEN bits \cup (start .. end - 1) ELSE bits \ (start .. end - 1)

\* A core is persisted and opened again.
Reload == pages' = Deserialize(Serialize(pages)) /\ UNCHANGED bits

Next == \/ \E i \in Indices, value \in BOOLEAN : Set(i, value)
        \/ \E start, end \in Indices, value \in BOOLEAN : SetRange(start, end, value)
        \/ Reload
-----------------------------------------------------------------------------
\* The largest (smallest) index at or below (above) position that has the value, by definition.
With(value) == IF value THEN bits ELSE (0 .. Max(Indices) + PageBits) \ bits
FirstOf(S) == IF S = {} THEN None ELSE Min(S)
LastOf(S) == IF S = {} THEN None ELSE Max(S)

\* get, count, find_first and find_last over the paged words answer as over the plain set of
\* the indices last set to true, at every position and across word and page boundaries, with
\* pages missing, cleared or full, and after any number of saves and loads in between
\* (Bitfield::get, count, find_first, find_last, serialize, deserialize).
QueriesAgree ==
    /\ \A i \in Indices : Get(i) = (i \in bits)
    /\ \A i \in Indices, value \in BOOLEAN :
         /\ FindFirst(value, i) = FirstOf({j \in With(value) : j >= i})
         /\ FindLast(value, i) = LastOf({j \in With(value) : j <= i})
         /\ \A n \in Indices : Count(i, n, value) =
              IF value THEN Cardinality(bits \cap (i .. i + n - 1))
              ELSE n - Cardinality(bits \cap (i .. i + n - 1))
=============================================================================
