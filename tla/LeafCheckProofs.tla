---------------------------- MODULE LeafCheckProofs ----------------------------
(***************************************************************************)
(* First the chunker, for every document and every ChunkerConfig: the      *)
(* chunks lie within their pages, and no passage of up to overlap + 1      *)
(* tokens is torn apart.                                                   *)
(*                                                                         *)
(* Then execute_check: LeafCheck implements Chunker, so that the document  *)
(* it searches is one the theorems about the chunker speak of; collapsing  *)
(* white space keeps a quote findable in any text around it; so the page   *)
(* found for a quote is real, and one is found for every short quote.      *)
(***************************************************************************)
EXTENDS LeafCheck, WellFoundedInduction, TLAPS

Short(i, j) == i <= j /\ j - i <= Overlap

\* Inside the loop over one page: every short passage that begins before the
\* next chunk is in a chunk already, and the next chunk will not be empty.
InLoop ==
    start > 0 =>
        /\ page \in 1..Len(pages)
        /\ MaxTokens < PageLen(page)
        /\ start < PageLen(page)
        /\ \A i, j \in 1..PageLen(page) :
              i <= start /\ Short(i, j) => Intact(page, i, j)

CInv == ChunkTypeOK /\ ChunksWithinPage /\ ShortPassagesIntact /\ InLoop

\* The sizes are numbers, and so is the length of every page.
LEMMA Sizes ==
    ASSUME ChunkTypeOK
    PROVE  /\ MaxTokens \in Nat \ {0}
           /\ Overlap \in Nat
           /\ Step = MaxTokens - Overlap
           /\ Len(pages) \in Nat
           /\ \A p \in 1..Len(pages) : PageLen(p) \in Nat
BY ChunkerAssumption DEF ChunkTypeOK, MaxTokens, Overlap, Step, PageLen

\* What appending one chunk does to the sequence.
LEMMA AppendChunk ==
    ASSUME ChunkTypeOK, NEW c, chunks' = Append(chunks, c)
    PROVE  /\ Len(chunks') = Len(chunks) + 1
           /\ Len(chunks) \in Nat
           /\ \A n \in 1..Len(chunks) : chunks'[n] = chunks[n]
           /\ chunks'[Len(chunks) + 1] = c
BY DEF ChunkTypeOK

\* A chunk once cut stays: what was intact remains so.
LEMMA IntactStays ==
    ASSUME ChunkTypeOK, NEW c, chunks' = Append(chunks, c),
           NEW p, NEW i, NEW j, Intact(p, i, j)
    PROVE  Intact(p, i, j)'
BY AppendChunk DEF Intact

\* The passages inside a new chunk are intact.
LEMMA NewIntact ==
    ASSUME ChunkTypeOK, NEW p, NEW from, NEW to,
           chunks' = Append(chunks, Chunk(p, from, to)),
           NEW i, NEW j, from <= i, j <= to
    PROVE  Intact(p, i, j)'
BY AppendChunk DEF Intact, Chunk

\* A new chunk inside its page keeps ChunksWithinPage.
LEMMA NewWithinPage ==
    ASSUME ChunkTypeOK, ChunksWithinPage, UNCHANGED <<config, pages>>,
           NEW p \in 1..Len(pages), NEW from \in Nat, NEW to \in Nat,
           1 <= from, from <= to, to <= PageLen(p), to - from < MaxTokens,
           chunks' = Append(chunks, Chunk(p, from, to))
    PROVE  /\ ChunksWithinPage'
           /\ chunks' \in Seq([page : Nat \ {0}, from : Nat, to : Nat])
<1>1. chunks' \in Seq([page : Nat \ {0}, from : Nat, to : Nat])
  BY DEF ChunkTypeOK, Chunk
<1>2. ASSUME NEW n \in 1..Len(chunks')
      PROVE  /\ chunks'[n].page \in 1..Len(pages)
             /\ 1 <= chunks'[n].from
             /\ chunks'[n].from <= chunks'[n].to
             /\ chunks'[n].to <= PageLen(chunks'[n].page)
             /\ chunks'[n].to - chunks'[n].from < MaxTokens
  <2>1. CASE n \in 1..Len(chunks)
    BY <2>1, AppendChunk DEF ChunksWithinPage
  <2>2. CASE n = Len(chunks) + 1
    BY <2>2, AppendChunk DEF Chunk
  <2> QED  BY <2>1, <2>2, AppendChunk
<1> QED  BY <1>1, <1>2 DEF ChunksWithinPage, PageLen, MaxTokens

-----------------------------------------------------------------------------
LEMMA InitCorrect == InitChunks => CInv
<1> SUFFICES ASSUME InitChunks PROVE CInv
  OBVIOUS
<1>1. ChunkTypeOK
  <2>1. Len(pages) \in Nat
    BY ChunkerAssumption DEF InitChunks
  <2>2. page \in 1..(Len(pages) + 1) /\ start \in Nat
    BY <2>1 DEF InitChunks
  <2>3. chunks \in Seq([page : Nat \ {0}, from : Nat, to : Nat])
    BY DEF InitChunks
  <2>4. refused \in BOOLEAN
    BY DEF InitChunks
  <2> QED  BY <2>2, <2>3, <2>4 DEF InitChunks, ChunkTypeOK
<1>2. ChunksWithinPage /\ ShortPassagesIntact /\ InLoop
  BY DEF InitChunks, ChunksWithinPage, ShortPassagesIntact, InLoop
<1> QED  BY <1>1, <1>2 DEF CInv

\* Each turn keeps the invariant.
LEMMA NextCorrect == CInv /\ [ChunkNext]_chunkVars => CInv'
<1> SUFFICES ASSUME CInv, [ChunkNext]_chunkVars PROVE CInv'
  OBVIOUS
<1> USE DEF CInv
<1>0. /\ MaxTokens \in Nat \ {0} /\ Overlap \in Nat
      /\ Step = MaxTokens - Overlap /\ Len(pages) \in Nat
      /\ \A p \in 1..Len(pages) : PageLen(p) \in Nat
      /\ start \in Nat
      /\ page \in 1..(Len(pages) + 1)
  BY Sizes DEF ChunkTypeOK
<1>p. PICK p0 : p0 = page
  OBVIOUS
\* The page in turn is done, all its short passages being in some chunk.
<1>1. ASSUME UNCHANGED <<config, pages>>, page' = p0 + 1,
             \A p, i, j : Intact(p, i, j) => Intact(p, i, j)',
             p0 \in 1..Len(pages),
             \A i, j \in 1..PageLen(p0) : Short(i, j) => Intact(p0, i, j)'
      PROVE  ShortPassagesIntact'
  <2>1. ASSUME NEW p \in 1..p0, NEW i \in 1..PageLen(p),
               NEW j \in 1..PageLen(p), Short(i, j)
        PROVE  Intact(p, i, j)'
    <3>1. CASE p = p0  BY <1>1, <2>1, <3>1
    <3>2. CASE p \in 1..(page - 1)
      BY <1>1, <2>1, <3>2 DEF ShortPassagesIntact, Short
    <3> QED  BY <1>0, <1>p, <3>1, <3>2
  <2>2. \A p \in 1..p0 : PageLen(p)' = PageLen(p)
    BY <1>1 DEF PageLen
  <2>3. Overlap' = Overlap /\ page' - 1 = p0
    BY <1>0, <1>1, <1>p DEF Overlap
  <2> QED  BY <2>1, <2>2, <2>3 DEF ShortPassagesIntact, Short
<1>2. CASE SkipPage
  <2>0. p0 \in 1..Len(pages) /\ PageLen(p0) = 0
    BY <1>0, <1>2, <1>p DEF SkipPage, Cutting
  <2>1. ChunkTypeOK'
    BY <1>0, <1>p, <1>2, <2>0 DEF SkipPage, ChunkTypeOK
  <2>2. ChunksWithinPage'
    BY <1>2 DEF SkipPage, ChunksWithinPage, PageLen, MaxTokens
  <2>3. start = 0
    BY <1>0, <1>p, <2>0 DEF InLoop
  <2>4. InLoop'
    BY <1>2, <2>3 DEF SkipPage, InLoop
  <2>5. \A p, i, j : Intact(p, i, j) => Intact(p, i, j)'
    BY <1>2 DEF SkipPage, Intact
  <2>6. ShortPassagesIntact'
    BY <1>1, <1>2, <1>p, <2>0, <2>5 DEF SkipPage
  <2> QED  BY <2>1, <2>2, <2>4, <2>6
<1>3. CASE WholePage
  <2>1. /\ p0 \in 1..Len(pages)
        /\ PageLen(p0) \in 1..MaxTokens
        /\ chunks' = Append(chunks, Chunk(p0, 1, PageLen(p0)))
        /\ page' = p0 + 1
        /\ UNCHANGED <<config, pages, start, refused>>
    BY <1>0, <1>3, <1>p DEF WholePage, Cutting
  <2>2. /\ ChunksWithinPage'
        /\ chunks' \in Seq([page : Nat \ {0}, from : Nat, to : Nat])
    BY <1>0, <2>1, NewWithinPage
  <2>3. ChunkTypeOK'
    BY <1>0, <2>1, <2>2 DEF ChunkTypeOK
  <2>4. \A p, i, j : Intact(p, i, j) => Intact(p, i, j)'
    BY <2>1, IntactStays
  <2>5. \A i, j \in 1..PageLen(p0) : Intact(p0, i, j)'
    BY <1>0, <2>1, NewIntact
  <2>6. ShortPassagesIntact'
    BY <1>1, <2>1, <2>4, <2>5
  <2>7. start = 0
    BY <1>0, <1>p, <2>1 DEF InLoop
  <2>8. InLoop'
    BY <2>1, <2>7 DEF InLoop
  <2> QED  BY <2>2, <2>3, <2>6, <2>8
<1>4. CASE Refuse
  <2>1. ChunkTypeOK'
    BY <1>4 DEF Refuse, ChunkTypeOK
  <2>2. UNCHANGED <<config, pages, page, start, chunks>>
    BY <1>4 DEF Refuse
  <2>3. ChunksWithinPage' /\ ShortPassagesIntact'
    BY <2>2 DEF ChunksWithinPage, ShortPassagesIntact, Intact, PageLen,
                MaxTokens, Overlap
  <2>4. InLoop'
    BY <2>2 DEF InLoop, Intact, PageLen, MaxTokens, Overlap, Short
  <2> QED  BY <2>1, <2>3, <2>4
<1>5. CASE Window
  <2>1. /\ p0 \in 1..Len(pages)
        /\ Step > 0
        /\ MaxTokens < PageLen(p0)
        /\ start + MaxTokens < PageLen(p0)
        /\ chunks' = Append(chunks, Chunk(p0, start + 1, start + MaxTokens))
        /\ start' = start + Step
        /\ UNCHANGED <<config, pages, page, refused>>
    BY <1>0, <1>5, <1>p DEF Window, Cutting
  <2>2. /\ ChunksWithinPage'
        /\ chunks' \in Seq([page : Nat \ {0}, from : Nat, to : Nat])
    BY <1>0, <2>1, NewWithinPage
  <2>3. ChunkTypeOK'
    BY <1>0, <2>1, <2>2 DEF ChunkTypeOK
  <2>4. \A p, i, j : Intact(p, i, j) => Intact(p, i, j)'
    BY <2>1, IntactStays
  <2>5. ShortPassagesIntact'
    BY <2>1, <2>4 DEF ShortPassagesIntact, PageLen, Overlap
  \* A short passage that begins in the new chunk's first Step tokens ends in
  \* that chunk.
  <2>6. ASSUME NEW i \in 1..PageLen(p0), NEW j \in 1..PageLen(p0),
               i <= start', Short(i, j)
        PROVE  Intact(p0, i, j)'
    <3>1. CASE i <= start
      BY <1>0, <1>p, <2>4, <2>6, <3>1 DEF InLoop
    <3>2. CASE start < i
      <4>1. start + 1 <= i /\ j <= start + MaxTokens
        BY <1>0, <2>1, <2>6, <3>2 DEF Short
      <4> QED  BY <2>1, <4>1, NewIntact
    <3> QED  BY <1>0, <3>1, <3>2
  <2>7. /\ PageLen(p0)' = PageLen(p0) /\ page' = p0
        /\ MaxTokens' = MaxTokens /\ Overlap' = Overlap
    BY <1>p, <2>1 DEF PageLen, MaxTokens, Overlap
  <2>9. start' < PageLen(p0)
    BY <1>0, <2>1
  <2>8. InLoop'
    BY <2>1, <2>6, <2>7, <2>9 DEF InLoop, Short
  <2> QED  BY <2>2, <2>3, <2>5, <2>8
<1>6. CASE LastWindow
  <2>1. /\ p0 \in 1..Len(pages)
        /\ MaxTokens < PageLen(p0)
        /\ start + MaxTokens >= PageLen(p0)
        /\ chunks' = Append(chunks, Chunk(p0, start + 1, PageLen(p0)))
        /\ page' = p0 + 1
        /\ start' = 0
        /\ UNCHANGED <<config, pages, refused>>
    BY <1>0, <1>6, <1>p DEF LastWindow, Cutting
  <2>2. start < PageLen(p0)
    BY <1>0, <1>p, <2>1 DEF InLoop
  <2>3. /\ ChunksWithinPage'
        /\ chunks' \in Seq([page : Nat \ {0}, from : Nat, to : Nat])
    BY <1>0, <2>1, <2>2, NewWithinPage
  <2>4. ChunkTypeOK'
    BY <1>0, <2>1, <2>3 DEF ChunkTypeOK
  <2>5. \A p, i, j : Intact(p, i, j) => Intact(p, i, j)'
    BY <2>1, IntactStays
  <2>6. ASSUME NEW i \in 1..PageLen(p0), NEW j \in 1..PageLen(p0), Short(i, j)
        PROVE  Intact(p0, i, j)'
    <3>1. CASE i <= start
      BY <1>0, <1>p, <2>1, <2>5, <2>6, <3>1 DEF InLoop
    <3>2. CASE start < i
      <4>1. start + 1 <= i /\ j <= PageLen(p0)
        BY <1>0, <2>1, <3>2
      <4> QED  BY <2>1, <4>1, NewIntact
    <3> QED  BY <1>0, <3>1, <3>2
  <2>7. ShortPassagesIntact'
    BY <1>1, <2>1, <2>5, <2>6
  <2>8. InLoop'
    BY <2>1 DEF InLoop
  <2> QED  BY <2>3, <2>4, <2>7, <2>8
<1>7. CASE UNCHANGED chunkVars
  <2>1. UNCHANGED <<config, pages, page, start, chunks, refused>>
    BY <1>7 DEF chunkVars
  <2>2. ChunkTypeOK'
    BY <2>1 DEF ChunkTypeOK
  <2>3. ChunksWithinPage' /\ ShortPassagesIntact'
    BY <2>1 DEF ChunksWithinPage, ShortPassagesIntact, Intact, PageLen,
                MaxTokens, Overlap
  <2>4. InLoop'
    BY <2>1 DEF InLoop, Intact, PageLen, MaxTokens, Overlap, Short
  <2> QED  BY <2>2, <2>3, <2>4
<1> QED
  BY <1>2, <1>3, <1>4, <1>5, <1>6, <1>7 DEF ChunkNext

LEMMA Invariance == ChunkSpec => []CInv
BY InitCorrect, NextCorrect, PTL DEF ChunkSpec

-----------------------------------------------------------------------------
\* Chunks never cross or overrun a page, whatever its length and whatever the
\* ChunkerConfig, one that _chunk_one_page refuses included.
THEOREM WithinPageCorrect == ChunkSpec => []ChunksWithinPage
BY Invariance, PTL DEF CInv

\* No passage of up to overlap_tokens + 1 tokens is torn by the windows of
\* _chunk_one_page.
THEOREM ShortPassagesCorrect == ChunkSpec => []ShortPassagesIntact
BY Invariance, PTL DEF CInv

-----------------------------------------------------------------------------
(* The check. *)

\* The check changes nothing that the chunker left behind.
LEMMA CheckImplementsChunker == Spec => ChunkSpec
<1>1. InitCheck => InitChunks
  BY DEF InitCheck
<1>2. [Next]_vars => [ChunkNext]_chunkVars
  BY DEF Next, Cut, Unreadable, Answered, Quiescent, vars, chunkVars
<1> QED
  BY <1>1, <1>2, PTL DEF Spec, ChunkSpec

\* When _resolve_page looks for a quote, every short passage of every page is
\* in a chunk, and no chunk holds anything but text of its page.
THEOREM SearchedChunks == Spec => [](ChunksWithinPage /\ ShortPassagesIntact)
BY CheckImplementsChunker, WithinPageCorrect, ShortPassagesCorrect, PTL

-----------------------------------------------------------------------------
(* The white space of a text, by least counterexamples. *)

LEMMA LeastNumber ==
    ASSUME NEW S \in SUBSET Nat, S # {}
    PROVE  \E x \in S : \A y \in S : x <= y
<1>1. PICK x \in S : \A y \in S : <<y, x>> \notin OpToRel(<, Nat)
  BY NatLessThanWellFounded, WFMin
<1>2. \A y \in S : ~(y < x)
  BY <1>1 DEF OpToRel
<1> QED
  BY <1>2

\* What holds at lo and passes on from each number to the next.
LEMMA StepByStep ==
    ASSUME NEW lo \in Nat, NEW hi \in Nat, NEW Good,
           lo \in Good, \A n \in lo..(hi - 1) : n \in Good => n + 1 \in Good
    PROVE  \A n \in lo..hi : n \in Good
<1> DEFINE Bad == (lo..hi) \ Good
<1>1. Bad \in SUBSET Nat
  OBVIOUS
<1>2. ASSUME Bad # {} PROVE FALSE
  <2>1. PICK n \in Bad : \A m \in Bad : n <= m
    <3> HIDE DEF Bad
    <3> QED
      BY <1>1, <1>2, LeastNumber
  <2>2. n - 1 \in lo..(hi - 1) /\ n - 1 \notin Bad
    <3>1. n \in (lo + 1)..hi
      OBVIOUS
    <3> QED
      BY <2>1, <3>1
  <2> QED
    BY <2>2
<1> QED
  BY <1>2

LEMMA MinIsLeast ==
    ASSUME NEW S \in SUBSET Nat, S # {}
    PROVE  Min(S) \in S /\ \A y \in S : Min(S) <= y
BY LeastNumber DEF Min

\* One more token: white space at a gap is dropped, the rest is appended.
LEMMA SqueezeStays ==
    ASSUME NEW s, NEW c, c = Blank, Gap(s)
    PROVE  Squeeze(s, c) = s
BY DEF Squeeze

LEMMA SqueezeGrows ==
    ASSUME NEW s \in Seq(Token), NEW c \in Token, ~(c = Blank /\ Gap(s))
    PROVE  /\ Len(Squeeze(s, c)) = Len(s) + 1
           /\ \A i \in 1..Len(s) : Squeeze(s, c)[i] = s[i]
           /\ Squeeze(s, c)[Len(s) + 1] = c
<1>1. Squeeze(s, c) = Append(s, c)
  BY DEF Squeeze
<1>2. /\ Len(Append(s, c)) = Len(s) + 1
      /\ \A i \in 1..Len(s) : Append(s, c)[i] = s[i]
      /\ Append(s, c)[Len(s) + 1] = c
  OBVIOUS
<1> QED
  BY <1>1, <1>2

LEMMA OneSqueeze ==
    ASSUME NEW s \in Seq(Token), NEW c \in Token
    PROVE  /\ Squeeze(s, c) \in Seq(Token)
           /\ Gap(Squeeze(s, c)) <=> c = Blank
<1>1. CASE c = Blank /\ Gap(s)
  BY <1>1 DEF Squeeze
<1>2. CASE ~(c = Blank /\ Gap(s))
  <2>1. Squeeze(s, c) = Append(s, c)
    BY <1>2 DEF Squeeze
  <2>2. /\ Append(s, c) \in Seq(Token) /\ Append(s, c) # <<>>
        /\ Len(Append(s, c)) = Len(s) + 1
        /\ Append(s, c)[Len(s) + 1] = c
    OBVIOUS
  <2>3. Gap(Append(s, c)) <=> c = Blank
    BY <2>2 DEF Gap, Last
  <2> QED
    BY <2>1, <2>2, <2>3
<1> QED
  BY <1>1, <1>2

\* The recursion of Squeezed defines what it says.
LEMMA SqueezedStep ==
    ASSUME NEW t \in Seq(Token)
    PROVE  /\ Squeezed(t)[0] = <<>>
           /\ \A n \in 1..Len(t) : Squeezed(t)[n] = Squeeze(Squeezed(t)[n - 1], t[n])
<1> DEFINE Def(g, n) == [i \in 0..n |-> IF i = 0 THEN <<>> ELSE Squeeze(g[i - 1], t[i])]
           Defined == {n \in 0..Len(t) : \E g : g = Def(g, n)}
<1>1. \A n \in 0..Len(t) : n \in Defined
  <2>1. 0 \in Defined
    <3> DEFINE none == [i \in 0..0 |-> <<>>]
    <3>1. none = Def(none, 0)
      OBVIOUS
    <3>2. 0 \in 0..Len(t)
      OBVIOUS
    <3>3. \E g : g = Def(g, 0)
      BY <3>1
    <3> QED
      BY <3>2, <3>3
  <2>2. ASSUME NEW n \in 0..(Len(t) - 1), n \in Defined
        PROVE  n + 1 \in Defined
    <3>1. PICK g : g = Def(g, n)
      BY <2>2
    <3> DEFINE h == [i \in 0..(n + 1) |-> IF i = n + 1 THEN Squeeze(g[n], t[n + 1]) ELSE g[i]]
    <3>2. ASSUME NEW i \in 0..(n + 1)
          PROVE  h[i] = IF i = 0 THEN <<>> ELSE Squeeze(h[i - 1], t[i])
      <4>1. CASE i = n + 1
        BY <4>1
      <4>2. CASE i # n + 1
        <5>1. i \in 0..n /\ (i # 0 => i - 1 \in 0..(n + 1) /\ i - 1 # n + 1)
          BY <4>2
        <5>2. g[i] = IF i = 0 THEN <<>> ELSE Squeeze(g[i - 1], t[i])
          BY <3>1, <5>1
        <5> QED
          BY <4>2, <5>1, <5>2
      <4> QED
        BY <4>1, <4>2
    <3>3. h = Def(h, n + 1)
      BY <3>2
    <3>4. n + 1 \in 0..Len(t)
      OBVIOUS
    <3> QED
      BY <3>3, <3>4
  <2>3. Len(t) \in Nat
    OBVIOUS
  <2> HIDE DEF Defined
  <2> QED
    BY <2>1, <2>2, <2>3, StepByStep
<1>2. \E g : g = Def(g, Len(t))
  BY <1>1
<1>3. Squeezed(t) = CHOOSE g : g = Def(g, Len(t))
  BY DEF Squeezed
<1>4. Squeezed(t) = Def(Squeezed(t), Len(t))
  <2> HIDE DEF Def
  <2> QED
    BY <1>2, <1>3
<1> QED
  BY <1>4

\* White space in what is kept is single and not at the beginning.
Single(s) == \A i \in 1..Len(s) : s[i] = Blank => i > 1 /\ s[i - 1] # Blank

LEMMA SqueezedText ==
    ASSUME NEW t \in Seq(Token), NEW n \in 0..Len(t)
    PROVE  /\ Squeezed(t)[n] \in Seq(Token)
           /\ Single(Squeezed(t)[n])
           /\ n > 0 => (Gap(Squeezed(t)[n]) <=> t[n] = Blank)
<1> DEFINE sq == Squeezed(t)
           Good(m) == sq[m] \in Seq(Token) /\ Single(sq[m])
           Goods == {m \in 0..Len(t) : Good(m)}
<1>1. sq[0] = <<>> /\ \A m \in 1..Len(t) : sq[m] = Squeeze(sq[m - 1], t[m])
  BY SqueezedStep
<1> HIDE DEF sq
<1>2. Good(0)
  <2>1. <<>> \in Seq(Token) /\ Single(<<>>)
    BY DEF Single
  <2> QED
    BY <1>1, <2>1
<1>3. ASSUME NEW m \in 1..Len(t), Good(m - 1)
      PROVE  Good(m) /\ (Gap(sq[m]) <=> t[m] = Blank)
  <2> DEFINE s == sq[m - 1]
             c == t[m]
  <2>1. s \in Seq(Token) /\ Single(s) /\ c \in Token /\ sq[m] = Squeeze(s, c)
    BY <1>1, <1>3
  <2> HIDE DEF s, c
  <2>2. sq[m] \in Seq(Token) /\ (Gap(sq[m]) <=> c = Blank)
    BY <2>1, OneSqueeze
  <2>3. CASE c = Blank /\ Gap(s)
    BY <2>1, <2>2, <2>3, SqueezeStays DEF c
  <2>4. CASE ~(c = Blank /\ Gap(s))
    <3>1. /\ Len(sq[m]) = Len(s) + 1
          /\ \A i \in 1..Len(s) : sq[m][i] = s[i]
          /\ sq[m][Len(s) + 1] = c
      <4>1. /\ Len(Squeeze(s, c)) = Len(s) + 1
            /\ \A i \in 1..Len(s) : Squeeze(s, c)[i] = s[i]
            /\ Squeeze(s, c)[Len(s) + 1] = c
        BY <2>1, <2>4, SqueezeGrows
      <4> QED
        BY <2>1, <4>1
    <3>2. c = Blank => Len(s) >= 1 /\ s[Len(s)] # Blank
      BY <2>1, <2>4 DEF Gap, Last
    <3>3. ASSUME NEW i \in 1..Len(sq[m]), sq[m][i] = Blank
          PROVE  i > 1 /\ sq[m][i - 1] # Blank
      <4>1. CASE i \in 1..Len(s)
        <5>1. i > 1 /\ s[i - 1] # Blank
          BY <2>1, <3>1, <3>3, <4>1 DEF Single
        <5> QED
          BY <2>1, <3>1, <4>1, <5>1
      <4>2. CASE i = Len(s) + 1
        BY <2>1, <3>1, <3>2, <3>3, <4>2
      <4> QED
        BY <2>1, <3>1, <4>1, <4>2
    <3> QED
      BY <2>2, <3>3 DEF Single, c
  <2> QED
    BY <2>3, <2>4
<1>4. \A m \in 0..Len(t) : m \in Goods
  <2>1. 0 \in Goods /\ Len(t) \in Nat
    BY <1>2
  <2>2. \A m \in 0..(Len(t) - 1) : m \in Goods => m + 1 \in Goods
    <3> SUFFICES ASSUME NEW m \in 0..(Len(t) - 1), m \in Goods
                 PROVE  m + 1 \in Goods
      OBVIOUS
    <3>1. m + 1 \in 1..Len(t) /\ (m + 1) - 1 = m /\ Good(m)
      OBVIOUS
    <3>2. Good(m + 1)
      BY <3>1, <1>3
    <3> QED
      BY <3>1, <3>2
  <2> HIDE DEF Goods
  <2> QED
    BY <2>1, <2>2, StepByStep
<1>5. Good(n)
  BY <1>4
<1>6. n > 0 => (Gap(sq[n]) <=> t[n] = Blank)
  <2> SUFFICES ASSUME n > 0 PROVE Gap(sq[n]) <=> t[n] = Blank
    OBVIOUS
  <2>1. n \in 1..Len(t) /\ n - 1 \in 0..Len(t)
    OBVIOUS
  <2>2. Good(n - 1)
    BY <1>4, <2>1
  <2> QED
    BY <1>3, <2>1, <2>2
<1> QED
  BY <1>5, <1>6 DEF sq

\* What the first k tokens are squeezed to is not changed by those that follow.
LEMMA SqueezedPrefix ==
    ASSUME NEW t \in Seq(Token), NEW k \in 0..Len(t), NEW n \in k..Len(t)
    PROVE  /\ Len(Squeezed(t)[k]) <= Len(Squeezed(t)[n])
           /\ \A i \in 1..Len(Squeezed(t)[k]) : Squeezed(t)[n][i] = Squeezed(t)[k][i]
<1> DEFINE sq == Squeezed(t)
           Longer(m) == /\ Len(sq[k]) <= Len(sq[m])
                        /\ \A i \in 1..Len(sq[k]) : sq[m][i] = sq[k][i]
           Goods == {m \in k..Len(t) : Longer(m)}
<1>1. \A m \in 0..Len(t) : sq[m] \in Seq(Token) /\ Len(sq[m]) \in Nat
  BY SqueezedText
<1>2. \A m \in 1..Len(t) : sq[m] = Squeeze(sq[m - 1], t[m])
  BY SqueezedStep
<1> HIDE DEF sq
<1>3. k \in Nat /\ Len(t) \in Nat /\ k \in Goods
  BY <1>1
<1>4. \A m \in k..(Len(t) - 1) : m \in Goods => m + 1 \in Goods
  <2> SUFFICES ASSUME NEW m \in k..(Len(t) - 1), Longer(m)
               PROVE  m + 1 \in k..Len(t) /\ Longer(m + 1)
    OBVIOUS
  <2>1. m + 1 \in 1..Len(t) /\ m \in 0..Len(t) /\ m + 1 \in k..Len(t) /\ (m + 1) - 1 = m
    OBVIOUS
  <2>2. sq[m + 1] = Squeeze(sq[m], t[m + 1]) /\ t[m + 1] \in Token /\ sq[m] \in Seq(Token)
    BY <1>1, <1>2, <2>1
  <2> DEFINE s == sq[m]
             c == t[m + 1]
  <2>3. Len(s) \in Nat /\ Len(sq[k]) \in Nat
    BY <1>1, <2>1
  <2>4. Len(sq[k]) <= Len(s) /\ \A i \in 1..Len(sq[k]) : s[i] = sq[k][i]
    OBVIOUS
  <2>5. sq[m + 1] = Squeeze(s, c) /\ c \in Token /\ s \in Seq(Token)
    BY <2>2
  <2> HIDE DEF s, c
  <2>6. CASE c = Blank /\ Gap(s)
    BY <2>1, <2>4, <2>5, <2>6, SqueezeStays
  <2>7. CASE ~(c = Blank /\ Gap(s))
    <3>1. /\ Len(Squeeze(s, c)) = Len(s) + 1
          /\ \A i \in 1..Len(s) : Squeeze(s, c)[i] = s[i]
      BY <2>5, <2>7, SqueezeGrows
    <3>2. Len(sq[k]) <= Len(sq[m + 1])
      BY <2>3, <2>4, <2>5, <3>1
    <3>3. \A i \in 1..Len(sq[k]) : i \in 1..Len(s)
      BY <2>3, <2>4
    <3>4. \A i \in 1..Len(sq[k]) : sq[m + 1][i] = sq[k][i]
      BY <2>4, <2>5, <3>1, <3>3
    <3> QED
      BY <2>1, <3>2, <3>4
  <2> QED
    BY <2>6, <2>7
<1>5. n \in Goods
  <2> HIDE DEF Goods
  <2> QED
    BY <1>3, <1>4, StepByStep
<1> QED
  BY <1>5 DEF sq

\* A part of a text is squeezed to what the text is at its place: only what
\* comes before the part decides where that is.
LEMMA SqueezedPart ==
    ASSUME NEW t \in Seq(Token), NEW a \in 1..Len(t), NEW b \in a..Len(t)
    PROVE  LET u == SubSeq(t, a, b)
           IN  \E q \in Nat :
                  /\ Len(Squeezed(t)[b]) = q + Len(Squeezed(u)[Len(u)])
                  /\ \A i \in 1..Len(Squeezed(u)[Len(u)]) :
                        Squeezed(t)[b][q + i] = Squeezed(u)[Len(u)][i]
<1> DEFINE u  == SubSeq(t, a, b)
           sq == Squeezed(t)
           su == Squeezed(u)
<1>1. /\ u \in Seq(Token) /\ Len(u) = b - a + 1 /\ Len(u) \in Nat /\ Len(u) >= 1
      /\ \A m \in 1..Len(u) : u[m] = t[a + m - 1] /\ a + m - 1 \in 1..Len(t)
  OBVIOUS
<1> HIDE DEF u
<1>2. /\ sq[0] = <<>> /\ \A m \in 1..Len(t) : sq[m] = Squeeze(sq[m - 1], t[m])
      /\ su[0] = <<>> /\ \A m \in 1..Len(u) : su[m] = Squeeze(su[m - 1], u[m])
  BY <1>1, SqueezedStep
<1>3. \A m \in 0..Len(t) : /\ sq[m] \in Seq(Token) /\ Len(sq[m]) \in Nat
                           /\ m > 0 => (Gap(sq[m]) <=> t[m] = Blank)
  BY SqueezedText
<1>4. \A m \in 0..Len(u) : /\ su[m] \in Seq(Token) /\ Len(su[m]) \in Nat
                           /\ m > 0 => (Gap(su[m]) <=> u[m] = Blank)
  BY <1>1, SqueezedText
<1> HIDE DEF sq, su
<1> DEFINE Ends(q, m) == /\ Len(sq[a + m - 1]) = q + Len(su[m])
                         /\ \A i \in 1..Len(su[m]) : sq[a + m - 1][q + i] = su[m][i]
\* The first token of the part settles the place.
<1>5. PICK q \in Nat : Ends(q, 1)
  <2>1. /\ sq[a] = Squeeze(sq[a - 1], u[1]) /\ su[1] = Squeeze(<<>>, u[1])
        /\ sq[a - 1] \in Seq(Token) /\ u[1] \in Token /\ <<>> \in Seq(Token)
        /\ Len(sq[a - 1]) \in Nat /\ Len(sq[a]) \in Nat /\ a + 1 - 1 = a
    <3>1. a \in 1..Len(t) /\ a - 1 \in 0..Len(t) /\ 1 \in 1..Len(u) /\ 1 - 1 = 0
          /\ u[1] = t[a] /\ a \in 0..Len(t)
      BY <1>1
    <3>2. sq[a] = Squeeze(sq[a - 1], t[a])
      BY <1>2, <3>1
    <3>3. su[1] = Squeeze(su[0], u[1]) /\ su[0] = <<>>
      BY <1>2, <3>1
    <3> QED
      BY <1>1, <1>3, <3>1, <3>2, <3>3
  <2>2. CASE u[1] = Blank
    <3>1. Gap(<<>>)
      BY DEF Gap
    <3>2. su[1] = <<>>
      BY <2>1, <2>2, <3>1, SqueezeStays
    <3>3. Len(su[1]) = 0
      BY <3>2
    <3>4. Ends(Len(sq[a]), 1)
      BY <2>1, <3>3
    <3> QED
      BY <2>1, <3>4
  <2>3. CASE u[1] # Blank
    <3>1. Len(su[1]) = 1 /\ su[1][1] = u[1]
      <4>1. Squeeze(<<>>, u[1]) = Append(<<>>, u[1])
        BY <2>3 DEF Squeeze
      <4>2. \A c : Append(<<>>, c) = <<c>> /\ Len(<<c>>) = 1 /\ <<c>>[1] = c
        OBVIOUS
      <4> QED
        BY <2>1, <4>1, <4>2
    <3>2. Len(sq[a]) = Len(sq[a - 1]) + 1 /\ sq[a][Len(sq[a - 1]) + 1] = u[1]
      BY <2>1, <2>3, SqueezeGrows
    <3>3. Ends(Len(sq[a - 1]), 1)
      <4>1. \A i \in 1..1 : sq[a][Len(sq[a - 1]) + i] = su[1][i]
        BY <3>1, <3>2
      <4> QED
        BY <2>1, <3>1, <3>2, <4>1
    <3> QED
      BY <2>1, <3>3
  <2> QED
    BY <2>2, <2>3
<1> DEFINE Goods == {m \in 1..Len(u) : Ends(q, m)}
<1>6. 1 \in Goods
  BY <1>1, <1>5
<1>7. \A m \in 1..(Len(u) - 1) : m \in Goods => m + 1 \in Goods
  <2> SUFFICES ASSUME NEW m \in 1..(Len(u) - 1), Ends(q, m)
               PROVE  m + 1 \in 1..Len(u) /\ Ends(q, m + 1)
    OBVIOUS
  <2> DEFINE s == sq[a + m - 1]
             r == su[m]
             c == u[m + 1]
  <2>0. Len(t) \in Nat /\ a \in Nat /\ b <= Len(t) /\ m \in Nat /\ a >= 1 /\ m >= 1
        /\ m + a <= b /\ m + 1 <= Len(u)
    BY <1>1
  <2>1. /\ a + m \in 1..Len(t) /\ a + m - 1 \in 0..Len(t) /\ a + m - 1 > 0
        /\ (a + m) - 1 = a + m - 1 /\ a + (m + 1) - 1 = a + m
        /\ m + 1 \in 1..Len(u) /\ m \in 0..Len(u) /\ m > 0 /\ (m + 1) - 1 = m
        /\ u[m] = t[a + m - 1] /\ c = t[a + m] /\ c \in Token
    <3>1. /\ a + m \in 1..Len(t) /\ a + m - 1 \in 0..Len(t) /\ a + m - 1 > 0
          /\ (a + m) - 1 = a + m - 1 /\ a + (m + 1) - 1 = a + m
          /\ m + 1 \in 1..Len(u) /\ m \in 0..Len(u) /\ m > 0 /\ (m + 1) - 1 = m
          /\ m \in 1..Len(u)
      <4>1. Len(u) \in Nat /\ b \in Nat
        BY <1>1
      <4> HIDE DEF Ends, s, r, c
      <4> QED
        BY <2>0, <4>1
    <3>2. u[m] = t[a + m - 1] /\ u[m + 1] = t[a + (m + 1) - 1]
      BY <1>1, <3>1
    <3>3. u[m + 1] \in Token
      <4> \A v \in Seq(Token) : \A n \in 1..Len(v) : v[n] \in Token
        OBVIOUS
      <4> QED
        BY <1>1, <3>1
    <3> QED
      BY <3>1, <3>2, <3>3
  <2>2. sq[a + m] = Squeeze(s, c) /\ su[m + 1] = Squeeze(r, c)
    BY <1>2, <2>1
  <2>3. s \in Seq(Token) /\ r \in Seq(Token) /\ Len(s) \in Nat /\ Len(r) \in Nat
    BY <1>3, <1>4, <2>1
  <2>4. Gap(s) <=> Gap(r)
    BY <1>3, <1>4, <2>1
  <2>5. Len(s) = q + Len(r) /\ \A i \in 1..Len(r) : s[q + i] = r[i]
    OBVIOUS
  <2> HIDE DEF s, r, c
  <2>6. /\ Len(Squeeze(s, c)) = q + Len(Squeeze(r, c))
        /\ \A i \in 1..Len(Squeeze(r, c)) : Squeeze(s, c)[q + i] = Squeeze(r, c)[i]
    <3>1. CASE c = Blank /\ Gap(s)
      <4>1. Squeeze(s, c) = s /\ Squeeze(r, c) = r
        BY <2>4, <3>1, SqueezeStays
      <4> QED
        BY <2>5, <4>1
    <3>2. CASE ~(c = Blank /\ Gap(s))
      <4>1. /\ Len(Squeeze(s, c)) = Len(s) + 1
            /\ \A i \in 1..Len(s) : Squeeze(s, c)[i] = s[i]
            /\ Squeeze(s, c)[Len(s) + 1] = c
        BY <2>1, <2>3, <3>2, SqueezeGrows
      <4>2. /\ Len(Squeeze(r, c)) = Len(r) + 1
            /\ \A i \in 1..Len(r) : Squeeze(r, c)[i] = r[i]
            /\ Squeeze(r, c)[Len(r) + 1] = c
        BY <2>1, <2>3, <2>4, <3>2, SqueezeGrows
      <4>3. Len(Squeeze(s, c)) = q + Len(Squeeze(r, c))
        BY <2>3, <2>5, <4>1, <4>2
      <4>4. ASSUME NEW i \in 1..Len(Squeeze(r, c))
            PROVE  Squeeze(s, c)[q + i] = Squeeze(r, c)[i]
        <5>1. CASE i \in 1..Len(r)
          <6>1. q + i \in 1..Len(s)
            BY <2>3, <2>5, <5>1
          <6> QED
            BY <2>5, <4>1, <4>2, <5>1, <6>1
        <5>2. CASE i = Len(r) + 1
          <6>1. q + i = Len(s) + 1
            BY <2>3, <2>5, <5>2
          <6> QED
            BY <4>1, <4>2, <5>2, <6>1
        <5>3. i \in 1..Len(r) \/ i = Len(r) + 1
          BY <2>3, <4>2
        <5> QED
          BY <5>1, <5>2, <5>3
      <4> QED
        BY <4>3, <4>4
    <3> QED
      BY <3>1, <3>2
  <2> QED
    BY <2>1, <2>2, <2>6
<1>8. Len(u) \in Goods
  <2>1. 1 \in Nat /\ Len(u) \in 1..Len(u)
    BY <1>1
  <2> HIDE DEF Goods
  <2> QED
    BY <1>1, <1>6, <1>7, <2>1, StepByStep
<1>9. Ends(q, Len(u)) /\ a + Len(u) - 1 = b
  BY <1>1, <1>8
<1> QED
  BY <1>9 DEF u, sq, su

\* Collapse drops at most one token more, the white space at the end.
LEMMA Collapsed ==
    ASSUME NEW t \in Seq(Token)
    PROVE  LET s == Squeezed(t)[Len(t)]
               c == Collapse(t)
           IN  /\ s \in Seq(Token) /\ c \in Seq(Token)
               /\ \A i \in 1..Len(c) : c[i] = s[i]
               /\ \/ Len(c) = Len(s)
                  \/ Len(c) = Len(s) - 1 /\ Len(s) > 0 /\ s[Len(s)] = Blank
               /\ Len(c) > 0 => c[Len(c)] # Blank
<1> DEFINE s == Squeezed(t)[Len(t)]
<1>1. s \in Seq(Token) /\ Single(s)
  <2>1. Len(t) \in 0..Len(t)
    OBVIOUS
  <2> QED
    BY <2>1, SqueezedText
<1>2. Collapse(t) = IF s # <<>> /\ Last(s) = Blank THEN Front(s) ELSE s
  BY DEF Collapse
<1> HIDE DEF s
<1>3. CASE s # <<>> /\ Last(s) = Blank
  <2>1. /\ Collapse(t) = SubSeq(s, 1, Len(s) - 1)
        /\ Len(s) \in Nat /\ Len(s) > 0 /\ s[Len(s)] = Blank
    BY <1>1, <1>2, <1>3 DEF Front, Last
  <2>2. /\ Collapse(t) \in Seq(Token)
        /\ Len(Collapse(t)) = Len(s) - 1
        /\ \A i \in 1..(Len(s) - 1) : Collapse(t)[i] = s[i]
    <3>1. ASSUME NEW n \in 0..Len(s)
          PROVE  /\ SubSeq(s, 1, n) \in Seq(Token)
                 /\ Len(SubSeq(s, 1, n)) = n
                 /\ \A i \in 1..n : SubSeq(s, 1, n)[i] = s[i]
      BY <1>1
    <3>2. Len(s) - 1 \in 0..Len(s)
      BY <2>1
    <3> QED
      BY <2>1, <3>1, <3>2
  <2>3. Len(s) > 1 /\ s[Len(s) - 1] # Blank
    BY <1>1, <2>1 DEF Single
  <2> QED
    BY <1>1, <2>1, <2>2, <2>3 DEF s
<1>4. CASE ~(s # <<>> /\ Last(s) = Blank)
  <2>1. Collapse(t) = s
    BY <1>2, <1>4
  <2>2. Len(s) > 0 => s[Len(s)] # Blank
    BY <1>1, <1>4 DEF Last
  <2> QED
    BY <1>1, <2>1, <2>2 DEF s
<1> QED
  BY <1>3, <1>4

-----------------------------------------------------------------------------
(* Where a text occurs. *)

\* x stands in y after i tokens.
At(x, y, i) == i + Len(x) <= Len(y) /\ \A k \in 1..Len(x) : y[i + k] = x[k]

LEMMA OccursAt ==
    ASSUME NEW x \in Seq(Token), NEW y \in Seq(Token)
    PROVE  Occurs(x, y) <=> \E i \in Nat : At(x, y, i)
<1>1. ASSUME NEW i \in Nat, i + Len(x) <= Len(y)
      PROVE  /\ Len(SubSeq(y, i + 1, i + Len(x))) = Len(x)
             /\ \A k \in 1..Len(x) : SubSeq(y, i + 1, i + Len(x))[k] = y[i + k]
             /\ SubSeq(y, i + 1, i + Len(x)) \in Seq(Token)
  BY <1>1
<1>2. ASSUME NEW i \in Nat, At(x, y, i)
      PROVE  Occurs(x, y)
  <2>1. i \in 0..(Len(y) - Len(x)) /\ i + Len(x) <= Len(y)
    BY <1>2 DEF At
  <2>2. SubSeq(y, i + 1, i + Len(x)) = x
    BY <1>1, <1>2, <2>1 DEF At
  <2> QED
    BY <2>1, <2>2 DEF Occurs
<1>3. ASSUME NEW i \in 0..(Len(y) - Len(x)), SubSeq(y, i + 1, i + Len(x)) = x
      PROVE  i \in Nat /\ At(x, y, i)
  <2>1. i \in Nat /\ i + Len(x) <= Len(y)
    OBVIOUS
  <2> QED
    BY <1>1, <1>3, <2>1 DEF At
<1> QED
  BY <1>2, <1>3 DEF Occurs

LEMMA OccursTrans ==
    ASSUME NEW x \in Seq(Token), NEW y \in Seq(Token), NEW z \in Seq(Token),
           Occurs(x, y), Occurs(y, z)
    PROVE  Occurs(x, z)
<1>1. PICK i \in Nat : At(x, y, i)
  BY OccursAt
<1>2. PICK j \in Nat : At(y, z, j)
  BY OccursAt
<1>3. i + j \in Nat /\ At(x, z, i + j)
  <2>1. Len(x) \in Nat /\ Len(y) \in Nat /\ Len(z) \in Nat
    OBVIOUS
  <2>2. (i + j) + Len(x) <= Len(z)
    BY <1>1, <1>2, <2>1 DEF At
  <2>3. ASSUME NEW k \in 1..Len(x)
        PROVE  z[(i + j) + k] = x[k]
    <3>1. i + k \in 1..Len(y) /\ j + (i + k) = (i + j) + k
      BY <1>1, <2>1 DEF At
    <3> QED
      BY <1>1, <1>2, <3>1 DEF At
  <2> QED
    BY <2>2, <2>3 DEF At
<1> QED
  BY <1>3, OccursAt

\* A part of a text occurs in it, with the white space of both collapsed.
LEMMA PartOccurs ==
    ASSUME NEW t \in Seq(Token), NEW a \in 1..Len(t), NEW b \in a..Len(t)
    PROVE  /\ Occurs(Collapse(SubSeq(t, a, b)), Collapse(t))
           /\ SubSeq(t, a, b) \in Seq(Token)
<1> DEFINE u == SubSeq(t, a, b)
           r == Squeezed(u)[Len(u)]
           s == Squeezed(t)[b]
           w == Squeezed(t)[Len(t)]
           cu == Collapse(u)
           ct == Collapse(t)
<1>1. u \in Seq(Token)
  OBVIOUS
<1>2. PICK q \in Nat : /\ Len(s) = q + Len(r)
                       /\ \A i \in 1..Len(r) : s[q + i] = r[i]
  BY SqueezedPart
<1>3. Len(s) <= Len(w) /\ \A i \in 1..Len(s) : w[i] = s[i]
  <2>1. b \in 0..Len(t) /\ Len(t) \in b..Len(t)
    OBVIOUS
  <2> QED
    BY <2>1, SqueezedPrefix
<1>4. s \in Seq(Token)
  <2>1. b \in 0..Len(t)
    OBVIOUS
  <2> QED
    BY <2>1, SqueezedText
<1>5. /\ r \in Seq(Token) /\ cu \in Seq(Token)
      /\ \A i \in 1..Len(cu) : cu[i] = r[i]
      /\ Len(cu) <= Len(r)
      /\ Len(cu) > 0 => cu[Len(cu)] # Blank
  <2> HIDE DEF u
  <2>1. /\ r \in Seq(Token) /\ cu \in Seq(Token)
        /\ \A i \in 1..Len(cu) : cu[i] = r[i]
        /\ Len(cu) = Len(r) \/ Len(cu) = Len(r) - 1
        /\ Len(cu) > 0 => cu[Len(cu)] # Blank
    BY <1>1, Collapsed
  <2> QED
    BY <2>1
<1>6. /\ w \in Seq(Token) /\ ct \in Seq(Token)
      /\ \A i \in 1..Len(ct) : ct[i] = w[i]
      /\ \/ Len(ct) = Len(w)
         \/ Len(ct) = Len(w) - 1 /\ Len(w) > 0 /\ w[Len(w)] = Blank
  BY Collapsed
<1> HIDE DEF u, r, s, w, cu, ct
<1>7. /\ Len(r) \in Nat /\ Len(s) \in Nat /\ Len(w) \in Nat
      /\ Len(cu) \in Nat /\ Len(ct) \in Nat
  BY <1>4, <1>5, <1>6
<1>8. ASSUME NEW k \in 1..Len(cu)
      PROVE  w[q + k] = cu[k] /\ q + k <= Len(w)
  <2>1. k \in 1..Len(r) /\ q + k \in 1..Len(s) /\ q + k <= Len(w)
    BY <1>2, <1>3, <1>5, <1>7
  <2> QED
    BY <1>2, <1>3, <1>5, <2>1
<1>9. CASE Len(cu) = 0
  <2>1. At(cu, ct, 0)
    BY <1>7, <1>9 DEF At
  <2> QED
    BY <1>1, <1>5, <1>6, <2>1, OccursAt DEF u, cu, ct
<1>10. CASE Len(cu) > 0
  <2>1. q + Len(cu) <= Len(ct)
    <3>1. Len(cu) \in 1..Len(cu)
      BY <1>7, <1>10
    <3>2. w[q + Len(cu)] # Blank /\ q + Len(cu) <= Len(w)
      BY <1>5, <1>8, <1>10, <3>1
    <3>3. q + Len(cu) # Len(w) \/ Len(ct) = Len(w)
      BY <1>6, <3>2
    <3> QED
      BY <1>6, <1>7, <3>2, <3>3
  <2>2. ASSUME NEW k \in 1..Len(cu)
        PROVE  ct[q + k] = cu[k]
    <3>1. q + k \in 1..Len(ct)
      BY <1>7, <2>1
    <3> QED
      BY <1>6, <1>8, <3>1
  <2>3. At(cu, ct, q)
    BY <2>1, <2>2 DEF At
  <2> QED
    BY <1>1, <1>5, <1>6, <2>3, OccursAt DEF u, cu, ct
<1> QED
  BY <1>7, <1>9, <1>10

-----------------------------------------------------------------------------
(* execute_check. *)

\* The chunks come in the order of their pages.
ByPage ==
    \A n \in 1..Len(chunks) :
        /\ chunks[n].page <= page
        /\ \A m \in 1..n : chunks[m].page <= chunks[n].page

\* A CheckResult is the verdict on the answer, over all the chunks.
Answers ==
    Returned => /\ Chunked
                /\ answer \in LlmAnswer
                /\ result = Verdict(answer, ResolvePage(answer.evidence))

AInv == CInv /\ TypeOK /\ ByPage /\ Answers

\* A page that _resolve_page finds is that of the first chunk with the quote.
LEMMA PageFound ==
    ASSUME NEW e \in Evidence, ResolvePage(e) # None
    PROVE  /\ e \in Seq(Token)
           /\ \E n \in Hits(e) : /\ ResolvePage(e) = chunks[n].page
                                 /\ \A m \in Hits(e) : n <= m
<1>1. e # None /\ Hits(e) # {} /\ ResolvePage(e) = chunks[Min(Hits(e))].page
  BY DEF ResolvePage
<1>2. Hits(e) \in SUBSET Nat
  BY DEF Hits
<1>3. Min(Hits(e)) \in Hits(e) /\ \A m \in Hits(e) : Min(Hits(e)) <= m
  BY <1>1, <1>2, MinIsLeast
<1> QED
  BY <1>1, <1>3, CheckAssumption

LEMMA ChunkPages ==
    ASSUME ChunkTypeOK
    PROVE  /\ Len(chunks) \in Nat
           /\ \A n \in 1..Len(chunks) : chunks[n].page \in Nat \ {0}
<1> DEFINE C == [page : Nat \ {0}, from : Nat, to : Nat]
<1>1. chunks \in Seq(C)
  BY DEF ChunkTypeOK
<1>2. \A c \in C : c.page \in Nat \ {0}
  OBVIOUS
<1> HIDE DEF C
<1>3. \A n \in 1..Len(chunks) : chunks[n] \in C
  BY <1>1
<1> QED
  BY <1>1, <1>2, <1>3

LEMMA PageType ==
    ASSUME ChunkTypeOK, NEW e \in Evidence
    PROVE  ResolvePage(e) \in (Nat \ {0}) \cup {None}
<1> SUFFICES ASSUME ResolvePage(e) # None
             PROVE  ResolvePage(e) \in Nat \ {0}
  OBVIOUS
<1>1. PICK n \in Hits(e) : ResolvePage(e) = chunks[n].page
  BY PageFound
<1>2. n \in 1..Len(chunks)
  BY DEF Hits
<1>3. chunks[n].page \in Nat \ {0}
  BY <1>2, ChunkPages
<1> QED
  BY <1>1, <1>3

\* A chunk of the page in turn keeps the order.
LEMMA NextByPage ==
    ASSUME ChunkTypeOK, ByPage, page' \in {page, page + 1},
           NEW from, NEW to,
           \/ chunks' = chunks
           \/ chunks' = Append(chunks, Chunk(page, from, to))
    PROVE  ByPage'
<1>0. /\ Len(chunks) \in Nat /\ page \in Nat
      /\ \A n \in 1..Len(chunks) : chunks[n].page \in Nat
  <2>1. Len(chunks) \in Nat /\ page \in Nat
    BY Sizes DEF ChunkTypeOK
  <2>2. \A n \in 1..Len(chunks) : chunks[n].page \in Nat
    BY ChunkPages
  <2> QED
    BY <2>1, <2>2
<1>p. PICK p0 : p0 = page
  OBVIOUS
<1>p1. p0 <= page'
  BY <1>0, <1>p
<1>1. CASE chunks' = chunks
  BY <1>0, <1>1, <1>p, <1>p1 DEF ByPage
<1>2. CASE chunks' = Append(chunks, Chunk(page, from, to))
  <2>1. /\ Len(chunks') = Len(chunks) + 1
        /\ \A n \in 1..Len(chunks) : chunks'[n] = chunks[n]
        /\ chunks'[Len(chunks) + 1].page = p0
    BY <1>2, <1>p, AppendChunk DEF Chunk
  <2>2. ASSUME NEW n \in 1..Len(chunks')
        PROVE  /\ chunks'[n].page <= p0
               /\ \A m \in 1..n : chunks'[m].page <= chunks'[n].page
    <3>1. CASE n \in 1..Len(chunks)
      BY <1>0, <1>p, <2>1, <3>1 DEF ByPage
    <3>2. CASE n = Len(chunks) + 1
      <4>1. \A m \in 1..Len(chunks) : chunks'[m].page <= p0
        BY <1>p, <2>1 DEF ByPage
      <4> QED
        BY <1>0, <1>p, <2>1, <3>2, <4>1
    <3> QED
      BY <1>0, <2>1, <3>1, <3>2
  <2>3. \A n \in 1..Len(chunks') : chunks'[n].page \in Nat
    BY <1>0, <1>p, <2>1
  <2>4. page' \in Nat /\ p0 \in Nat
    BY <1>0, <1>p
  <2>5. \A n \in 1..Len(chunks') : chunks'[n].page <= page'
    BY <1>p1, <2>2, <2>3, <2>4
  <2> QED
    BY <2>2, <2>5 DEF ByPage
<1> QED
  BY <1>1, <1>2

LEMMA CheckInit == InitCheck => AInv
<1> SUFFICES ASSUME InitCheck PROVE AInv
  OBVIOUS
<1>1. CInv
  BY InitCorrect DEF InitCheck
<1>2. TypeOK
  BY <1>1 DEF InitCheck, TypeOK, CInv
<1>3. ByPage
  BY DEF InitCheck, InitChunks, ByPage
<1>4. Answers
  BY DEF InitCheck, Answers, Returned
<1> QED
  BY <1>1, <1>2, <1>3, <1>4 DEF AInv

LEMMA CheckNext == AInv /\ [Next]_vars => AInv'
<1> SUFFICES ASSUME AInv, [Next]_vars PROVE AInv'
  OBVIOUS
<1>0. CInv /\ TypeOK /\ ByPage /\ Answers /\ ChunkTypeOK
  BY DEF AInv, TypeOK
<1>1. [ChunkNext]_chunkVars
  BY DEF Next, Cut, Unreadable, Answered, Quiescent, vars, chunkVars
<1>2. CInv' /\ ChunkTypeOK'
  BY <1>0, <1>1, NextCorrect DEF CInv
\* What _resolve_page reads is not changed by what is not a turn of the chunker.
<1>3. ASSUME UNCHANGED chunkVars
      PROVE  /\ ByPage'
             /\ Chunked' = Chunked
             /\ \A e : ResolvePage(e)' = ResolvePage(e)
  <2>1. UNCHANGED <<pages, page, chunks>>
    BY <1>3 DEF chunkVars
  <2>2. ByPage'
    BY <1>0, <2>1 DEF ByPage
  <2>3. \A e : Hits(e)' = Hits(e)
    BY <2>1 DEF Hits, ChunkText
  <2>4. \A e : ResolvePage(e)' = ResolvePage(e)
    BY <2>1, <2>3 DEF ResolvePage
  <2>5. Chunked' = Chunked
    BY <2>1 DEF Chunked
  <2> QED
    BY <2>2, <2>4, <2>5
<1>4. ASSUME op' = op
      PROVE  \A a, p : Verdict(a, p)' = Verdict(a, p)
  BY <1>4 DEF Verdict
<1>5. CASE Cut
  <2>1. ByPage'
    <3>1. CASE SkipPage
      BY <1>0, <3>1, NextByPage DEF SkipPage
    <3>2. CASE WholePage
      BY <1>0, <3>2, NextByPage DEF WholePage
    <3>3. CASE Refuse
      BY <1>0, <3>3, NextByPage DEF Refuse
    <3>4. CASE Window
      BY <1>0, <3>4, NextByPage DEF Window
    <3>5. CASE LastWindow
      BY <1>0, <3>5, NextByPage DEF LastWindow
    <3> QED
      BY <1>5, <3>1, <3>2, <3>3, <3>4, <3>5 DEF Cut, ChunkNext
  <2>2. UNCHANGED <<op, answer, result>>
    BY <1>5 DEF Cut
  <2>3. TypeOK'
    BY <1>0, <1>2, <2>2 DEF TypeOK
  <2>4. ~Chunked
    <3>1. page <= Len(pages)
      BY <1>5 DEF Cut, ChunkNext, SkipPage, WholePage, Refuse, Window,
                  LastWindow, Cutting
    <3>2. Len(pages) \in Nat /\ page \in Nat
      BY <1>0, Sizes DEF ChunkTypeOK
    <3> QED
      BY <3>1, <3>2 DEF Chunked
  <2>5. ~Returned'
    BY <1>0, <2>2, <2>4 DEF Answers, Returned
  <2> QED
    BY <1>2, <2>1, <2>3, <2>5 DEF AInv, Answers
<1>6. CASE Unreadable
  <2>1. UNCHANGED chunkVars /\ op' = op /\ answer' = answer
        /\ result' = ExecutorError
    BY <1>6 DEF Unreadable
  <2>2. TypeOK'
    BY <1>0, <1>2, <2>1 DEF TypeOK
  <2>3. ~Returned'
    BY <2>1 DEF Returned
  <2> QED
    BY <1>2, <1>3, <2>1, <2>2, <2>3 DEF AInv, Answers
<1>7. CASE Answered
  <2>1. /\ UNCHANGED chunkVars /\ op' = op /\ Chunked
        /\ answer' \in LlmAnswer
    BY <1>7 DEF Answered, Waiting
  <2>2. PICK a \in LlmAnswer : a = answer'
    BY <2>1
  <2>3. PICK p : p = ResolvePage(a.evidence)
    OBVIOUS
  <2>4. result' = Verdict(a, p)
    BY <1>7, <2>2, <2>3 DEF Answered
  <2>5. a.evidence \in Evidence /\ a.passed \in BOOLEAN /\ None \in Evidence
    BY CheckAssumption DEF LlmAnswer
  <2>6. p \in (Nat \ {0}) \cup {None}
    BY <1>0, <2>3, <2>5, PageType
  <2>7. result' \in CheckResult
    BY <2>4, <2>5, <2>6 DEF Verdict, CheckResult
  <2>8. TypeOK'
    BY <1>0, <1>2, <2>1, <2>7 DEF TypeOK
  <2>9. Answers'
    <3>1. Chunked'
      BY <1>3, <2>1
    <3>2. ResolvePage(a.evidence)' = p
      BY <1>3, <2>1, <2>3
    <3>3. Verdict(a, p)' = Verdict(a, p)
      BY <1>4, <2>1
    <3>4. result' = Verdict(answer, ResolvePage(answer.evidence))'
      <4>1. Verdict(answer, ResolvePage(answer.evidence))'
            = Verdict(a, ResolvePage(a.evidence))'
        BY <2>2 DEF Verdict, ResolvePage, Hits, ChunkText
      <4>2. Verdict(a, ResolvePage(a.evidence))' = Verdict(a, p)'
        BY <3>2 DEF Verdict
      <4> QED
        BY <2>4, <3>3, <4>1, <4>2
    <3> QED
      BY <2>1, <3>1, <3>4 DEF Answers
  <2> QED
    BY <1>2, <1>3, <2>1, <2>8, <2>9 DEF AInv
<1>8. CASE UNCHANGED vars
  <2>1. UNCHANGED chunkVars /\ UNCHANGED <<op, answer, result>>
    BY <1>8 DEF vars, chunkVars
  <2>2. TypeOK'
    BY <1>0, <1>2, <2>1 DEF TypeOK
  <2>3. Answers'
    <3> SUFFICES ASSUME Returned' PROVE
               /\ Chunked' /\ answer' \in LlmAnswer
               /\ result' = Verdict(answer, ResolvePage(answer.evidence))'
      BY DEF Answers, LlmAnswer
    <3>1. Returned
      BY <2>1 DEF Returned
    <3>2. PICK p : p = ResolvePage(answer.evidence)
      OBVIOUS
    <3>3. ResolvePage(answer.evidence)' = p
      <4>1. PICK e : e = answer.evidence
        OBVIOUS
      <4>2. ResolvePage(e)' = ResolvePage(e)
        BY <1>3, <2>1
      <4>3. ResolvePage(answer.evidence)' = ResolvePage(e)'
        BY <2>1, <4>1 DEF ResolvePage, Hits, ChunkText
      <4> QED
        BY <3>2, <4>1, <4>2, <4>3
    <3>4. Verdict(answer, ResolvePage(answer.evidence))' = Verdict(answer, p)
      BY <2>1, <3>3 DEF Verdict
    <3> QED
      BY <1>0, <1>3, <2>1, <3>1, <3>2, <3>4 DEF Answers
  <2> QED
    BY <1>2, <1>3, <2>1, <2>2, <2>3 DEF AInv
<1> QED
  BY <1>5, <1>6, <1>7, <1>8 DEF Next, Quiescent

LEMMA CheckInvariance == Spec => []AInv
BY CheckInit, CheckNext, PTL DEF Spec

-----------------------------------------------------------------------------
\* A CheckResult is what check.py says it is, whatever the LLM answers.
THEOREM CheckTypes == Spec => []TypeOK
BY CheckInvariance, PTL DEF AInv

\* A chunk, and what occurs in it occurs on its page, white space collapsed.
LEMMA ChunkOnPage ==
    ASSUME ChunkTypeOK, ChunksWithinPage, NEW n \in 1..Len(chunks)
    PROVE  LET c == chunks[n]
               t == pages[c.page]
           IN  /\ c.page \in 1..Len(pages) /\ t \in Seq(Token)
               /\ c.from \in 1..Len(t) /\ c.to \in c.from..Len(t)
               /\ ChunkText(c) \in Seq(Token)
               /\ Occurs(Collapse(ChunkText(c)), Collapse(t))
<1> DEFINE c == chunks[n]
           t == pages[c.page]
           C == [page : Nat \ {0}, from : Nat, to : Nat]
<1>1. c.from \in Nat /\ c.to \in Nat
  <2>1. chunks \in Seq(C)
    BY DEF ChunkTypeOK
  <2>2. \A d \in C : d.from \in Nat /\ d.to \in Nat
    OBVIOUS
  <2> HIDE DEF C
  <2>3. chunks[n] \in C
    BY <2>1
  <2> QED
    BY <2>2, <2>3
<1>2. /\ c.page \in 1..Len(pages)
      /\ 1 <= c.from /\ c.from <= c.to /\ c.to <= Len(t)
  BY DEF ChunksWithinPage, PageLen
<1>3. t \in Seq(Token)
  <2>1. pages \in Seq(Seq(Token))
    BY ChunkerAssumption DEF ChunkTypeOK
  <2> QED
    BY <1>2, <2>1
<1>4. ChunkText(c) = SubSeq(t, c.from, c.to)
  BY DEF ChunkText
<1> HIDE DEF c, t
<1>5. Len(t) \in Nat
  BY <1>3
<1>6. c.from \in 1..Len(t) /\ c.to \in c.from..Len(t)
  BY <1>1, <1>2, <1>5
<1>7. ChunkText(c) \in Seq(Token) /\ Occurs(Collapse(ChunkText(c)), Collapse(t))
  BY <1>3, <1>4, <1>6, PartOccurs
<1> QED
  BY <1>2, <1>3, <1>6, <1>7 DEF c, t

\* The page of a CheckResult is one on which its quote stands, for every
\* document, every chunking and every answer: what _resolve_page compares with
\* a chunk, all white space collapsed, it could have compared with the page.
THEOREM PageIsRealCorrect == Spec => []PageIsReal
<1>1. ASSUME AInv, Returned
      PROVE  /\ result.page_ref # None =>
                   /\ result.page_ref \in 1..Len(pages)
                   /\ Occurs(Collapse(result.evidence),
                             Collapse(pages[result.page_ref]))
             /\ op = "FORBIDS_PHRASE" /\ ~result.passed => result.page_ref # None
  <2> DEFINE e == answer.evidence
             p == ResolvePage(e)
  <2>1. /\ ChunkTypeOK /\ ChunksWithinPage /\ e \in Evidence
        /\ result = Verdict(answer, p)
    BY <1>1 DEF AInv, CInv, Answers, LlmAnswer
  <2>2. op = "FORBIDS_PHRASE" /\ ~result.passed => result.page_ref # None
    BY <2>1 DEF Verdict
  <2>3. ASSUME result.page_ref # None
        PROVE  result.page_ref = p /\ result.evidence = e
    BY <2>1, <2>3 DEF Verdict
  <2> HIDE DEF e
  <2>4. ASSUME p # None
        PROVE  p \in 1..Len(pages) /\ Occurs(Collapse(e), Collapse(pages[p]))
    <3>1. PICK n \in Hits(e) : p = chunks[n].page
      BY <2>1, <2>4, PageFound
    <3>2. e \in Seq(Token)
      BY <2>1, <2>4, PageFound
    <3> DEFINE x == ChunkText(chunks[n])
    <3>3. /\ n \in 1..Len(chunks)
          /\ Occurs(Collapse(e), Collapse(x))
      BY DEF Hits
    <3>4. /\ p \in 1..Len(pages) /\ pages[p] \in Seq(Token)
          /\ x \in Seq(Token)
          /\ Occurs(Collapse(x), Collapse(pages[p]))
      BY <2>1, <3>1, <3>3, ChunkOnPage
    <3> HIDE DEF p, x
    <3>5. /\ Collapse(e) \in Seq(Token) /\ Collapse(x) \in Seq(Token)
          /\ Collapse(pages[p]) \in Seq(Token)
      BY <3>2, <3>4, Collapsed
    <3> QED
      BY <3>3, <3>4, <3>5, OccursTrans
  <2> HIDE DEF p
  <2> QED
    BY <2>2, <2>3, <2>4
<1>2. AInv => PageIsReal
  BY <1>1 DEF PageIsReal
<1> QED
  BY <1>2, CheckInvariance, PTL

\* A part of a part is a part.
LEMMA PartOfPart ==
    ASSUME NEW t \in Seq(Token), NEW a \in 1..Len(t), NEW b \in a..Len(t),
           NEW i \in a..b, NEW j \in i..b
    PROVE  LET x == SubSeq(t, a, b)
           IN  /\ x \in Seq(Token)
               /\ i - a + 1 \in 1..Len(x) /\ j - a + 1 \in (i - a + 1)..Len(x)
               /\ SubSeq(t, i, j) = SubSeq(x, i - a + 1, j - a + 1)
<1> DEFINE x == SubSeq(t, a, b)
<1>1. /\ x \in Seq(Token) /\ Len(x) = b - a + 1
      /\ \A k \in 1..(b - a + 1) : x[k] = t[a + k - 1]
  OBVIOUS
<1> HIDE DEF x
<1>2. i - a + 1 \in 1..Len(x) /\ j - a + 1 \in (i - a + 1)..Len(x)
  BY <1>1
<1> DEFINE y == SubSeq(t, i, j)
           z == SubSeq(x, i - a + 1, j - a + 1)
<1>3. /\ y \in Seq(Token) /\ Len(y) = j - i + 1
      /\ \A k \in 1..(j - i + 1) : y[k] = t[i + k - 1]
  OBVIOUS
<1>4. /\ z \in Seq(Token) /\ Len(z) = (j - a + 1) - (i - a + 1) + 1
      /\ \A k \in 1..((j - a + 1) - (i - a + 1) + 1) :
            z[k] = x[(i - a + 1) + k - 1]
  <2> DEFINE l == i - a + 1
             h == j - a + 1
  <2>1. l \in 1..Len(x) /\ h \in l..Len(x)
    BY <1>2
  <2> HIDE DEF l, h
  <2>2. /\ SubSeq(x, l, h) \in Seq(Token) /\ Len(SubSeq(x, l, h)) = h - l + 1
        /\ \A k \in 1..(h - l + 1) : SubSeq(x, l, h)[k] = x[l + k - 1]
    BY <1>1, <2>1
  <2> QED
    BY <2>2 DEF l, h
<1> HIDE DEF y, z
<1>5. ASSUME NEW k \in 1..(j - i + 1)
      PROVE  z[k] = y[k]
  <2>1. /\ k \in 1..((j - a + 1) - (i - a + 1) + 1)
        /\ (i - a + 1) + k - 1 \in 1..(b - a + 1)
        /\ a + ((i - a + 1) + k - 1) - 1 = i + k - 1
    OBVIOUS
  <2>2. z[k] = t[a + ((i - a + 1) + k - 1) - 1]
    BY <1>1, <1>4, <2>1
  <2> QED
    BY <1>3, <2>1, <2>2
<1>6. Len(z) = Len(y)
  BY <1>3, <1>4
<1>7. y = z
  BY <1>3, <1>4, <1>5, <1>6
<1> QED
  BY <1>1, <1>2, <1>7 DEF x, y, z

\* The overlap does what it is for: _resolve_page finds every verbatim quote of
\* up to overlap_tokens + 1 tokens, and none later than on its page, so that
\* the guard of execute_check lets the LLM's verdict stand.
THEOREM ShortQuotesCorrect == Spec => []ShortQuotesCount
<1>1. ASSUME AInv, Returned, NEW p \in 1..Len(pages),
             ShortQuote(answer.evidence, p)
      PROVE  result.passed = answer.passed /\ result.page_ref \in 1..p
  <2> DEFINE e == answer.evidence
             t == pages[p]
             r == ResolvePage(e)
  <2>1. /\ ChunkTypeOK /\ ChunksWithinPage /\ ShortPassagesIntact /\ ByPage
        /\ Chunked /\ e \in Evidence /\ answer \in LlmAnswer
        /\ result = Verdict(answer, r)
    BY <1>1 DEF AInv, CInv, Answers, LlmAnswer
  <2>2. PICK i, j \in 1..Len(t) :
            i <= j /\ j - i <= Overlap /\ e = SubSeq(t, i, j)
    BY <1>1 DEF ShortQuote
  \* The quote lies in a chunk of its page.
  <2>3. PICK n \in 1..Len(chunks) : /\ chunks[n].page = p
                                    /\ chunks[n].from <= i
                                    /\ j <= chunks[n].to
    <3>1. p \in 1..(page - 1)
      BY <2>1, Sizes DEF Chunked
    <3>2. Intact(p, i, j)
      BY <2>1, <2>2, <3>1 DEF ShortPassagesIntact, PageLen
    <3> QED
      BY <3>2 DEF Intact
  <2> DEFINE a == chunks[n].from
             b == chunks[n].to
             x == ChunkText(chunks[n])
  <2>4. /\ t \in Seq(Token) /\ a \in 1..Len(t) /\ b \in a..Len(t)
        /\ x = SubSeq(t, a, b)
    BY <2>1, <2>3, ChunkOnPage DEF ChunkText
  \* It is one of the hits.
  <2>5. e \in Seq(Token) /\ e # <<>> /\ Occurs(Collapse(e), Collapse(x))
    <3> HIDE DEF e, t, a, b, x
    <3>1. i \in a..b /\ j \in i..b
      <4>1. Len(t) \in Nat /\ a \in Nat /\ b \in Nat
        BY <2>4
      <4> QED
        BY <2>2, <2>3, <4>1 DEF a, b
    <3> DEFINE k == i - a + 1
               m == j - a + 1
    <3>2. /\ x \in Seq(Token) /\ k \in 1..Len(x) /\ m \in k..Len(x)
          /\ e = SubSeq(x, k, m)
      <4>1. LET v == SubSeq(t, a, b)
            IN  /\ v \in Seq(Token)
                /\ k \in 1..Len(v) /\ m \in k..Len(v)
                /\ SubSeq(t, i, j) = SubSeq(v, k, m)
        BY <2>4, <3>1, PartOfPart
      <4> HIDE DEF k, m
      <4> QED
        BY <2>2, <2>4, <4>1
    <3> HIDE DEF k, m
    <3>3. e \in Seq(Token) /\ Len(e) > 0
      BY <3>2
    <3>4. e # <<>>
      BY <3>3
    <3>5. Occurs(Collapse(SubSeq(x, k, m)), Collapse(x))
      BY <3>2, PartOccurs
    <3> QED
      BY <3>2, <3>3, <3>4, <3>5
  <2>6. n \in Hits(e) /\ e # None
    BY <2>3, <2>5, CheckAssumption DEF Hits
  \* The first hit is no later.
  <2>7. r \in 1..p
    <3>1. r = chunks[Min(Hits(e))].page
      BY <2>5, <2>6 DEF ResolvePage
    <3>2. Hits(e) \in SUBSET Nat /\ Hits(e) \subseteq 1..Len(chunks)
      BY DEF Hits
    <3> DEFINE m == Min(Hits(e))
    <3>3. m \in 1..Len(chunks) /\ m <= n
      BY <2>6, <3>2, MinIsLeast
    <3> HIDE DEF m
    <3>4. m \in 1..n
      BY <3>3
    <3>5. chunks[m].page <= chunks[n].page
      BY <2>1, <2>3, <3>4 DEF ByPage
    <3>6. chunks[m].page \in Nat \ {0}
      BY <2>1, <3>3, ChunkPages
    <3>7. chunks[m].page \in 1..p
      BY <2>3, <3>5, <3>6
    <3> QED
      BY <3>1, <3>7 DEF m
  <2>8. r # None
    BY <2>7, CheckAssumption
  <2> HIDE DEF r
  <2> QED
    BY <2>1, <2>7, <2>8 DEF Verdict
<1>2. AInv => ShortQuotesCount
  BY <1>1 DEF ShortQuotesCount
<1> QED
  BY <1>2, CheckInvariance, PTL
=============================================================================
