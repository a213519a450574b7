-------------------------------- MODULE Chunker --------------------------------
(***************************************************************************)
(* ingest/chunker.py: the text of each page of a document is cut into      *)
(* chunks of at most max_tokens tokens; the chunks of a longer page overlap *)
(* by overlap_tokens.  A page is the sequence of the tokens of its         *)
(* stripped text, and a chunk is the range of tokens of one page that its  *)
(* text is decoded from.                                                   *)
(***************************************************************************)
EXTENDS Integers, Sequences

CONSTANTS
    Document,       \* the documents: sequences of pages
    Token,          \* the tokens
    Config          \* the values of ChunkerConfig

ASSUME ChunkerAssumption ==
    /\ Document \subseteq Seq(Seq(Token))
    /\ Config \subseteq [max_tokens : Nat \ {0}, overlap_tokens : Nat]

VARIABLES
    config,     \* the ChunkerConfig in use
    pages,      \* the document
    page,       \* the page in turn, Len(pages) + 1 at the end
    start,      \* start of _chunk_one_page: tokens before the next chunk
    chunks,     \* the chunks so far
    refused     \* ValueError: the overlap leaves no step

chunkVars == <<config, pages, page, start, chunks, refused>>

MaxTokens == config.max_tokens
Overlap   == config.overlap_tokens
Step      == MaxTokens - Overlap

PageLen(p) == Len(pages[p])

\* Seeded bug: pages are counted from zero.
ChunkBug(p, from, to) == [page |-> p - 1, from |-> from, to |-> to]
Chunk(p, from, to) == [page |-> p, from |-> from, to |-> to]

InitChunks ==
    /\ config \in Config
    /\ pages \in Document
    /\ page = 1
    /\ start = 0
    /\ chunks = <<>>
    /\ refused = FALSE

\* The pages are still being cut.
Cutting == page <= Len(pages) /\ ~refused

\* A blank page has no chunk.
SkipPage ==
    /\ Cutting
    /\ PageLen(page) = 0
    /\ page' = page + 1
    /\ UNCHANGED <<config, pages, start, chunks, refused>>

\* A page that fits is one chunk.
WholePage ==
    /\ Cutting
    /\ PageLen(page) \in 1..MaxTokens
    /\ chunks' = Append(chunks, Chunk(page, 1, PageLen(page)))
    /\ page' = page + 1
    /\ UNCHANGED <<config, pages, start, refused>>

\* A longer page needs a positive step.
Refuse ==
    /\ Cutting
    /\ PageLen(page) > MaxTokens
    /\ Step <= 0
    /\ refused' = TRUE
    /\ UNCHANGED <<config, pages, page, start, chunks>>

\* Seeded bug: the next window starts where the last one ended.
WindowBug ==
    /\ Cutting
    /\ PageLen(page) > MaxTokens
    /\ Step > 0
    /\ start + MaxTokens < PageLen(page)
    /\ chunks' = Append(chunks, Chunk(page, start + 1, start + MaxTokens))
    /\ start' = start + MaxTokens
    /\ UNCHANGED <<config, pages, page, refused>>

\* One turn of the while loop that is not the last one.
Window ==
    /\ Cutting
    /\ PageLen(page) > MaxTokens
    /\ Step > 0
    /\ start + MaxTokens < PageLen(page)
    /\ chunks' = Append(chunks, Chunk(page, start + 1, start + MaxTokens))
    /\ start' = start + Step
    /\ UNCHANGED <<config, pages, page, refused>>

\* Seeded bug: the last window keeps its full width and runs past the page.
LastWindowBug ==
    /\ Cutting
    /\ PageLen(page) > MaxTokens
    /\ Step > 0
    /\ start + MaxTokens >= PageLen(page)
    /\ chunks' = Append(chunks, Chunk(page, start + 1, start + MaxTokens))
    /\ page' = page + 1
    /\ start' = 0
    /\ UNCHANGED <<config, pages, refused>>

\* The turn whose end is the end of the page, which breaks the loop.
LastWindow ==
    /\ Cutting
    /\ PageLen(page) > MaxTokens
    /\ Step > 0
    /\ start + MaxTokens >= PageLen(page)
    /\ chunks' = Append(chunks, Chunk(page, start + 1, PageLen(page)))
    /\ page' = page + 1
    /\ start' = 0
    /\ UNCHANGED <<config, pages, refused>>

ChunkNext == SkipPage \/ WholePage \/ Refuse \/ Window \/ LastWindow

\* chunk_pages returns.
Chunked == page = Len(pages) + 1

ChunkSpec == InitChunks /\ [][ChunkNext]_chunkVars

-----------------------------------------------------------------------------
(* Properties. *)

\* Types: the position of chunk_pages, and its chunks.
ChunkTypeOK ==
    /\ config \in Config
    /\ pages \in Document
    /\ page \in 1..(Len(pages) + 1)
    /\ start \in Nat
    /\ chunks \in Seq([page : Nat \ {0}, from : Nat, to : Nat])
    /\ refused \in BOOLEAN

\* Every chunk is a non-empty range within one page that is stamped with the
\* page's number, and no longer than max_tokens: "a chunk's page is unambiguous"
\* (chunker.py:33).
ChunksWithinPage ==
    \A n \in 1..Len(chunks) :
        LET c == chunks[n]
        IN  /\ c.page \in 1..Len(pages)
            /\ 1 <= c.from /\ c.from <= c.to /\ c.to <= PageLen(c.page)
            /\ c.to - c.from < MaxTokens

\* Tokens i to j of page p lie in one chunk.
Intact(p, i, j) ==
    \E n \in 1..Len(chunks) : /\ chunks[n].page = p
                              /\ chunks[n].from <= i
                              /\ j <= chunks[n].to

\* No passage of up to Overlap + 1 tokens is torn apart, wherever on its page
\* it stands and wherever the windows fall; in particular no token is dropped.
ShortPassagesIntact ==
    \A p \in 1..(page - 1) : \A i, j \in 1..PageLen(p) :
        i <= j /\ j - i <= Overlap => Intact(p, i, j)
=============================================================================
