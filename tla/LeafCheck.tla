------------------------------- MODULE LeafCheck -------------------------------
(***************************************************************************)
(* executor/check.py: one execute_check over a document that the chunker   *)
(* has cut.  The LLM is the environment: it answers anything, readable or  *)
(* not.  The page of its quote is recovered from the chunks, and a         *)
(* FORBIDS_PHRASE violation whose quote has no page is not believed.       *)
(* Tokens are characters here, so that chunks may begin and end anywhere.  *)
(***************************************************************************)
EXTENDS Chunker, SequencesExt

CONSTANTS
    LeafOp,     \* node.op: "FORBIDS_PHRASE" and the other leaf operators
    Blank,      \* the white space among the tokens
    Evidence,   \* the quotes an LLM may come up with, None among them
    None,       \* stands for Python's None
    ExecutorError   \* raised for an answer that is not the object asked for

ASSUME CheckAssumption ==
    /\ Blank \in Token
    /\ None \in Evidence
    /\ Evidence \ {None} \subseteq Seq(Token)
    /\ None \notin Seq(Token) \cup Nat

VARIABLES
    op,         \* node.op
    answer,     \* the LlmAnswer
    result      \* the CheckResult, None until execute_check returns

vars == <<config, pages, page, start, chunks, refused, op, answer, result>>

LlmAnswer   == [passed : BOOLEAN, evidence : Evidence]
CheckResult == [passed : BOOLEAN, evidence : Evidence,
                page_ref : (Nat \ {0}) \cup {None}]

\* Nothing so far, or a blank at the end: another blank would not be kept.
Gap(s) == s = <<>> \/ Last(s) = Blank

Squeeze(s, c) == IF c = Blank /\ Gap(s) THEN s ELSE Append(s, c)

\* Squeezed(t)[n]: the first n tokens of t, a run of white space being one.
Squeezed(t) ==
    LET sq[n \in 0..Len(t)] == IF n = 0 THEN <<>> ELSE Squeeze(sq[n - 1], t[n])
    IN  sq

\* " ".join(t.split()): no white space at the ends either.
Collapse(t) ==
    LET s == Squeezed(t)[Len(t)]
    IN  IF s # <<>> /\ Last(s) = Blank THEN Front(s) ELSE s

\* needle in text
Occurs(needle, text) ==
    \E i \in 0..(Len(text) - Len(needle)) :
        SubSeq(text, i + 1, i + Len(needle)) = needle

ChunkText(c) == SubSeq(pages[c.page], c.from, c.to)

\* Seeded bug: the white space of the quote is not collapsed.
HitsBug(evidence) ==
    {n \in 1..Len(chunks) : Occurs(evidence, Collapse(ChunkText(chunks[n])))}

\* The chunks that contain the quote, up to white space.
Hits(evidence) ==
    {n \in 1..Len(chunks) :
        Occurs(Collapse(evidence), Collapse(ChunkText(chunks[n])))}

\* Seeded bug: the position of the chunk is taken for its page.
ResolvePageBug(evidence) ==
    IF evidence \in {None, <<>>} \/ Hits(evidence) = {} THEN None
    ELSE Min(Hits(evidence))

\* _resolve_page: the page of the first chunk with the quote.
ResolvePage(evidence) ==
    IF evidence \in {None, <<>>} \/ Hits(evidence) = {} THEN None
    ELSE chunks[Min(Hits(evidence))].page

InitCheck ==
    /\ InitChunks
    /\ op \in LeafOp
    /\ answer = None
    /\ result = None

Cut == ChunkNext /\ UNCHANGED <<op, answer, result>>

\* The document is cut, and execute_check waits for the LLM.
Waiting == Chunked /\ result = None

\* _parse_llm_json raises.
Unreadable ==
    /\ Waiting
    /\ result' = ExecutorError
    /\ UNCHANGED <<chunkVars, op, answer>>

\* Seeded bug: an ungroundable quote is dropped and the violation kept.
VerdictBug(a, page_ref) ==
    [passed |-> a.passed, evidence |-> IF page_ref = None THEN None
                                                          ELSE a.evidence,
     page_ref |-> page_ref]

\* The hallucination guard, and the CheckResult.
Verdict(a, page_ref) ==
    IF op = "FORBIDS_PHRASE" /\ ~a.passed /\ page_ref = None
    THEN [passed |-> TRUE, evidence |-> None, page_ref |-> None]
    ELSE [passed |-> a.passed, evidence |-> a.evidence, page_ref |-> page_ref]

\* A readable answer, and the rest of execute_check.
Answered ==
    /\ Waiting
    /\ answer' \in LlmAnswer
    /\ result' = Verdict(answer', ResolvePage(answer'.evidence))
    /\ UNCHANGED <<chunkVars, op>>

\* Nothing is left to do: a result, or a document that was not cut.
Quiescent == (refused \/ result # None) /\ UNCHANGED vars

Next == Cut \/ Unreadable \/ Answered \/ Quiescent

Spec == InitCheck /\ [][Next]_vars

-----------------------------------------------------------------------------
(* Properties. *)

\* Types: the chunker's, the LlmAnswer and the CheckResult of check.py.
TypeOK ==
    /\ ChunkTypeOK
    /\ op \in LeafOp
    /\ answer \in LlmAnswer \cup {None}
    /\ result \in CheckResult \cup {None, ExecutorError}

Returned == result \notin {None, ExecutorError}

\* "better than a confidently wrong number" (check.py:49): a page_ref names a
\* page on which the quote stands, although it was matched against a chunk and
\* with all white space collapsed; and a FORBIDS_PHRASE node fails only with
\* such a quote in hand.
PageIsReal ==
    Returned =>
        /\ result.page_ref # None =>
              /\ result.page_ref \in 1..Len(pages)
              /\ Occurs(Collapse(result.evidence),
                        Collapse(pages[result.page_ref]))
        /\ op = "FORBIDS_PHRASE" /\ ~result.passed => result.page_ref # None

\* The quote is verbatim from page p, and no longer than the windows allow.
ShortQuote(q, p) ==
    \E i, j \in 1..Len(pages[p]) :
        i <= j /\ j - i <= Overlap /\ q = SubSeq(pages[p], i, j)

\* What the overlap is for: a verbatim quote of up to overlap + 1 tokens is
\* never taken for a fabrication, wherever the chunks' boundaries fall.  The
\* verdict stands as the LLM gave it, with that page or an earlier one.
ShortQuotesCount ==
    Returned => \A p \in 1..Len(pages) :
        ShortQuote(answer.evidence, p) =>
            /\ result.passed = answer.passed
            /\ result.page_ref \in 1..p

\* 'When passed=false, "evidence" may be null or a quote of the offending text'
\* (prompts.py:9): a violation that the LLM reports in either of these forms
\* is a violation in the CheckResult.
ReportedViolationStands ==
    /\ Returned
    /\ op = "FORBIDS_PHRASE"
    /\ ~answer.passed
    /\ \/ answer.evidence = None
       \/ \E p \in 1..Len(pages) :
             answer.evidence # <<>> /\ Occurs(answer.evidence, pages[p])
    => ~result.passed
=============================================================================
