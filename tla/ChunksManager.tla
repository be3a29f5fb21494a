---------------------------- MODULE ChunksManager ----------------------------
(* pallets/chunks-manager: the pages of the setup parameters a ring of a given size is built  *)
(* from.  The manager sets the hash each page must have, anybody may then add the page, once.    *)
(* A page is the sequence of the chunks in it and stands for its hash.                            *)
EXTENDS Integers, Sequences, FiniteSets, FiniteSetsExt, SequencesExt

CONSTANTS
    None,           \* no value
    Exponents,      \* the ring exponents
    PageSize,
    Pages           \* the pages that can be offered, of the right size or not

PageIndex(e) == 0 .. Max({1, (2 ^ e) \div PageSize}) - 1
AllPages == UNION {PageIndex(e) : e \in Exponents}

VARIABLES Chunks, ChunkPageHashes

vars == <<Chunks, ChunkPageHashes>>

Init ==
    /\ Chunks = [e \in Exponents |-> [i \in AllPages |-> None]]
    /\ ChunkPageHashes = [e \in Exponents |-> [i \in AllPages |-> None]]

\* The hashes of the first pages are replaced, those after them stay.
set_chunk_page_hashes(e, hashes) ==
    /\ ChunkPageHashes' = [ChunkPageHashes EXCEPT
            ![e] = [i \in AllPages |-> IF i < Len(hashes) THEN hashes[i + 1] ELSE @[i]]]
    /\ UNCHANGED Chunks

authorize_add_chunks(e, i, page) ==
    /\ Chunks[e][i] = None
    /\ ChunkPageHashes[e][i] = page

add_chunks(e, i, page) ==
    /\ authorize_add_chunks(e, i, page)
    /\ Len(page) <= PageSize
    /\ Chunks' = [Chunks EXCEPT ![e][i] = page]
    /\ UNCHANGED ChunkPageHashes

\* `absolute_page_idx & page_mask`: the number of pages is a power of two.
get_location(e, chunk_index) ==
    LET total_pages == Max({1, (2 ^ e) \div PageSize})
    IN  <<(chunk_index \div PageSize) % total_pages, chunk_index % PageSize>>

\* The chunk, or None
get_chunk(e, chunk_index) ==
    LET l == get_location(e, chunk_index)
        page == Chunks[e][l[1]]
    IN  IF page = None \/ Len(page) <= l[2] THEN None ELSE page[l[2] + 1]

\* Mutant: the range is taken from one page.
get_chunks_one_page(e, start, end) ==
    LET l    == get_location(e, start)
        page == Chunks[e][l[1]]
    IN  IF page = None \/ Len(page) < l[2] + end - start THEN None
        ELSE SubSeq(page, l[2] + 1, l[2] + end - start)

\* The chunks from `start` to `end`, taken page by page, or None: the loop of `get_chunks` as a
\* function of the index it has reached.
get_chunks(e, start, end) ==
    LET Tail_[index \in start .. end] ==
            IF index = end THEN <<>>
            ELSE LET l     == get_location(e, index)
                     page  == Chunks[e][l[1]]
                     count == Min({PageSize - l[2], end - index})
                 IN  IF page = None \/ Len(page) < l[2] + count THEN None
                     ELSE LET rest == Tail_[index + count] IN
                          IF rest = None THEN None
                          ELSE SubSeq(page, l[2] + 1, l[2] + count) \o rest
    IN  Tail_[start]

Next ==
    \E e \in Exponents :
        \/ \E n \in 1 .. Cardinality(AllPages) : \E hashes \in [1 .. n -> Pages] :
            set_chunk_page_hashes(e, hashes)
        \/ \E i \in AllPages, page \in Pages : add_chunks(e, i, page)

Spec == Init /\ [][Next]_vars

-----------------------------------------------------------------------------
(* Properties *)

\* A range of chunks is the chunks one by one, and it is missing when one of them is: over page
\* ends, over the end of the ring, where the index wraps around, and with pages missing or short.
RangesAgree ==
    \A e \in Exponents : \A start \in 0 .. 2 ^ (e + 1) - 1 : \A end \in start + 1 .. 2 ^ (e + 1) :
        LET one_by_one == [i \in 1 .. end - start |-> get_chunk(e, start + i - 1)] IN
        get_chunks(e, start, end) =
            IF \E i \in DOMAIN one_by_one : one_by_one[i] = None THEN None ELSE one_by_one

\* The chunks of a ring repeat with its size: an index beyond the ring is the index in it, and
\* within the ring the pages follow one another.
IndexesWrap ==
    \A e \in Exponents : 2 ^ e >= PageSize =>
        \A index \in 0 .. 2 ^ (e + 1) - 1 :
            LET in_ring == index % (2 ^ e) IN
            get_location(e, index) = <<in_ring \div PageSize, in_ring % PageSize>>

\* A page that was added stays as it is, whatever hashes the manager sets afterwards: a ring built
\* from it can be built again.
PagesStay ==
    [][\A e \in Exponents : \A i \in AllPages : Chunks[e][i] # None => Chunks'[e][i] = Chunks[e][i]]_vars
=============================================================================
