--------------------------- MODULE CompressedLocs ---------------------------
(***************************************************************************)
(* The locations of compressed blocks (_cpu_init_compressed_attn_metadata, *)
(* the torch port of sglang's metadata kernel), over the paged allocator.  *)
(* A block of `ratio` tokens is written when its last token is: to the     *)
(* location of that token's slot divided by the ratio.  It is read back    *)
(* through the page table, without the slot.  That both name one place is  *)
(* what the metadata promises; it rests on how the allocator lays out      *)
(* pages.                                                                  *)
(*                                                                         *)
(* The code has two fixed ratios (4 and 128, with pages of 256 tokens) and *)
(* builds the read side for the second; here both sides are defined for    *)
(* any ratio that divides the page.                                        *)
(***************************************************************************)
EXTENDS PagedAlloc

CONSTANT Ratios   \* compression ratios of the layers

ASSUME CompressedLocsAssumption ==
    /\ Ratios \subseteq Nat \ {0}
    /\ \A ratio \in Ratios : \E k \in 1..PageSize : PageSize = k * ratio

\* Mutant: the test is on the position of the token, not on the length.
OutLocAtStart(r, p, ratio) ==
    IF p % ratio = 0 THEN reqToToken[r][p] \div ratio ELSE 0

\* Mutant: one location for each page, not for each block.
OutLocOfPage(r, p, ratio) ==
    IF (p + 1) % ratio = 0 THEN reqToToken[r][p] \div PageSize ELSE 0

\* c4_out_loc, c128_out_loc: where the token at position p, which makes the
\* sequence p + 1 long, writes a block.  If it completes none it is given
\* location 0, in the page that is never handed out.
CompressedOutLoc(r, p, ratio) ==
    IF (p + 1) % ratio = 0 THEN reqToToken[r][p] \div ratio ELSE 0

\* c4_positions, c128_positions (pos & ~(ratio - 1)): the block's first token.
BlockPosition(p, ratio) == p - (p % ratio)

\* c4_seq_lens_raw, c128_seq_lens_raw: the complete blocks of r.
CompressedSeqLen(r, ratio) == seqLen[r] \div ratio

\* A row of page_table as wide as the longest sequence needs.
TableRow(r) ==
    [k \in 0..(CeilDiv(MaxLen) - 1) |->
        IF k * PageSize < seqLen[r] THEN PageOf(r, k * PageSize) ELSE 0]

\* c128_page_indices: the location of each complete block of r, -1 behind them.
PageIndices(r, ratio) ==
    LET perPage == PageSize \div ratio
    IN  [b \in 0..(CeilDiv(MaxLen) * perPage - 1) |->
            IF b < CompressedSeqLen(r, ratio)
            THEN TableRow(r)[b \div perPage] * perPage + (b % perPage)
            ELSE -1]

-----------------------------------------------------------------------------
(* Properties. *)

\* What is looked up is what was written: each token that completes a block
\* writes it where page_indices has that block, and every block page_indices
\* has was completed by some token.
LocationsAgree ==
    \A r \in Req, ratio \in Ratios :
        /\ \A p \in Positions(r) :
              (p + 1) % ratio = 0 =>
                 CompressedOutLoc(r, p, ratio)
                    = PageIndices(r, ratio)[BlockPosition(p, ratio) \div ratio]
        /\ \A b \in DOMAIN PageIndices(r, ratio) :
              PageIndices(r, ratio)[b] # -1 => b * ratio + ratio - 1 \in Positions(r)

\* Two blocks of live requests, of one request or of two, are never written
\* to the same location, and none to location 0, which takes the writes of
\* all tokens that complete no block.
LocationsApart ==
    \A r, s \in Req, ratio \in Ratios :
        \A p \in Positions(r), q \in Positions(s) :
            /\ (p + 1) % ratio = 0
            /\ CompressedOutLoc(r, p, ratio) = CompressedOutLoc(s, q, ratio)
            => r = s /\ p = q

\* A block is looked up where it was written, and nothing else is written
\* there.
LocationsExact == LocationsAgree /\ LocationsApart

=============================================================================
