---------------------------- MODULE IcacheComplete ----------------------------
(***************************************************************************)
(* The instruction cache down to the IF stage: the fetch side with its     *)
(* RAMs (Icache), and the output side (IcacheOutput) that takes its words. *)
(*                                                                         *)
(* The two share one clock edge.  The word on offer and its error are what *)
(* the fill buffers put on output_data and output_err; the output side     *)
(* answers with output_ready; and a branch is one address of half-words,   *)
(* of which the fetch side sees the word.  The next word of the output     *)
(* side is the register out_addr of the fetch side: that what is on offer  *)
(* is that word (IcacheOutput: WordInOrder) is no part of a step here.     *)
(* The RTL selects it by the output address and the half-word kept, which  *)
(* is the same until an error is handed over (SidesAgree); after that      *)
(* nothing is promised before the next branch.                             *)
(***************************************************************************)
EXTENDS Icache

VARIABLES output_addr_q, skid_valid_q, skid_data_q, lost_q, taken

\* The half-word address of a word, and of no word.
HalfOf(a) == IF a = NoAddr THEN -1 ELSE 2 * (a.line * IC_LINE_BEATS + a.beat)

Output == INSTANCE IcacheOutput
            WITH FETCH_WORDS <- NUM_LINES * IC_LINE_BEATS,
                 BranchIn    <- 0..(2 * (NUM_LINES * IC_LINE_BEATS) - 1),
                 ErrIn       <- BOOLEAN,
                 word_addr   <- HalfOf(out_addr)

complete_vars == <<cache_vars, output_addr_q, skid_valid_q, skid_data_q, lost_q, taken>>

\* What the IF stage decides in a cycle, and how the halves of the word on offer read.
IfInputs == [addr : Output!HalfAddr \cup {Output!NoPc},
             lo_c : BOOLEAN, hi_c : BOOLEAN, ready : BOOLEAN]

\* The cycle as the output side sees it.
OutputIn(x, y) ==
    LET in == FillIn(x)
    IN  [addr |-> y.addr,
         word |-> IF data_valid(in) THEN HalfOf([line |-> output_data(in).line,
                                                 beat |-> output_data(in).beat])
                  ELSE Output!NoPc,
         err  |-> data_valid(in) /\ output_err(in),
         lo_c |-> y.lo_c, hi_c |-> y.hi_c, ready |-> y.ready]

CompleteInit ==
    /\ CacheInit
    /\ output_addr_q = Output!NoPc /\ skid_valid_q = FALSE /\ skid_data_q = Output!NoHalf
    /\ lost_q = FALSE /\ taken = Output!Nothing

CompleteStep(x, y) ==
    LET out == OutputIn(x, y)
    IN  /\ HalfOf(x.addr) = IF Output!branch_i(out) THEN y.addr - (y.addr % 2) ELSE Output!NoPc
        /\ x.ready = (data_valid(FillIn(x)) /\ Output!output_ready(out))
        /\ CacheStep(x)
        /\ Output!Env(out) /\ Output!Skid(out) /\ Output!OutputAddr(out) /\ Output!Taken(out)

CompleteNext == \E x \in CacheInputs, y \in IfInputs : CompleteStep(x, y)
CompleteSpec == CompleteInit /\ [][CompleteNext]_complete_vars

-----------------------------------------------------------------------------
(***************************************************************************)
(* Properties.                                                             *)
(***************************************************************************)

\* The cache is all that the output side takes for granted: the word on offer is
\* the next of the stream, and what is consumed is what was on offer.
OutputServed == Output!OutputSpec

\* Together they hand over the instructions that follow one another from the latest
\* branch target on, whichever of their words were found in the RAMs.
WholeStream == Output!InstrsInOrder

\* The word the fill buffers count as next is the one the output address and the
\* half-word kept select, and neither side waits for the other.
SidesAgree == Output!OutputInv
=============================================================================
