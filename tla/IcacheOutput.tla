---------------------------- MODULE IcacheOutput ----------------------------
(***************************************************************************)
(* The output side of ibex_icache.sv: the skid buffer that holds the upper *)
(* half of a word while the instruction it belongs to is incomplete, the   *)
(* output address, and the realignment of half-words to instructions.      *)
(*                                                                         *)
(* The words come from the fill buffers, in the order FetchStream promises *)
(* (IcacheFill shows that they do): word_addr is the next one, and a word  *)
(* is offered in any cycle.  One step is one rising clock edge.  Addresses *)
(* count half-words and wrap.                                              *)
(***************************************************************************)
EXTENDS Integers

CONSTANTS
    FETCH_WORDS,    \* words of the modelled address space
    BranchIn,       \* branch targets of a run
    ErrIn           \* values the error of a word takes in a run

HalfAddr == 0..(2 * FETCH_WORDS - 1)
WordAddr == {2 * w : w \in 0..(FETCH_WORDS - 1)}

ASSUME OutputAssumption ==
    FETCH_WORDS \in Nat \ {0} /\ BranchIn \subseteq HalfAddr /\ ErrIn \subseteq BOOLEAN

NoPc     == -1
Lost     == -2
Half     == [at : HalfAddr, c : BOOLEAN, bad : BOOLEAN]
NoHalf   == [at |-> NoPc, c |-> FALSE, bad |-> FALSE]
Nothing  == [lo |-> NoHalf, hi |-> NoHalf, err |-> FALSE, plus2 |-> FALSE]

HalfAfter(h, n) == (h + n) % (2 * FETCH_WORDS)
NextHalf(h)     == HalfAfter(h, 1)
Unaligned(h)    == h % 2 = 1

VARIABLES
    output_addr_q,
    skid_valid_q, skid_data_q,  \* the half-word kept; its error is skid_data_q.bad
    word_addr,  \* address of the next word of the fill buffers
    lost_q,     \* the IF stage took an error since the last branch
    taken       \* the instruction the IF stage took at the last edge

output_vars == <<output_addr_q, skid_valid_q, skid_data_q, word_addr, lost_q, taken>>

branch_i(in) == in.addr # NoPc

\* The word on offer.  On a bus error its contents are arbitrary.
data_valid(in) == in.word # NoPc
output_lo(in)  == [at |-> in.word, c |-> in.lo_c, bad |-> in.err]
output_hi(in)  == [at |-> NextHalf(in.word), c |-> in.hi_c, bad |-> in.err]
output_err(in) == in.err

\* The half-word kept is an instruction, or an error that needs no second half.
skid_complete_instr == skid_valid_q /\ (skid_data_q.c \/ skid_data_q.bad)

\* rdata_o: the lower half is the half-word kept, or the half of the word the
\* output address points to; the upper half is what follows in the word.
rdata_lo(in) == IF skid_valid_q THEN skid_data_q
                ELSE IF Unaligned(output_addr_q) THEN output_hi(in) ELSE output_lo(in)
rdata_hi(in) == IF Unaligned(output_addr_q) THEN output_lo(in) ELSE output_hi(in)
output_compressed(in) == rdata_lo(in).c

\* The upper half of a word is kept without the IF stage asking for it when it
\* is the first half of an instruction.
skid_ready(in) == /\ Unaligned(output_addr_q) /\ ~skid_valid_q
                  /\ ~output_compressed(in) \/ output_err(in)

\* Mutant: the word is consumed although the half-word kept is enough.
output_ready_Always(in) == in.ready \/ skid_ready(in)
output_ready(in) == (in.ready \/ skid_ready(in)) /\ ~skid_complete_instr

\* Mutant: what is kept does not make the offered word an instruction.
valid_o_NoSkid(in) ==
    \/ skid_complete_instr
    \/ /\ data_valid(in)
       /\ ~Unaligned(output_addr_q) \/ output_err(in) \/ output_hi(in).c
valid_o(in) ==
    \/ skid_complete_instr
    \/ /\ data_valid(in)
       /\ \/ ~Unaligned(output_addr_q) \/ skid_valid_q
          \/ output_err(in) \/ output_hi(in).c
err_o(in) == \/ skid_valid_q /\ skid_data_q.bad
             \/ ~skid_complete_instr /\ output_err(in)
err_plus2_o == skid_valid_q /\ ~skid_data_q.bad

addr_incr_two(in) == output_compressed(in) /\ ~err_o(in)

skid_valid_d(in) ==
    /\ ~branch_i(in)
    /\ IF skid_valid_q THEN ~(in.ready /\ skid_complete_instr)
       ELSE /\ data_valid(in)
            /\ \/ Unaligned(output_addr_q) /\ (~output_compressed(in) \/ output_err(in))
               \/ /\ ~Unaligned(output_addr_q) /\ in.ready
                  /\ output_compressed(in) /\ ~output_err(in)
skid_en(in) == data_valid(in) /\ (in.ready \/ skid_ready(in))

(***************************************************************************)
(* The registers.  The half-word of a skid buffer that is not valid is     *)
(* never read and kept at one value.                                       *)
(***************************************************************************)
OutputInit ==
    /\ output_addr_q = NoPc /\ skid_valid_q = FALSE /\ skid_data_q = NoHalf
    /\ word_addr = NoPc /\ lost_q = FALSE /\ taken = Nothing

Skid(in) ==
    /\ skid_valid_q' = skid_valid_d(in)
    /\ skid_data_q' = IF ~skid_valid_d(in) THEN NoHalf
                      ELSE IF skid_en(in) THEN output_hi(in) ELSE skid_data_q

OutputAddr(in) ==
    output_addr_q' = CASE branch_i(in) -> in.addr
                       [] ~branch_i(in) /\ in.ready ->
                            HalfAfter(output_addr_q, IF addr_incr_two(in) THEN 1 ELSE 2)
                       [] OTHER -> output_addr_q

\* The fill buffers: a word is consumed, or the stream starts again at the word
\* of the branch target (fill_out_grant in IcacheFill).
Words(in) ==
    word_addr' = CASE branch_i(in) -> in.addr - (in.addr % 2)
                   [] ~branch_i(in) /\ data_valid(in) /\ output_ready(in) ->
                        HalfAfter(word_addr, 2)
                   [] OTHER -> word_addr

Taken(in) ==
    /\ taken' = IF in.ready
                THEN [lo |-> rdata_lo(in), hi |-> rdata_hi(in),
                      err |-> err_o(in), plus2 |-> err_plus2_o]
                ELSE Nothing
    /\ lost_q' = (~branch_i(in) /\ (lost_q \/ (in.ready /\ err_o(in))))

\* in.word: the address of the word on offer, or NoPc.  in.ready is ready_i in a
\* cycle in which an instruction is on offer; without one ready_i has no effect.
Inputs == [addr : BranchIn \cup {NoPc}, word : WordAddr \cup {NoPc}, err : ErrIn,
           lo_c : BOOLEAN, hi_c : BOOLEAN, ready : BOOLEAN]

Env(in) ==
    /\ in.err \/ in.lo_c \/ in.hi_c => data_valid(in)
    /\ in.ready => valid_o(in)

\* The promise of FetchStream: what is on offer is the next word of the stream.
WordInOrder(in) == data_valid(in) => in.word = word_addr

OutputStep(in) == Env(in) /\ WordInOrder(in) /\ Skid(in) /\ OutputAddr(in) /\ Words(in) /\ Taken(in)
OutputNext == \E in \in Inputs : OutputStep(in)

OutputSpec == OutputInit /\ [][OutputNext]_output_vars

-----------------------------------------------------------------------------
(***************************************************************************)
(* Properties.                                                             *)
(***************************************************************************)

\* The instructions the IF stage takes are those of the abstract stream, as
\* they are for the prefetch buffer.
Stream == INSTANCE InstrStream
            WITH pc <- IF lost_q THEN Lost ELSE output_addr_q
InstrsInOrder == Stream!Spec

\* A word on offer is consumed, or completes an instruction the IF stage may
\* take: the two sides never wait for each other.
NeverStuck ==
    \A in \in Inputs : data_valid(in) /\ WordInOrder(in) => output_ready(in) \/ valid_o(in)

\* The beat of a line is selected by the output address plus one if a half-word
\* is kept; that is the word the fill buffers count as next.
SkidMatchesAddress ==
    output_addr_q # NoPc /\ ~lost_q =>
        /\ word_addr = LET w == output_addr_q - (output_addr_q % 2)
                       IN  IF skid_valid_q THEN HalfAfter(w, 2) ELSE w
        /\ skid_valid_q => /\ Unaligned(output_addr_q)
                           /\ skid_data_q.at = output_addr_q

\* What makes the stream right: the two sides agree, and neither blocks the other.
OutputInv == NeverStuck /\ SkidMatchesAddress
=============================================================================
