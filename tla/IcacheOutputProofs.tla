------------------------- MODULE IcacheOutputProofs -------------------------
(***************************************************************************)
(* The output side of the cache hands over the instruction stream, and the *)
(* two sides of it never wait for each other, for every size of the        *)
(* address space.                                                          *)
(*                                                                         *)
(* The argument relates the half-word kept, the output address and the     *)
(* next word of the fill buffers: without an error since the branch, the   *)
(* next word is the one the output address lies in, or the one after it    *)
(* while the half-word at the output address is kept.                      *)
(***************************************************************************)
EXTENDS IcacheOutput, TLAPS

WordOf(h) == h - (h % 2)

TypeOK ==
    /\ output_addr_q \in HalfAddr \cup {NoPc} /\ word_addr \in HalfAddr \cup {NoPc}
    /\ skid_valid_q \in BOOLEAN /\ lost_q \in BOOLEAN
    /\ skid_data_q \in Half \cup {NoHalf}

\* Before the first branch nothing is kept and nothing was lost; after it both
\* addresses are there, and what is kept is a half-word.
Started ==
    /\ output_addr_q = NoPc <=> word_addr = NoPc
    /\ output_addr_q = NoPc => ~skid_valid_q /\ ~lost_q
    /\ skid_valid_q => skid_data_q \in Half

OutputIInv == TypeOK /\ Started /\ SkidMatchesAddress

-----------------------------------------------------------------------------
(* Addresses that wrap.                                                    *)

LEMMA HalfAfterNear ==
  ASSUME NEW h \in HalfAddr, NEW k \in 0..2
  PROVE  HalfAfter(h, k) = IF h + k < 2 * FETCH_WORDS THEN h + k ELSE h + k - 2 * FETCH_WORDS
<1>1. FETCH_WORDS \in Nat \ {0} /\ h \in Nat /\ h < 2 * FETCH_WORDS
  BY OutputAssumption DEF HalfAddr
<1>2. \A m \in Nat \ {0}, n \in Nat : n < m => n % m = n
  OBVIOUS
<1>3. \A m \in Nat \ {0}, n \in Nat : m <= n /\ n < 2 * m => n % m = n - m
  OBVIOUS
<1> DEFINE m == 2 * FETCH_WORDS
           n == h + k
<1>4. m \in Nat \ {0} /\ n \in Nat /\ n < 2 * m
  BY <1>1
<1> HIDE DEF m, n
<1>5. ~(n < m) => m <= n
  BY <1>4
<1>6. n % m = IF n < m THEN n ELSE n - m
  BY <1>2, <1>3, <1>4, <1>5, Zenon
<1>. QED
  BY <1>1, <1>6 DEF HalfAfter, m, n

\* The half-words at and after h, in terms of the word h lies in.
LEMMA NextBoundary ==
  ASSUME NEW h \in HalfAddr
  PROVE  /\ WordOf(h) \in HalfAddr /\ ~Unaligned(WordOf(h)) /\ NextHalf(h) \in HalfAddr
         /\ HalfAfter(h, 2) \in HalfAddr
         /\ NextHalf(NextHalf(h)) = HalfAfter(h, 2)
         /\ WordOf(HalfAfter(h, 2)) = HalfAfter(WordOf(h), 2)
         /\ Unaligned(HalfAfter(h, 2)) <=> Unaligned(h)
         /\ Unaligned(h) => /\ NextHalf(WordOf(h)) = h
                            /\ NextHalf(h) = HalfAfter(WordOf(h), 2)
                            /\ ~Unaligned(NextHalf(h)) /\ WordOf(NextHalf(h)) = NextHalf(h)
                            /\ HalfAfter(h, 2) = NextHalf(HalfAfter(WordOf(h), 2))
         /\ ~Unaligned(h) => /\ WordOf(h) = h /\ WordOf(NextHalf(h)) = h
                             /\ Unaligned(NextHalf(h))
<1>1. FETCH_WORDS \in Nat \ {0} /\ h \in Nat /\ h < 2 * FETCH_WORDS
  BY OutputAssumption DEF HalfAddr
<1>2. PICK q \in Nat : h = 2 * q \/ h = 2 * q + 1
  <2>1. h \div 2 \in Nat /\ (h = 2 * (h \div 2) \/ h = 2 * (h \div 2) + 1)
    BY <1>1
  <2>. QED
    BY <2>1
<1>3. \A n \in Nat : WordOf(2 * n) = 2 * n /\ WordOf(2 * n + 1) = 2 * n
                       /\ ~Unaligned(2 * n) /\ Unaligned(2 * n + 1)
  BY DEF WordOf, Unaligned
<1> DEFINE r == IF q + 1 < FETCH_WORDS THEN q + 1 ELSE 0
<1>4. q < FETCH_WORDS /\ r \in Nat /\ r < FETCH_WORDS
  BY <1>1, <1>2
<1>5. \A p \in Nat : p < FETCH_WORDS => 2 * p \in HalfAddr /\ 2 * p + 1 \in HalfAddr
  BY <1>1 DEF HalfAddr
<1>6. 2 * q \in HalfAddr /\ 2 * q + 1 \in HalfAddr /\ 2 * r \in HalfAddr /\ 2 * r + 1 \in HalfAddr
  BY <1>4, <1>5
<1>7. HalfAfter(2 * q, 1) = 2 * q + 1 /\ HalfAfter(2 * q, 2) = 2 * r
  BY <1>1, <1>4, <1>6, HalfAfterNear
<1>8. HalfAfter(2 * q + 1, 1) = 2 * r /\ HalfAfter(2 * q + 1, 2) = 2 * r + 1
  BY <1>1, <1>4, <1>6, HalfAfterNear
<1>9. HalfAfter(2 * r, 1) = 2 * r + 1
  BY <1>1, <1>4, <1>6, HalfAfterNear
<1> HIDE DEF r
<1>10. CASE h = 2 * q
  BY <1>2, <1>3, <1>4, <1>6, <1>7, <1>8, <1>9, <1>10 DEF NextHalf
<1>11. CASE h = 2 * q + 1
  BY <1>2, <1>3, <1>4, <1>6, <1>7, <1>8, <1>9, <1>11 DEF NextHalf
<1>. QED
  BY <1>2, <1>10, <1>11

-----------------------------------------------------------------------------
(* One clock edge.                                                         *)

LEMMA InputTypes ==
  ASSUME NEW in \in Inputs
  PROVE  /\ in.err \in BOOLEAN /\ in.ready \in BOOLEAN
         /\ in.lo_c \in BOOLEAN /\ in.hi_c \in BOOLEAN
         /\ branch_i(in) => in.addr \in HalfAddr
         /\ NoPc \notin HalfAddr /\ Lost \notin HalfAddr /\ NoPc # Lost
<1>1. /\ in.err \in BOOLEAN /\ in.ready \in BOOLEAN
      /\ in.lo_c \in BOOLEAN /\ in.hi_c \in BOOLEAN /\ in.addr \in BranchIn \cup {NoPc}
  BY OutputAssumption DEF Inputs
<1>2. NoPc \notin HalfAddr /\ Lost \notin HalfAddr /\ NoPc # Lost
  BY OutputAssumption DEF HalfAddr, NoPc, Lost
<1>. QED
  BY <1>1, <1>2, OutputAssumption DEF branch_i

\* The halves of a word on offer.
LEMMA HalvesOnOffer ==
  ASSUME NEW in \in Inputs
  PROVE  /\ output_lo(in).bad = in.err /\ output_hi(in).bad = in.err
         /\ output_lo(in).c = in.lo_c /\ output_hi(in).c = in.hi_c
         /\ data_valid(in) /\ WordInOrder(in) /\ word_addr \in HalfAddr =>
               /\ output_lo(in) \in Half /\ output_hi(in) \in Half
               /\ output_lo(in).at = word_addr /\ output_hi(in).at = NextHalf(word_addr)
  BY InputTypes, NextBoundary DEF output_lo, output_hi, Half, WordInOrder

\* An instruction is only on offer once the stream has started.
LEMMA OfferStarted ==
  ASSUME OutputIInv, NEW in \in Inputs, Env(in), WordInOrder(in),
         data_valid(in) \/ in.ready \/ skid_valid_q
  PROVE  output_addr_q \in HalfAddr /\ word_addr \in HalfAddr
  BY InputTypes DEF OutputIInv, TypeOK, Started, Env, valid_o, skid_complete_instr, data_valid,
                    WordInOrder

LEMMA StepTypes ==
  ASSUME OutputIInv, NEW in \in Inputs, OutputStep(in)
  PROVE  TypeOK' /\ Started'
<1>1. Env(in) /\ WordInOrder(in) /\ Skid(in) /\ OutputAddr(in) /\ Words(in) /\ Taken(in)
  BY DEF OutputStep
<1>2. in.ready => output_addr_q \in HalfAddr
  BY <1>1, OfferStarted
<1>3. data_valid(in) => word_addr \in HalfAddr /\ output_hi(in) \in Half
  BY <1>1, OfferStarted, HalvesOnOffer
<1>4. output_addr_q' \in HalfAddr \cup {NoPc}
      /\ (output_addr_q' = NoPc <=> output_addr_q = NoPc /\ ~branch_i(in))
  <2>1. in.ready => HalfAfter(output_addr_q, 1) \in HalfAddr /\ HalfAfter(output_addr_q, 2) \in HalfAddr
    BY <1>2, NextBoundary DEF NextHalf
  <2>. QED
    BY <1>1, <1>2, <2>1, InputTypes DEF OutputAddr, OutputIInv, TypeOK
<1>5. word_addr' \in HalfAddr \cup {NoPc} /\ (word_addr' = NoPc <=> word_addr = NoPc /\ ~branch_i(in))
  <2>1. branch_i(in) => in.addr - (in.addr % 2) \in HalfAddr
    BY InputTypes, NextBoundary DEF WordOf
  <2>2. data_valid(in) => HalfAfter(word_addr, 2) \in HalfAddr
    BY <1>3, NextBoundary DEF data_valid
  <2>. QED
    BY <1>1, <1>3, <2>1, <2>2, InputTypes DEF Words, OutputIInv, TypeOK, data_valid
<1>6. skid_valid_q' \in BOOLEAN /\ lost_q' \in BOOLEAN
  BY <1>1 DEF Skid, Taken, skid_valid_d
<1>7. skid_valid_q' => skid_data_q' \in Half /\ output_addr_q # NoPc
  <2>1. ASSUME skid_valid_d(in), ~skid_valid_q PROVE data_valid(in) /\ skid_en(in)
    BY <2>1 DEF skid_valid_d, skid_en, skid_ready, data_valid
  <2>2. skid_en(in) => data_valid(in)
    BY DEF skid_en, data_valid
  <2>. QED
    BY <1>1, <1>3, <2>1, <2>2, OfferStarted, InputTypes DEF Skid, OutputIInv, Started
<1>8. skid_data_q' \in Half \cup {NoHalf}
  BY <1>1, <1>7 DEF Skid
<1>9. lost_q' => output_addr_q # NoPc /\ ~branch_i(in)
  BY <1>1, <1>2, InputTypes DEF Taken, OutputIInv, Started
<1>. QED
  BY <1>1, <1>4, <1>5, <1>6, <1>7, <1>8, <1>9 DEF TypeOK, Started, OutputIInv

LEMMA StepMatches ==
  ASSUME OutputIInv, NEW in \in Inputs, OutputStep(in)
  PROVE  SkidMatchesAddress'
<1>1. Env(in) /\ WordInOrder(in) /\ Skid(in) /\ OutputAddr(in) /\ Words(in) /\ Taken(in)
  BY DEF OutputStep
<1>. DEFINE w == WordOf(output_addr_q)
<1>2. SUFFICES ASSUME output_addr_q' # NoPc, ~lost_q'
      PROVE  /\ word_addr' = IF skid_valid_q' THEN HalfAfter(WordOf(output_addr_q'), 2)
                             ELSE WordOf(output_addr_q')
             /\ skid_valid_q' => Unaligned(output_addr_q') /\ skid_data_q'.at = output_addr_q'
  BY DEF SkidMatchesAddress, WordOf
<1>3. CASE branch_i(in)
  BY <1>1, <1>3, InputTypes DEF Skid, OutputAddr, Words, skid_valid_d, WordOf
<1>4. CASE ~branch_i(in)
  <2>1. output_addr_q \in HalfAddr /\ ~lost_q /\ word_addr \in HalfAddr
    BY <1>1, <1>2, <1>4, InputTypes, OfferStarted DEF OutputAddr, Taken, OutputIInv, TypeOK, Started
  <2>2. /\ word_addr = IF skid_valid_q THEN HalfAfter(w, 2) ELSE w
        /\ skid_valid_q => Unaligned(output_addr_q) /\ skid_data_q.at = output_addr_q
    BY <2>1, InputTypes DEF OutputIInv, SkidMatchesAddress, WordOf
  <2>3. in.ready => ~err_o(in)
    BY <1>1, <1>2, <1>4 DEF Taken
  <2>4. output_addr_q' = IF in.ready THEN HalfAfter(output_addr_q, IF output_compressed(in) THEN 1 ELSE 2)
                         ELSE output_addr_q
    BY <1>1, <1>4, <2>3 DEF OutputAddr, addr_incr_two
  <2>5. word_addr' = IF data_valid(in) /\ output_ready(in) THEN HalfAfter(word_addr, 2) ELSE word_addr
    BY <1>1, <1>4 DEF Words
  <2>6. (data_valid(in) => output_hi(in).at = NextHalf(word_addr)) /\ output_hi(in).bad = in.err /\ output_hi(in).c = in.hi_c
        /\ output_lo(in).c = in.lo_c
    BY <1>1, <2>1, HalvesOnOffer
  <2>7. CASE skid_valid_q /\ skid_complete_instr
    <3>1. word_addr' = word_addr /\ ~skid_ready(in)
      BY <2>5, <2>7 DEF output_ready, skid_ready
    <3>2. CASE in.ready
      <4>1. skid_data_q.c /\ output_compressed(in)
        BY <2>3, <2>7, <3>2 DEF err_o, skid_complete_instr, output_compressed, rdata_lo
      <4>2. skid_valid_q' = FALSE /\ output_addr_q' = NextHalf(output_addr_q)
        BY <1>1, <2>4, <2>7, <3>2, <4>1 DEF Skid, skid_valid_d, NextHalf
      <4>. QED
        BY <2>1, <2>2, <2>7, <3>1, <4>2, NextBoundary
    <3>3. CASE ~in.ready
      <4>1. skid_valid_q' = TRUE /\ skid_data_q' = skid_data_q /\ output_addr_q' = output_addr_q
        BY <1>1, <1>4, <2>4, <2>7, <3>1, <3>3 DEF Skid, skid_valid_d, skid_en
      <4>. QED
        BY <2>2, <2>7, <3>1, <4>1
    <3>. QED
      BY <3>2, <3>3
  <2>8. CASE skid_valid_q /\ ~skid_complete_instr
    <3>1. ~skid_ready(in) /\ skid_valid_d(in) /\ ~output_compressed(in)
      BY <1>4, <2>8 DEF skid_ready, skid_valid_d, skid_complete_instr, output_compressed, rdata_lo
    <3>2. in.ready => data_valid(in)
      BY <1>1, <2>8 DEF Env, valid_o
    <3>3. CASE in.ready
      <4>1. output_addr_q' = HalfAfter(output_addr_q, 2) /\ word_addr' = HalfAfter(word_addr, 2)
        BY <2>4, <2>5, <2>8, <3>1, <3>2, <3>3 DEF output_ready
      <4>2. skid_valid_q' = TRUE /\ skid_data_q' = output_hi(in)
        BY <1>1, <3>1, <3>2, <3>3 DEF Skid, skid_en
      <4>. QED
        BY <2>1, <2>2, <2>6, <2>8, <3>2, <3>3, <4>1, <4>2, NextBoundary
    <3>4. CASE ~in.ready
      <4>1. skid_valid_q' = TRUE /\ skid_data_q' = skid_data_q /\ output_addr_q' = output_addr_q
            /\ word_addr' = word_addr
        BY <1>1, <2>4, <2>5, <3>1, <3>4 DEF Skid, skid_en, output_ready
      <4>. QED
        BY <2>2, <2>8, <4>1
    <3>. QED
      BY <3>3, <3>4
  <2>9. CASE ~skid_valid_q /\ Unaligned(output_addr_q)
    <3>1. output_compressed(in) = in.hi_c
      BY <2>6, <2>9 DEF output_compressed, rdata_lo
    <3>2. err_o(in) = in.err /\ ~skid_complete_instr
      BY <2>9, InputTypes DEF err_o, output_err, skid_complete_instr
    <3>3. in.ready => data_valid(in) /\ in.hi_c
      BY <1>1, <2>3, <2>6, <2>9, <3>2 DEF Env, valid_o, data_valid, output_err
    <3>4. CASE in.ready
      <4>1. skid_valid_q' = FALSE /\ output_addr_q' = NextHalf(output_addr_q)
        BY <1>1, <2>3, <2>4, <2>9, <3>1, <3>2, <3>3, <3>4
           DEF Skid, skid_valid_d, output_err, NextHalf
      <4>2. word_addr' = HalfAfter(word_addr, 2)
        BY <2>5, <3>2, <3>3, <3>4 DEF output_ready, data_valid
      <4>. QED
        BY <2>1, <2>2, <2>9, <4>1, <4>2, NextBoundary
    <3>5. CASE ~in.ready /\ data_valid(in) /\ (~in.hi_c \/ in.err)
      <4>1. skid_ready(in) /\ skid_valid_d(in) /\ skid_en(in)
        BY <1>4, <2>9, <3>1, <3>5 DEF skid_ready, skid_valid_d, skid_en, data_valid, output_err
      <4>2. /\ skid_valid_q' = TRUE /\ skid_data_q' = output_hi(in)
            /\ output_addr_q' = output_addr_q /\ word_addr' = HalfAfter(word_addr, 2)
        BY <1>1, <2>4, <2>5, <3>2, <3>5, <4>1 DEF Skid, output_ready, data_valid
      <4>. QED
        BY <2>1, <2>2, <2>6, <2>9, <3>5, <4>2, NextBoundary
    <3>6. CASE ~in.ready /\ ~(data_valid(in) /\ (~in.hi_c \/ in.err))
      <4>1. ~skid_valid_d(in)
        BY <2>9, <3>1, <3>6 DEF skid_valid_d, data_valid, output_err
      <4>2. data_valid(in) => ~skid_ready(in)
        BY <3>1, <3>6 DEF skid_ready, output_err
      <4>3. skid_valid_q' = FALSE /\ output_addr_q' = output_addr_q /\ word_addr' = word_addr
        BY <1>1, <2>4, <2>5, <3>6, <4>1, <4>2 DEF Skid, output_ready, data_valid
      <4>. QED
        BY <2>2, <2>9, <4>3
    <3>. QED
      BY <3>4, <3>5, <3>6
  <2>10. CASE ~skid_valid_q /\ ~Unaligned(output_addr_q)
    <3>1. output_compressed(in) = in.lo_c /\ ~skid_ready(in)
      BY <2>6, <2>10 DEF output_compressed, rdata_lo, skid_ready
    <3>2. err_o(in) = in.err /\ ~skid_complete_instr
      BY <2>10, InputTypes DEF err_o, output_err, skid_complete_instr
    <3>3. in.ready => data_valid(in)
      BY <1>1, <2>10, <3>2 DEF Env, valid_o, data_valid
    <3>4. CASE in.ready /\ in.lo_c
      <4>1. skid_valid_d(in) /\ skid_en(in)
        BY <1>4, <2>3, <2>10, <3>1, <3>2, <3>3, <3>4 DEF skid_valid_d, skid_en, data_valid, output_err
      <4>2. /\ skid_valid_q' = TRUE /\ skid_data_q' = output_hi(in)
            /\ output_addr_q' = NextHalf(output_addr_q) /\ word_addr' = HalfAfter(word_addr, 2)
        BY <1>1, <2>4, <2>5, <3>1, <3>2, <3>3, <3>4, <4>1
           DEF Skid, output_ready, data_valid, NextHalf
      <4>. QED
        BY <2>1, <2>2, <2>6, <2>10, <3>3, <3>4, <4>2, NextBoundary
    <3>5. CASE in.ready /\ ~in.lo_c
      <4>1. skid_valid_q' = FALSE /\ output_addr_q' = HalfAfter(output_addr_q, 2)
            /\ word_addr' = HalfAfter(word_addr, 2)
        BY <1>1, <2>4, <2>5, <2>10, <3>1, <3>2, <3>3, <3>5
           DEF Skid, skid_valid_d, output_ready, data_valid
      <4>. QED
        BY <2>1, <2>2, <2>10, <4>1, NextBoundary
    <3>6. CASE ~in.ready
      <4>1. skid_valid_q' = FALSE /\ output_addr_q' = output_addr_q /\ word_addr' = word_addr
        BY <1>1, <2>4, <2>5, <2>10, <3>1, <3>6 DEF Skid, skid_valid_d, output_ready
      <4>. QED
        BY <2>2, <2>10, <4>1
    <3>. QED
      BY <3>4, <3>5, <3>6
  <2>. QED
    BY <2>7, <2>8, <2>9, <2>10
<1>. QED
  BY <1>3, <1>4

LEMMA InitOutput == OutputInit => OutputIInv
  BY DEF OutputInit, OutputIInv, TypeOK, Started, SkidMatchesAddress

LEMMA StepOutput == OutputIInv /\ [OutputNext]_output_vars => OutputIInv'
<1> SUFFICES ASSUME OutputIInv, [OutputNext]_output_vars PROVE OutputIInv'
  OBVIOUS
<1>1. CASE UNCHANGED output_vars
  BY <1>1 DEF output_vars, OutputIInv, TypeOK, Started, SkidMatchesAddress
<1>2. ASSUME NEW in \in Inputs, OutputStep(in) PROVE OutputIInv'
  BY <1>2, StepTypes, StepMatches DEF OutputIInv
<1>. QED
  BY <1>1, <1>2 DEF OutputNext

\* For every address space, the two sides agree about where the stream is, and neither
\* waits for the other: a word on offer is consumed or completes an instruction.
THEOREM OutputCorrect == OutputSpec => []OutputInv
<1>1. NeverStuck
  <2> SUFFICES ASSUME NEW in \in Inputs, data_valid(in), ~valid_o(in) PROVE output_ready(in)
    BY DEF NeverStuck
  <2>1. ~skid_complete_instr /\ ~skid_valid_q /\ Unaligned(output_addr_q)
        /\ ~output_err(in) /\ ~output_hi(in).c
    BY DEF valid_o, data_valid
  <2>2. skid_ready(in)
    BY <2>1 DEF skid_ready, output_compressed, rdata_lo
  <2>. QED
    BY <2>1, <2>2 DEF output_ready
<1>2. OutputIInv => OutputInv
  BY <1>1 DEF OutputIInv, OutputInv
<1>. QED
  BY <1>2, InitOutput, StepOutput, PTL DEF OutputSpec

-----------------------------------------------------------------------------
(* The instruction stream.                                                 *)

Instr(in) == [lo |-> rdata_lo(in), hi |-> rdata_hi(in), err |-> err_o(in), plus2 |-> err_plus2_o]

\* What the IF stage takes is something, and the instruction at the output address.
LEMMA InstrOnOffer ==
  ASSUME OutputIInv, NEW in \in Inputs, Env(in), WordInOrder(in), in.ready
  PROVE  /\ Instr(in) # Nothing
         /\ ~lost_q => Stream!IsInstrAt(Instr(in), output_addr_q)
<1>1. output_addr_q \in HalfAddr /\ word_addr \in HalfAddr
  BY OfferStarted
<1>2. /\ data_valid(in) =>
            output_lo(in).at = word_addr /\ output_hi(in).at = NextHalf(word_addr)
      /\ output_lo(in).bad = in.err /\ output_hi(in).bad = in.err
      /\ output_lo(in).c = in.lo_c /\ output_hi(in).c = in.hi_c
      /\ NextHalf(word_addr) \in HalfAddr
  BY <1>1, HalvesOnOffer, NextBoundary
<1>3. Instr(in) # Nothing
  <2>0. valid_o(in)
    BY DEF Env
  <2>1. rdata_lo(in).at \in HalfAddr
    <3>1. CASE skid_valid_q
      BY <3>1 DEF rdata_lo, OutputIInv, Started, Half
    <3>2. CASE ~skid_valid_q
      BY <1>1, <1>2, <2>0, <3>2 DEF rdata_lo, valid_o, skid_complete_instr
    <3>. QED
      BY <3>1, <3>2
  <2>. QED
    BY <2>1, InputTypes DEF Instr, Nothing, NoHalf
<1>4. ASSUME ~lost_q PROVE Stream!IsInstrAt(Instr(in), output_addr_q)
  <2>1. /\ word_addr = IF skid_valid_q THEN HalfAfter(WordOf(output_addr_q), 2) ELSE WordOf(output_addr_q)
        /\ skid_valid_q => Unaligned(output_addr_q) /\ skid_data_q.at = output_addr_q
    BY <1>1, <1>4, InputTypes DEF OutputIInv, SkidMatchesAddress, WordOf
  <2>2. valid_o(in)
    BY DEF Env
  <2>3. Instr(in).lo = rdata_lo(in) /\ Instr(in).hi = rdata_hi(in) /\ Instr(in).err = err_o(in)
        /\ Instr(in).plus2 = err_plus2_o
    BY DEF Instr
  <2>4. CASE skid_valid_q
    <3>1. skid_data_q.c \in BOOLEAN /\ skid_data_q.bad \in BOOLEAN
      BY <2>4 DEF OutputIInv, Started, Half
    <3>2. rdata_lo(in) = skid_data_q /\ rdata_hi(in) = output_lo(in)
      BY <2>1, <2>4 DEF rdata_lo, rdata_hi
    <3>3. word_addr = NextHalf(output_addr_q)
      BY <1>1, <2>1, <2>4, NextBoundary
    <3>4. err_o(in) = (skid_data_q.bad \/ (~skid_data_q.c /\ in.err))
      BY <2>4, <3>1, InputTypes DEF err_o, output_err, skid_complete_instr
    <3>5. err_plus2_o = ~skid_data_q.bad
      BY <2>4, <3>1 DEF err_plus2_o
    <3>6. skid_data_q.bad \/ skid_data_q.c \/ data_valid(in)
      BY <2>2, <2>4 DEF valid_o, skid_complete_instr
    <3>. QED
      BY <1>2, <2>1, <2>3, <2>4, <3>1, <3>2, <3>3, <3>4, <3>5, <3>6 DEF Stream!IsInstrAt
  <2>5. CASE ~skid_valid_q
    <3>1. err_o(in) = in.err /\ err_plus2_o = FALSE /\ data_valid(in)
      BY <2>2, <2>5, InputTypes DEF err_o, output_err, skid_complete_instr, err_plus2_o, valid_o
    <3>2. CASE Unaligned(output_addr_q)
      <4>1. rdata_lo(in) = output_hi(in) /\ rdata_hi(in) = output_lo(in)
        BY <2>5, <3>2 DEF rdata_lo, rdata_hi
      <4>2. in.err \/ in.hi_c
        BY <1>2, <2>2, <2>5, <3>2 DEF valid_o, skid_complete_instr, output_err
      <4>3. NextHalf(word_addr) = output_addr_q
        BY <1>1, <2>1, <2>5, <3>2, NextBoundary
      <4>. QED
        BY <1>2, <2>3, <3>1, <4>1, <4>2, <4>3, InputTypes DEF Stream!IsInstrAt
    <3>3. CASE ~Unaligned(output_addr_q)
      <4>1. rdata_lo(in) = output_lo(in) /\ rdata_hi(in) = output_hi(in)
        BY <2>5, <3>3 DEF rdata_lo, rdata_hi
      <4>2. word_addr = output_addr_q
        BY <1>1, <2>1, <2>5, <3>3, NextBoundary
      <4>. QED
        BY <1>2, <2>3, <3>1, <4>1, <4>2, InputTypes DEF Stream!IsInstrAt
    <3>. QED
      BY <3>2, <3>3
  <2>. QED
    BY <2>4, <2>5
<1>. QED
  BY <1>3, <1>4

\* One edge is one step of the abstract stream.
LEMMA StreamStep ==
  ASSUME OutputIInv, NEW in \in Inputs, OutputStep(in)
  PROVE  Stream!Next
<1>1. Env(in) /\ WordInOrder(in) /\ OutputAddr(in) /\ Taken(in)
  BY DEF OutputStep
<1> DEFINE pc == IF lost_q THEN Lost ELSE output_addr_q
<1>2. NoPc \notin HalfAddr /\ Lost \notin HalfAddr /\ NoPc # Lost
  BY InputTypes
<1>3. ~in.ready => Stream!Idle
  BY <1>1 DEF Taken, Stream!Idle
<1>4. ASSUME in.ready PROVE Stream!Take /\ taken' = Instr(in) /\ output_addr_q \in HalfAddr
  <2>1. taken' = Instr(in) /\ Instr(in) # Nothing
    BY <1>1, <1>4, InstrOnOffer DEF Taken, Instr
  <2>2. output_addr_q \in HalfAddr
    BY <1>1, <1>4, OfferStarted
  <2>3. pc # NoPc
    BY <1>2, <2>2
  <2>4. pc # Lost => Stream!IsInstrAt(taken', pc)
    BY <1>1, <1>4, <2>1, InstrOnOffer
  <2>. QED
    BY <2>1, <2>2, <2>3, <2>4 DEF Stream!Take
<1>5. CASE branch_i(in)
  <2>1. lost_q' = FALSE /\ output_addr_q' \in HalfAddr
    BY <1>1, <1>5, InputTypes DEF OutputAddr, Taken
  <2>2. pc' \in HalfAddr
    BY <2>1
  <2>. QED
    BY <1>3, <1>4, <2>2 DEF Stream!Next
<1>6. CASE ~branch_i(in) /\ ~in.ready
  <2>1. lost_q' = lost_q /\ output_addr_q' = output_addr_q
    BY <1>1, <1>6 DEF OutputAddr, Taken, OutputIInv, TypeOK
  <2>2. pc' = pc
    BY <2>1
  <2>. QED
    BY <1>3, <1>6, <2>2 DEF Stream!Next
<1>7. CASE ~branch_i(in) /\ in.ready
  <2>1. lost_q' <=> lost_q \/ Instr(in).err
    BY <1>1, <1>7 DEF Taken, Instr
  <2>2. ~Instr(in).err =>
          output_addr_q' = IF Instr(in).lo.c THEN NextHalf(output_addr_q)
                           ELSE NextHalf(NextHalf(output_addr_q))
    BY <1>1, <1>4, <1>7, NextBoundary DEF OutputAddr, addr_incr_two, output_compressed, Instr, NextHalf
  <2>3. pc' = Stream!PcAfter(taken')
    <3>1. CASE lost_q \/ Instr(in).err
      BY <1>4, <1>7, <2>1, <3>1 DEF Stream!PcAfter
    <3>2. CASE ~lost_q /\ ~Instr(in).err
      <4>1. pc' = output_addr_q' /\ pc = output_addr_q /\ pc # Lost
        BY <1>2, <1>4, <1>7, <2>1, <3>2
      <4>2. Stream!PcAfter(taken') = IF Instr(in).lo.c THEN NextHalf(output_addr_q)
                                     ELSE NextHalf(NextHalf(output_addr_q))
        BY <1>4, <1>7, <3>2, <4>1 DEF Stream!PcAfter
      <4>. QED
        BY <2>2, <3>2, <4>1, <4>2
    <3>. QED
      BY <3>1, <3>2
  <2>. QED
    BY <1>4, <1>7, <2>3 DEF Stream!Next
<1>. QED
  BY <1>5, <1>6, <1>7

\* For every address space, what the IF stage takes from the output side are the
\* instructions that follow one another from the latest branch target on, each with its
\* error: the skid buffer and the realignment implement the abstract stream.
THEOREM OutputStream == OutputSpec => InstrsInOrder
<1>1. OutputInit => Stream!Init
  BY DEF OutputInit, Stream!Init
<1>2. OutputIInv /\ [OutputNext]_output_vars =>
        [Stream!Next]_<<IF lost_q THEN Lost ELSE output_addr_q, taken>>
  <2>1. CASE UNCHANGED output_vars
    BY <2>1 DEF output_vars
  <2>. QED
    BY <2>1, StreamStep DEF OutputNext
<1>. QED
  BY <1>1, <1>2, InitOutput, StepOutput, PTL DEF OutputSpec, InstrsInOrder, Stream!Spec
=============================================================================
