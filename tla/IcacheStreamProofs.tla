------------------------- MODULE IcacheStreamProofs -------------------------
(***************************************************************************)
(* Proofs about the words that IcacheFill collects, writes to the cache    *)
(* and outputs, for every number of fill buffers and every line length.    *)
(***************************************************************************)
EXTENDS IcacheFillProofs

(***************************************************************************)
(* The lookup in IC1.                                                      *)
(***************************************************************************)
\* A clock edge, whatever the lookup in IC1 finds.
Edge(in) == Env(in) /\ Clock(in)

\* A hit is for the youngest buffer ...
LEMMA HitIsYoungest ==
  ASSUME LookupInv, NEW in, NEW i \in fill_hit_ic1(in)
  PROVE  /\ i \in fill_busy_q /\ fill_hit_ic1(in) = {i}
         /\ fill_older_q[i] = fill_busy_q \ {i}
         /\ lookup_valid_ic1 /\ fill_addr_q[i].line = lookup_line_ic1 /\ in.hit # NoLine
  BY DEF LookupInv, fill_hit_ic1, tag_hit_ic1

\* ... and what it finds is that buffer's line.
LEMMA HitFindsLine ==
  ASSUME LookupInv, NEW in, RamEnv(in), NEW i \in fill_hit_ic1(in), NEW b \in Beat
  PROVE  /\ in.hit[b].line = fill_addr_q[i].line
         /\ in.hit[b].beat = b /\ ~in.hit[b].bad
  BY HitIsYoungest DEF RamEnv

\* A clock edge preserves it: the next lookup is for the buffer allocated with it.
LEMMA LookupPreserved ==
  ASSUME TypeOK, AgeOrder, NEW in \in AnyInput, Edge(in)
  PROVE  LookupInv'
  <1>1. LookupRegs(in) /\ AgeRegs(in) /\ StatusRegs(in)
    BY DEF Edge, Clock
  <1>2. CASE lookup_actual_ic0(in)
    <2>1. lookup_grant_ic0(in) /\ fill_busy_q # FB
      BY <1>2 DEF lookup_actual_ic0, lookup_grant_ic0, lookup_req_ic0
    <2>2. PICK n : n \in fill_alloc_sel
      BY <2>1, AllocExists DEF TypeOK
    <2>3. fill_alloc_sel = {n} /\ fill_alloc(in) = {n} /\ n \in FB \ fill_busy_q
      BY <2>1, <2>2, AllocFree
    <2>4. /\ fill_busy_q' = {n} \cup (fill_busy_q \ fill_done(in))
          /\ fill_older_q'[n] = fill_busy_q \ fill_done(in)
          /\ n \in fill_busy_d(in)
      BY <1>1, <2>3, AgeStep DEF TypeOK
    <2>5. fill_addr_q'[n].line = lookup_line_ic1'
      BY <1>1, <1>2, <2>3, <2>4 DEF StatusRegs, LookupRegs
    <2>6. fill_in_ic1' = {n} /\ lookup_valid_ic1'
      BY <1>1, <1>2, <2>3 DEF LookupRegs
    <2>7. n \in fill_busy_q' /\ fill_older_q'[n] = fill_busy_q' \ {n}
      BY <2>3, <2>4
    <2> QED
      BY <2>5, <2>6, <2>7 DEF LookupInv
  <1>3. CASE ~lookup_actual_ic0(in)
    BY <1>1, <1>3 DEF LookupRegs, LookupInv
  <1> QED
    BY <1>2, <1>3

(***************************************************************************)
(* The words a buffer holds.                                               *)
(***************************************************************************)
\* A number between the divisor and twice the divisor has lost it once.
LEMMA ModWrap ==
  ASSUME NEW d \in Nat \ {0}, NEW n \in Nat, d <= n, n < 2 * d
  PROVE  n % d = n - d
  OBVIOUS

\* The next response is stored at the beat that as many beats precede.
LEMMA NextBeat ==
  ASSUME TypeOK, Started, NEW i \in fill_busy_q, NEW b \in Beat
  PROVE  /\ BeatsBefore(i, b) \in Beat
         /\ fill_rvd_cnt_q[i] < IC_LINE_BEATS =>
               (b = fill_rvd_off(i) <=> BeatsBefore(i, b) = fill_rvd_cnt_q[i])
  <1>1. /\ fill_addr_q[i].beat \in Nat /\ fill_addr_q[i].beat < IC_LINE_BEATS
        /\ fill_rvd_cnt_q[i] \in Nat /\ IC_LINE_BEATS \in Nat \ {0}
        /\ b \in Nat /\ b < IC_LINE_BEATS
    <2>1. i \in FB /\ fill_addr_q[i] \in Addr
      BY DEF TypeOK, Started
    <2> QED
      BY <2>1, ParamAssumption DEF TypeOK, Addr, Beat, Count
  <1>2. BeatsBefore(i, b) \in Beat
    BY <1>1 DEF BeatsBefore, Beat
  <1>3. ASSUME fill_rvd_cnt_q[i] < IC_LINE_BEATS
        PROVE  b = fill_rvd_off(i) <=> BeatsBefore(i, b) = fill_rvd_cnt_q[i]
    <2>1. CASE fill_rvd_beat(i) < IC_LINE_BEATS
      <3>1. fill_rvd_off(i) = fill_rvd_beat(i)
        BY <1>1, <2>1, ModSmall DEF fill_rvd_off, fill_rvd_beat
      <3> QED
        BY <1>1, <1>3, <2>1, <3>1 DEF fill_rvd_beat, BeatsBefore
    <2>2. CASE fill_rvd_beat(i) >= IC_LINE_BEATS
      <3>1. fill_rvd_off(i) = fill_rvd_beat(i) - IC_LINE_BEATS
        BY <1>1, <1>3, <2>2, ModWrap DEF fill_rvd_off, fill_rvd_beat
      <3> QED
        BY <1>1, <1>3, <2>2, <3>1 DEF fill_rvd_beat, BeatsBefore
    <2> QED
      BY <1>1, <2>1, <2>2 DEF fill_rvd_beat
  <1> QED
    BY <1>2, <1>3

\* The registers of a buffer that stays busy, and of one allocated.
LEMMA DataStep ==
  ASSUME TypeOK, AgeOrder, LookupInv, OutInv, NEW in \in AnyInput, Edge(in)
  PROVE  /\ \A i \in fill_busy_q \ fill_done(in) :
               /\ fill_rvd_cnt_q'[i] = fill_rvd_cnt_q[i] +
                                       (IF i \in fill_rvd_arb(in) THEN 1 ELSE 0)
               /\ fill_addr_q'[i] = fill_addr_q[i]
               /\ i \in fill_hit_q' <=> i \in fill_hit_ic1(in) \cup fill_hit_q
               /\ fill_err_q'[i] = fill_err_q[i] \cup
                     (IF i \in fill_rvd_arb(in) /\ in.err THEN {fill_rvd_off(i)} ELSE {})
               /\ \A b \in Beat : fill_data_q'[i][b] =
                     IF i \in fill_hit_ic1(in) THEN in.hit[b]
                     ELSE IF i \in fill_rvd_arb(in) \ fill_hit_q /\ b = fill_rvd_off(i)
                          THEN instr_rdata(in) ELSE fill_data_q[i][b]
         /\ \A i \in fill_alloc(in) :
               /\ fill_rvd_cnt_q'[i] = 0 /\ fill_err_q'[i] = {} /\ i \notin fill_hit_q'
               /\ fill_addr_q'[i] = lookup_addr_ic0(in)
  <1>1. AgeRegs(in) /\ StatusRegs(in) /\ RvdRegs(in)
    BY DEF Edge, Clock
  <1>2. /\ fill_busy_d(in) \subseteq FB
        /\ fill_busy_d(in) = fill_alloc(in) \cup (fill_busy_q \ fill_done(in))
        /\ fill_alloc(in) \cap fill_busy_q = {}
    BY <1>1, AgeStep, AllocFree DEF TypeOK
  <1>3. fill_hit_q \subseteq fill_busy_q /\ fill_hit_ic1(in) \subseteq fill_busy_q
    BY HitIsYoungest DEF OutInv
  <1> QED
    BY <1>1, <1>2, <1>3 DEF StatusRegs, RvdRegs

\* What a buffer that waits for data receives is its next beat.
LEMMA RvdData ==
  ASSUME BusIInv, NEW in \in AnyInput, Edge(in), NEW i \in fill_rvd_arb(in)
  PROVE  /\ i \in fill_busy_q /\ in.rvalid /\ fill_rvd_cnt_q[i] < IC_LINE_BEATS
         /\ instr_rdata(in).line = fill_addr_q[i].line
         /\ instr_rdata(in).beat = fill_rvd_off(i)
         /\ instr_rdata(in).bad = in.err
         /\ \E v \in Versions : instr_rdata(in) =
               [line |-> fill_addr_q[i].line, beat |-> fill_rvd_off(i), ver |-> v,
                bad |-> in.err]
  <1>1. TypeOK /\ AgeOrder /\ Started /\ BusInv /\ Env(in)
    BY DEF BusIInv, Edge
  <1>2. in.rvalid /\ bus_q # <<>>
    BY <1>1, RvdArb
  <1>3. PICK h \in fill_busy_q :
           /\ Oldest(fill_rvd_exp) = {h} /\ fill_rvd_cnt_q[h] < fill_ext_cnt_q[h]
           /\ Head(bus_q).addr = [line |-> fill_addr_q[h].line, beat |-> fill_rvd_off(h)]
    BY <1>1, <1>2, HeadOwner
  <1>4. i = h
    BY <1>2, <1>3 DEF fill_rvd_arb
  <1>5. fill_rvd_cnt_q[h] < IC_LINE_BEATS
    <2>1. h \in FB /\ fill_rvd_cnt_q[h] \in Count /\ fill_ext_cnt_q[h] \in Count
      BY <1>1 DEF TypeOK
    <2> QED
      BY <1>3, <2>1, ParamAssumption DEF Count
  <1>6. Head(bus_q).ver \in Versions
    BY <1>1, <1>2, BusIndices DEF Outstanding
  <1> QED
    BY <1>2, <1>3, <1>4, <1>5, <1>6 DEF instr_rdata

\* A clock edge preserves what was received: responses and errors land at their beats.
LEMMA ReceivedPreserved ==
  ASSUME BusIInv, LookupInv, ReceivedHeld, OutInv, NEW in \in AnyInput, Edge(in)
  PROVE  ReceivedHeld'
  <1>1. TypeOK /\ AgeOrder /\ Started /\ AgeRegs(in)
    BY DEF BusIInv, Edge, Clock
  <1>2. fill_busy_q' = fill_alloc(in) \cup (fill_busy_q \ fill_done(in))
    BY <1>1, AgeStep DEF TypeOK
  <1> SUFFICES ASSUME NEW i \in fill_busy_q' \ fill_hit_q', NEW b \in Beat
               PROVE  (IF Received(i, b)
                       THEN HoldsBeat(i, b) /\ (fill_data_q[i][b].bad <=> b \in fill_err_q[i])
                       ELSE b \notin fill_err_q[i])'
    BY DEF ReceivedHeld
  <1>3. CASE i \in fill_alloc(in)
    <2>1. /\ fill_rvd_cnt_q'[i] = 0 /\ fill_err_q'[i] = {} /\ i \notin fill_hit_q'
          /\ fill_addr_q'[i] = lookup_addr_ic0(in)
      BY <1>1, <1>3, DataStep
    <2>2. fill_addr_q'[i].beat \in Nat /\ fill_addr_q'[i].beat < IC_LINE_BEATS
      <3>1. lookup_addr_ic0(in) \in Addr
        BY <1>1, <1>3, LookupAddr DEF fill_alloc, Edge
      <3> QED
        BY <2>1, <3>1, ParamAssumption DEF Addr, Beat
    <2>3. ~Received(i, b)'
      BY <2>1, <2>2, ParamAssumption DEF Received, BeatsBefore, Beat
    <2> QED
      BY <2>1, <2>3
  <1>4. CASE i \in fill_busy_q \ fill_done(in)
    <2>1. /\ fill_rvd_cnt_q'[i] = fill_rvd_cnt_q[i] +
                                  (IF i \in fill_rvd_arb(in) THEN 1 ELSE 0)
          /\ fill_addr_q'[i] = fill_addr_q[i]
          /\ i \in fill_hit_q' <=> i \in fill_hit_ic1(in) \cup fill_hit_q
          /\ fill_err_q'[i] = fill_err_q[i] \cup
                (IF i \in fill_rvd_arb(in) /\ in.err THEN {fill_rvd_off(i)} ELSE {})
          /\ fill_data_q'[i][b] =
                IF i \in fill_hit_ic1(in) THEN in.hit[b]
                ELSE IF i \in fill_rvd_arb(in) \ fill_hit_q /\ b = fill_rvd_off(i)
                     THEN instr_rdata(in) ELSE fill_data_q[i][b]
      BY <1>1, <1>4, DataStep
    <2>2. /\ i \in FB /\ fill_rvd_cnt_q[i] \in Nat /\ BeatsBefore(i, b) \in Nat
          /\ BeatsBefore(i, b)' = BeatsBefore(i, b)
      BY <1>1, <1>4, <2>1, NextBeat, ParamAssumption DEF TypeOK, Count, Beat, BeatsBefore
    <2>3. i \notin fill_hit_ic1(in) \cup fill_hit_q
      BY <2>1
    <2>4. IF Received(i, b)
          THEN HoldsBeat(i, b) /\ (fill_data_q[i][b].bad <=> b \in fill_err_q[i])
          ELSE b \notin fill_err_q[i]
      BY <1>4, <2>3 DEF ReceivedHeld
    <2>6. CASE i \notin fill_rvd_arb(in)
      BY <2>1, <2>2, <2>3, <2>4, <2>6 DEF HoldsBeat, Received
    <2>7. CASE i \in fill_rvd_arb(in)
      <3>1. /\ instr_rdata(in).line = fill_addr_q[i].line
            /\ instr_rdata(in).beat = fill_rvd_off(i)
            /\ instr_rdata(in).bad = in.err
            /\ b = fill_rvd_off(i) <=> BeatsBefore(i, b) = fill_rvd_cnt_q[i]
        BY <1>1, <2>7, RvdData, NextBeat
      <3>2. Received(i, b)' <=> Received(i, b) \/ b = fill_rvd_off(i)
        BY <2>1, <2>2, <2>7, <3>1 DEF Received
      <3>3. b = fill_rvd_off(i) => ~Received(i, b)
        BY <2>2, <3>1 DEF Received
      <3>4. CASE b = fill_rvd_off(i)
        <4>1. b \notin fill_err_q[i] /\ Received(i, b)' /\ i \notin fill_hit_q'
          BY <2>1, <2>3, <2>4, <2>7, <3>2, <3>3, <3>4
        <4>2. HoldsBeat(i, b)' /\ fill_data_q'[i][b].bad = in.err
          BY <2>1, <2>3, <2>7, <3>1, <3>4 DEF HoldsBeat
        <4>3. b \in fill_err_q'[i] <=> in.err
          BY <2>1, <2>7, <3>4, <4>1
        <4> QED
          BY <4>1, <4>2, <4>3, InputTypes
      <3>5. CASE b # fill_rvd_off(i)
        <4>1. fill_data_q'[i][b] = fill_data_q[i][b]
          BY <2>1, <2>3, <2>7, <3>5
        <4>2. b \in fill_err_q'[i] <=> b \in fill_err_q[i]
          BY <2>1, <3>5
        <4>3. HoldsBeat(i, b)' <=> HoldsBeat(i, b)
          BY <2>1, <4>1 DEF HoldsBeat
        <4> QED
          BY <2>1, <2>3, <2>4, <2>7, <3>2, <3>5, <4>1, <4>2, <4>3
      <3> QED
        BY <3>4, <3>5
    <2> QED
      BY <2>6, <2>7
  <1> QED
    BY <1>2, <1>3, <1>4

\* ... and what was found, as long as the RAMs hold lines.
LEMMA HitPreserved ==
  ASSUME BusIInv, LookupInv, HitHeld, OutInv, NEW in \in AnyInput, Edge(in), RamEnv(in)
  PROVE  HitHeld'
  <1>1. TypeOK /\ AgeOrder /\ AgeRegs(in)
    BY DEF BusIInv, Edge, Clock
  <1>2. fill_busy_q' = fill_alloc(in) \cup (fill_busy_q \ fill_done(in))
    BY <1>1, AgeStep DEF TypeOK
  <1> SUFFICES ASSUME NEW i \in fill_busy_q' \cap fill_hit_q', NEW b \in Beat
               PROVE  (HoldsBeat(i, b) /\ ~fill_data_q[i][b].bad)'
    BY DEF HitHeld
  <1>3. i \in fill_busy_q \ fill_done(in)
    BY <1>1, <1>2, DataStep
  <1>4. /\ fill_addr_q'[i] = fill_addr_q[i]
        /\ i \in fill_hit_ic1(in) \cup fill_hit_q
        /\ fill_data_q'[i][b] = IF i \in fill_hit_ic1(in) THEN in.hit[b]
                                ELSE IF i \in fill_rvd_arb(in) \ fill_hit_q /\ b = fill_rvd_off(i)
                                     THEN instr_rdata(in) ELSE fill_data_q[i][b]
    BY <1>1, <1>3, DataStep
  <1>5. CASE i \in fill_hit_ic1(in)
    BY <1>4, <1>5, HitFindsLine DEF HoldsBeat
  <1>6. CASE i \notin fill_hit_ic1(in)
    BY <1>3, <1>4, <1>6 DEF HitHeld, HoldsBeat
  <1> QED
    BY <1>5, <1>6

(***************************************************************************)
(* The words a buffer outputs.                                             *)
(***************************************************************************)
\* The IF stage is given a word of the oldest buffer that has one to output.
LEMMA OutGrant ==
  ASSUME AgeOrder, NEW in
  PROVE  /\ fill_out_arb(in) \subseteq out_waiting /\ fill_out_grant(in) \subseteq fill_out_arb(in)
         /\ \A i \in fill_out_arb(in) : fill_older_q[i] \cap out_waiting = {}
         /\ \A i \in fill_out_arb(in) : \A j \in out_waiting :
               fill_older_q[j] \cap out_waiting = {} => i = j
  <1>1. fill_out_arb(in) \subseteq out_waiting /\ fill_out_grant(in) \subseteq fill_out_arb(in)
    BY DEF fill_out_grant, fill_out_arb, fill_out_req
  <1>2. \A i \in fill_out_arb(in) : fill_older_q[i] \cap out_waiting = {}
    BY DEF fill_out_arb, fill_data_sel
  <1>3. ASSUME NEW i \in fill_out_arb(in), NEW j \in out_waiting,
               fill_older_q[j] \cap out_waiting = {}
        PROVE  i = j
    <2>1. i \in Oldest(out_waiting) /\ j \in Oldest(out_waiting)
      BY <1>1, <1>2, <1>3 DEF Oldest
    <2>2. out_waiting \in SUBSET fill_busy_q
      BY DEF out_waiting
    <2> QED
      BY <2>1, <2>2, OldestUnique
  <1> QED
    BY <1>1, <1>2, <1>3

\* The lookup a cycle grants, the buffer it allocates, and the addresses.
LEMMA AllocStep ==
  ASSUME TypeOK, NEW in \in AnyInput, Edge(in)
  PROVE  /\ lookup_grant_ic0(in) =>
              /\ \E n \in FB \ fill_busy_q : fill_alloc(in) = {n}
              /\ prefetch_addr_q' = [line |-> NextLine(lookup_addr_ic0(in).line), beat |-> 0]
              /\ lookup_addr_ic0(in) \in Addr
         /\ ~lookup_grant_ic0(in) =>
              /\ fill_alloc(in) = {}
              /\ prefetch_addr_q' = IF branch_i(in) THEN in.addr ELSE prefetch_addr_q
         /\ lookup_addr_ic0(in) = IF branch_i(in) THEN in.addr ELSE prefetch_addr_q
         /\ branch_i(in) => in.addr \in Addr
  <1>1. LookupRegs(in) /\ Env(in)
    BY DEF Edge, Clock
  <1>2. ASSUME lookup_grant_ic0(in)
        PROVE  /\ \E n \in FB \ fill_busy_q : fill_alloc(in) = {n}
               /\ prefetch_addr_q' = [line |-> NextLine(lookup_addr_ic0(in).line), beat |-> 0]
               /\ lookup_addr_ic0(in) \in Addr
    <2>1. fill_busy_q # FB /\ lookup_addr_ic0(in) \in Addr
      BY <1>1, <1>2, LookupAddr
    <2>2. PICK n : n \in fill_alloc_sel
      BY <2>1, AllocExists DEF TypeOK
    <2>3. fill_alloc(in) = {n} /\ n \in FB \ fill_busy_q
      BY <1>2, <2>2, AllocFree
    <2> QED
      BY <1>1, <1>2, <2>1, <2>3 DEF LookupRegs, prefetch_addr_en, prefetch_addr_d
  <1>3. ASSUME ~lookup_grant_ic0(in)
        PROVE  /\ fill_alloc(in) = {}
               /\ prefetch_addr_q' = IF branch_i(in) THEN in.addr ELSE prefetch_addr_q
    BY <1>1, <1>3 DEF LookupRegs, prefetch_addr_en, prefetch_addr_d, fill_alloc
  <1>4. /\ lookup_addr_ic0(in) = IF branch_i(in) THEN in.addr ELSE prefetch_addr_q
        /\ branch_i(in) => in.addr \in Addr
    BY InputTypes DEF lookup_addr_ic0, branch_i
  <1> QED
    BY <1>2, <1>3, <1>4

\* The count of words a buffer has put out.
LEMMA OutStep ==
  ASSUME TypeOK, AgeOrder, NEW in \in AnyInput, Edge(in)
  PROVE  /\ \A i \in fill_busy_q \ fill_done(in) :
               fill_out_cnt_q'[i] = fill_out_cnt_q[i] +
                                    (IF i \in fill_out_grant(in) THEN 1 ELSE 0)
         /\ \A i \in fill_alloc(in) : /\ fill_out_cnt_q'[i] = lookup_addr_ic0(in).beat
                                      /\ fill_addr_q'[i] = lookup_addr_ic0(in)
                                      /\ lookup_addr_ic0(in).beat \in Nat
                                      /\ lookup_addr_ic0(in).beat < IC_LINE_BEATS
         /\ \A i \in fill_busy_q \ fill_done(in) : fill_addr_q'[i] = fill_addr_q[i]
  <1>1. AgeRegs(in) /\ StatusRegs(in) /\ OutRegs(in)
    BY DEF Edge, Clock
  <1>2. /\ fill_busy_d(in) \subseteq FB
        /\ fill_busy_d(in) = fill_alloc(in) \cup (fill_busy_q \ fill_done(in))
        /\ fill_alloc(in) \cap fill_busy_q = {}
    BY <1>1, AgeStep, AllocFree DEF TypeOK
  <1>3. ASSUME NEW i \in fill_alloc(in)
        PROVE  lookup_addr_ic0(in).beat \in Nat /\ lookup_addr_ic0(in).beat < IC_LINE_BEATS
    <2>1. lookup_addr_ic0(in) \in Addr
      BY <1>3, AllocStep
    <2> QED
      BY <2>1, ParamAssumption DEF Addr, Beat
  <1> QED
    BY <1>1, <1>2, <1>3 DEF StatusRegs, OutRegs

\* The buffer that outputs its last word.
Finished(in) == {i \in fill_out_grant(in) : fill_out_cnt_q[i] + 1 = IC_LINE_BEATS}

\* The buffers that have words to output in the next cycle.
LEMMA WaitingStep ==
  ASSUME TypeOK, AgeOrder, OutInv, TypeOK', NEW in \in AnyInput, Edge(in)
  PROVE  /\ branch_i(in) => out_waiting' = fill_alloc(in)
         /\ ~branch_i(in) =>
              /\ out_waiting' = fill_alloc(in) \cup (out_waiting \ Finished(in))
              /\ out_waiting \cap fill_done(in) = {}
  <1>1. AgeRegs(in) /\ StatusRegs(in)
    BY DEF Edge, Clock
  <1>2. /\ fill_busy_d(in) \subseteq FB /\ fill_busy_q' = fill_busy_d(in)
        /\ fill_busy_d(in) = fill_alloc(in) \cup (fill_busy_q \ fill_done(in))
        /\ fill_alloc(in) \cap fill_busy_q = {}
        /\ fill_stale_q \subseteq fill_busy_q
    BY <1>1, AgeStep, AllocFree DEF TypeOK, OutInv
  <1>3. \A i \in fill_alloc(in) : fill_out_cnt_q'[i] # IC_LINE_BEATS
    BY OutStep, ParamAssumption
  <1>4. \A i \in fill_alloc(in) : i \in out_waiting'
    BY <1>1, <1>2, <1>3 DEF out_waiting, fill_out_done, StatusRegs
  <1>5. CASE branch_i(in)
    <2>1. fill_stale_q' = fill_busy_d(in) \cap fill_busy_q
      BY <1>1, <1>5 DEF StatusRegs
    <2>2. out_waiting' \subseteq fill_alloc(in)
      BY <1>2, <2>1 DEF out_waiting
    <2> QED
      BY <1>4, <1>5, <2>2
  <1>6. CASE ~branch_i(in)
    <2>1. fill_stale_q' = fill_busy_d(in) \cap fill_stale_q
      BY <1>1, <1>6 DEF StatusRegs
    <2>2. out_waiting \cap fill_done(in) = {}
      BY <1>6 DEF out_waiting, fill_done
    <2>3. ASSUME NEW i \in fill_busy_q \ fill_done(in)
          PROVE  i \in out_waiting' <=> i \in out_waiting \ Finished(in)
      <3>1. /\ fill_out_cnt_q'[i] = fill_out_cnt_q[i] +
                                    (IF i \in fill_out_grant(in) THEN 1 ELSE 0)
            /\ fill_out_cnt_q[i] \in Nat
        BY <2>3, OutStep, ParamAssumption DEF TypeOK, Count
      <3>2. i \in out_waiting' <=> i \notin fill_stale_q /\ fill_out_cnt_q'[i] # IC_LINE_BEATS
        BY <1>2, <2>1, <2>3 DEF out_waiting, fill_out_done
      <3>3. i \in fill_out_grant(in) => i \in out_waiting
        BY OutGrant
      <3>4. i \in out_waiting <=> i \notin fill_stale_q /\ fill_out_cnt_q[i] # IC_LINE_BEATS
        BY <2>3 DEF out_waiting, fill_out_done
      <3> QED
        BY <3>1, <3>2, <3>3, <3>4, ParamAssumption DEF Finished
    <2>4. out_waiting' \subseteq fill_busy_q' /\ out_waiting \subseteq fill_busy_q
      BY DEF out_waiting
    <2> QED
      BY <1>2, <1>4, <1>6, <2>2, <2>3, <2>4
  <1> QED
    BY <1>5, <1>6

\* A buffer puts out no word before it has it.
LEMMA OutNotAhead ==
  ASSUME BusIInv, LookupInv, OutInv, NEW in \in AnyInput, Edge(in),
         NEW i \in fill_busy_q' \ fill_hit_q'
  PROVE  (fill_out_cnt_q[i] <= fill_rvd_beat(i))'
  <1>1. TypeOK /\ AgeOrder /\ AgeRegs(in)
    BY DEF BusIInv, Edge, Clock
  <1>2. fill_busy_q' = fill_alloc(in) \cup (fill_busy_q \ fill_done(in))
    BY <1>1, AgeStep DEF TypeOK
  <1>3. CASE i \in fill_alloc(in)
    BY <1>1, <1>3, OutStep, DataStep DEF fill_rvd_beat
  <1>4. CASE i \in fill_busy_q \ fill_done(in)
    <2>1. /\ fill_out_cnt_q'[i] = fill_out_cnt_q[i] +
                                  (IF i \in fill_out_grant(in) THEN 1 ELSE 0)
          /\ fill_rvd_cnt_q'[i] = fill_rvd_cnt_q[i] +
                                  (IF i \in fill_rvd_arb(in) THEN 1 ELSE 0)
          /\ fill_addr_q'[i] = fill_addr_q[i]
          /\ i \notin fill_hit_ic1(in) \cup fill_hit_q
      BY <1>1, <1>4, OutStep, DataStep
    <2>2. /\ fill_out_cnt_q[i] \in Nat /\ fill_rvd_cnt_q[i] \in Nat
          /\ fill_addr_q[i].beat \in Nat
          /\ fill_out_cnt_q[i] <= fill_addr_q[i].beat + fill_rvd_cnt_q[i]
      <3>1. i \in FB /\ fill_addr_q[i] \in Addr \cup {NoAddr}
        BY <1>1, <1>4 DEF TypeOK
      <3>2. fill_addr_q[i].beat \in Nat
        BY <3>1, NoAddrNotAddr, ParamAssumption DEF Addr, Beat
      <3> QED
        BY <1>1, <1>4, <2>1, <3>1, <3>2, ParamAssumption
        DEF TypeOK, Count, OutInv, fill_rvd_beat
    <2>3. i \in fill_out_grant(in) =>
             i \in fill_rvd_arb(in) \/ fill_addr_q[i].beat + fill_rvd_cnt_q[i] > fill_out_cnt_q[i]
      BY <2>1 DEF fill_out_grant, fill_out_arb, fill_out_req, fill_rvd_beat
    <2> QED
      BY <2>1, <2>2, <2>3 DEF fill_rvd_beat
  <1> QED
    BY <1>2, <1>3, <1>4

\* A branch leaves at most the buffer it allocates to output words.
LEMMA BranchConsecutive ==
  ASSUME TypeOK, AgeOrder, OutInv, TypeOK', AgeOrder', NEW in \in AnyInput, Edge(in), branch_i(in)
  PROVE  Consecutive'
  <1>1. out_waiting' = fill_alloc(in) /\ out_addr' = in.addr
    BY WaitingStep DEF Edge, Clock, OutRegs
  <1>2. CASE ~lookup_grant_ic0(in)
    <2>1. fill_alloc(in) = {} /\ prefetch_addr_q' = in.addr
      BY <1>2, AllocStep
    <2> QED
      BY <1>1, <2>1 DEF Consecutive
  <1>3. CASE lookup_grant_ic0(in)
    <2>1. PICK n \in FB \ fill_busy_q : fill_alloc(in) = {n}
      BY <1>3, AllocStep
    <2>2. /\ prefetch_addr_q' = [line |-> NextLine(in.addr.line), beat |-> 0]
          /\ fill_addr_q'[n] = in.addr /\ fill_out_cnt_q'[n] = in.addr.beat
          /\ in.addr \in Addr /\ in.addr.beat \in Nat
      BY <1>3, <2>1, AllocStep, OutStep
    <2>3. out_waiting' = {n} /\ fill_older_q'[n] \cap {n} = {}
      BY <1>1, <2>1 DEF AgeOrder
    <2>4. out_addr' = [line |-> fill_addr_q'[n].line, beat |-> fill_out_cnt_q'[n]]
      BY <1>1, <2>2 DEF Addr
    <2>5. prefetch_addr_q' = LineAfter(n)'
      BY <2>2 DEF LineAfter
    <2> QED
      BY <2>2, <2>3, <2>4, <2>5 DEF Consecutive
  <1> QED
    BY <1>2, <1>3

\* Without a branch the oldest buffer may put out a word, perhaps its last, and
\* the buffer allocated continues after the youngest.
LEMMA StayConsecutive ==
  ASSUME BusIInv, OutInv, TypeOK', NEW in \in AnyInput, Edge(in), ~branch_i(in)
  PROVE  Consecutive'
  <1> DEFINE W == out_waiting
             new == fill_alloc(in)
             gone == Finished(in)
             keep == W \ gone
             older == fill_older_q
  <1>1. /\ TypeOK /\ AgeOrder /\ AgeRegs(in) /\ Consecutive
        /\ W \subseteq fill_busy_q /\ fill_busy_q \subseteq FB
    BY DEF BusIInv, Edge, Clock, OutInv, out_waiting, TypeOK
  <1>2. /\ out_waiting' = new \cup keep
        /\ W \cap fill_done(in) = {}
    BY <1>1, WaitingStep
  <1>3. /\ \A i \in keep : /\ fill_older_q'[i] = older[i] \ fill_done(in)
                           /\ fill_addr_q'[i] = fill_addr_q[i]
                           /\ fill_out_cnt_q'[i] = fill_out_cnt_q[i] +
                                 (IF i \in fill_out_grant(in) THEN 1 ELSE 0)
                           /\ older[i] \subseteq fill_busy_q
        /\ \A i \in new : fill_older_q'[i] = fill_busy_q \ fill_done(in)
        /\ new \cap fill_busy_q = {}
    BY <1>1, <1>2, AgeStep, AllocFree, OutStep DEF AgeOrder
  <1>4. /\ \A i \in keep : fill_older_q'[i] \cap out_waiting' = older[i] \cap keep
        /\ \A i \in keep, j \in keep : i \in fill_older_q'[j] <=> i \in older[j]
        /\ \A i \in keep, j \in new : i \in fill_older_q'[j]
        /\ \A i \in new, j \in out_waiting' : i \notin fill_older_q'[j]
        /\ \A j \in new : fill_older_q'[j] \cap out_waiting' = keep
    BY <1>1, <1>2, <1>3
  <1>5. /\ gone \subseteq fill_out_grant(in) /\ fill_out_grant(in) \subseteq W
        /\ \A h \in fill_out_grant(in) : older[h] \cap W = {}
        /\ \A h \in fill_out_grant(in) : \A i \in W : older[i] \cap W = {} => h = i
    BY <1>1, OutGrant DEF Finished
  <1>6. out_addr' = IF fill_out_grant(in) # {} THEN NextAddr(out_addr) ELSE out_addr
    BY DEF Edge, Clock, OutRegs
  <1>7. ASSUME NEW h \in gone
        PROVE  out_addr' = LineAfter(h)
    <2>1. fill_out_cnt_q[h] + 1 = IC_LINE_BEATS /\ h \in FB /\ fill_out_cnt_q[h] \in Nat
      BY <1>1, <1>5, ParamAssumption DEF Finished, TypeOK, Count
    <2>2. out_addr = [line |-> fill_addr_q[h].line, beat |-> IC_LINE_BEATS - 1]
      BY <1>1, <1>5, <2>1 DEF Consecutive
    <2> QED
      BY <1>5, <1>6, <2>2 DEF NextAddr, LineAfter
  <1>8. \A i \in keep : (\A k \in keep : i \notin older[k]) => prefetch_addr_q = LineAfter(i)
    BY <1>1, <1>5 DEF Consecutive
  <1>9. /\ lookup_grant_ic0(in) =>
              /\ \E n \in FB \ fill_busy_q : new = {n}
              /\ prefetch_addr_q' = [line |-> NextLine(prefetch_addr_q.line), beat |-> 0]
              /\ prefetch_addr_q \in Addr
        /\ ~lookup_grant_ic0(in) => new = {} /\ prefetch_addr_q' = prefetch_addr_q
        /\ \A n \in new : /\ fill_out_cnt_q'[n] = prefetch_addr_q.beat
                          /\ fill_addr_q'[n] = prefetch_addr_q
                          /\ prefetch_addr_q.beat \in Nat
                          /\ prefetch_addr_q \in Addr
    BY <1>1, AllocStep, OutStep
  <1>10. keep = {} => out_addr' = prefetch_addr_q
    <2>1. CASE W = {}
      BY <1>1, <1>5, <1>6, <2>1 DEF Consecutive
    <2>2. CASE W # {} /\ keep = {}
      <3>1. PICK h \in gone : h \in W
        BY <2>2
      <3>2. \A k \in W : h \notin older[k]
        BY <1>5, <2>2, <3>1
      <3> QED
        BY <1>1, <1>7, <3>1, <3>2 DEF Consecutive
    <2> QED
      BY <2>1, <2>2
  <1> HIDE DEF keep, new, gone
  <1>11. ASSUME NEW i \in out_waiting'
         PROVE  IF fill_older_q'[i] \cap out_waiting' = {}
                THEN out_addr' = [line |-> fill_addr_q'[i].line, beat |-> fill_out_cnt_q'[i]]
                ELSE fill_out_cnt_q'[i] = 0
    <2>1. CASE i \in new
      <3>1. CASE keep = {}
        <4>1. prefetch_addr_q =
                 [line |-> fill_addr_q'[i].line, beat |-> fill_out_cnt_q'[i]]
          BY <1>9, <2>1 DEF Addr
        <4> QED
          BY <1>4, <1>10, <2>1, <3>1, <4>1
      <3>2. CASE keep # {}
        <4>1. prefetch_addr_q.beat = 0
          BY <1>1, <3>2 DEF keep, Consecutive
        <4> QED
          BY <1>4, <1>9, <2>1, <3>2, <4>1
      <3> QED
        BY <3>1, <3>2
    <2>2. CASE i \in keep
      <3>1. i \in W /\ i \notin gone /\ i \in FB /\ fill_out_cnt_q[i] \in Nat
        BY <1>1, <2>2, ParamAssumption DEF keep, TypeOK, Count
      <3>2. CASE older[i] \cap W = {}
        <4>1. /\ fill_older_q'[i] \cap out_waiting' = {}
              /\ out_addr = [line |-> fill_addr_q[i].line, beat |-> fill_out_cnt_q[i]]
          BY <1>1, <1>4, <2>2, <3>1, <3>2 DEF keep, Consecutive
        <4>2. CASE i \in fill_out_grant(in)
          <5>1. fill_out_cnt_q[i] # IC_LINE_BEATS - 1
            BY <3>1, <4>2, ParamAssumption DEF gone, Finished
          <5>2. out_addr' = [line |-> fill_addr_q[i].line, beat |-> fill_out_cnt_q[i] + 1]
            BY <1>6, <4>1, <4>2, <5>1 DEF NextAddr
          <5> QED
            BY <1>3, <2>2, <4>1, <4>2, <5>2
        <4>3. CASE i \notin fill_out_grant(in)
          <5>1. fill_out_grant(in) = {}
            BY <1>5, <3>1, <3>2, <4>3
          <5> QED
            BY <1>3, <1>6, <2>2, <3>1, <4>1, <4>3, <5>1
        <4> QED
          BY <4>2, <4>3
      <3>3. CASE older[i] \cap W # {}
        <4>1. i \notin fill_out_grant(in) /\ fill_out_cnt_q[i] = 0 /\ fill_out_cnt_q'[i] = 0
          BY <1>1, <1>3, <1>5, <2>2, <3>1, <3>3 DEF Consecutive
        <4>2. CASE older[i] \cap keep = {}
          <5>1. PICK h \in gone : h \in older[i] /\ h \in W
            BY <3>3, <4>2 DEF keep
          <5>2. \A k \in W : ~(h \in older[k] /\ k \in older[i])
            <6> SUFFICES ASSUME NEW k \in W, h \in older[k], k \in older[i] PROVE FALSE
              OBVIOUS
            <6>1. k \in gone
              BY <4>2 DEF keep
            <6>2. older[k] \cap W = {}
              BY <1>5, <6>1
            <6> QED
              BY <5>1, <6>2
          <5>3. fill_addr_q[i] = LineAfter(h)
            BY <1>1, <3>1, <5>1, <5>2 DEF Consecutive
          <5>4. out_addr' = [line |-> fill_addr_q'[i].line, beat |-> fill_out_cnt_q'[i]]
            BY <1>3, <1>7, <2>2, <4>1, <5>1, <5>3 DEF LineAfter
          <5> QED
            BY <4>1, <5>4
        <4>3. CASE older[i] \cap keep # {}
          BY <1>4, <2>2, <4>1, <4>3
        <4> QED
          BY <4>2, <4>3
      <3> QED
        BY <3>2, <3>3
    <2> QED
      BY <1>2, <2>1, <2>2 DEF keep, new, gone
  <1>12. ASSUME NEW i \in out_waiting'
         PROVE  fill_out_cnt_q'[i] >= fill_addr_q'[i].beat
    <2>1. CASE i \in new
      BY <1>9, <2>1
    <2>2. CASE i \in keep
      <3>1. /\ fill_out_cnt_q[i] \in Nat /\ fill_addr_q[i].beat \in Nat
            /\ fill_out_cnt_q[i] >= fill_addr_q[i].beat
        <4>1. i \in FB /\ i \in W /\ fill_addr_q[i] \in Addr \cup {NoAddr}
          BY <1>1, <2>2 DEF keep, TypeOK
        <4>2. fill_addr_q[i].beat \in Nat
          BY <4>1, NoAddrNotAddr, ParamAssumption DEF Addr, Beat
        <4> QED
          BY <1>1, <4>1, <4>2, ParamAssumption DEF TypeOK, Count, Consecutive
      <3> QED
        BY <1>3, <2>2, <3>1
    <2> QED
      BY <1>2, <2>1, <2>2 DEF keep, new, gone
  <1>13. ASSUME NEW i \in out_waiting', NEW j \in out_waiting', i \in fill_older_q'[j],
                \A k \in out_waiting' : ~(i \in fill_older_q'[k] /\ k \in fill_older_q'[j])
         PROVE  fill_addr_q'[j] = LineAfter(i)'
    <2>1. i \in keep
      BY <1>2, <1>4, <1>13 DEF keep, new, gone
    <2>2. LineAfter(i)' = LineAfter(i)
      BY <1>3, <2>1 DEF LineAfter
    <2>3. CASE j \in new
      <3>1. \A k \in keep : i \notin older[k]
        BY <1>2, <1>4, <1>13, <2>1, <2>3 DEF keep, new, gone
      <3>2. prefetch_addr_q = LineAfter(i)
        BY <1>8, <2>1, <3>1 DEF keep, gone
      <3> QED
        BY <1>9, <2>2, <2>3, <3>2
    <2>4. CASE j \in keep
      <3>1. i \in older[j] /\ i \in W /\ j \in W
        BY <1>4, <1>13, <2>1, <2>4 DEF keep
      <3>2. ASSUME NEW k \in W, i \in older[k], k \in older[j] PROVE FALSE
        <4>1. CASE k \in keep
          BY <1>2, <1>4, <1>13, <2>1, <2>4, <3>2, <4>1 DEF keep, new, gone
        <4>2. CASE k \in gone
          BY <1>5, <3>1, <3>2, <4>2
        <4> QED
          BY <4>1, <4>2 DEF keep
      <3>3. fill_addr_q[j] = LineAfter(i)
        BY <1>1, <3>1, <3>2 DEF Consecutive
      <3> QED
        BY <1>3, <2>2, <2>4, <3>3
    <2> QED
      BY <1>2, <2>3, <2>4 DEF keep, new, gone
  <1>14. ASSUME NEW i \in out_waiting', \A k \in out_waiting' : i \notin fill_older_q'[k]
         PROVE  prefetch_addr_q' = LineAfter(i)'
    <2>1. CASE i \in new
      BY <1>9, <2>1 DEF LineAfter
    <2>2. CASE i \in keep
      <3>1. new = {}
        BY <1>2, <1>4, <1>14, <2>2 DEF keep, new, gone
      <3>2. prefetch_addr_q' = prefetch_addr_q
        BY <1>9, <3>1
      <3>3. \A k \in keep : i \notin older[k]
        BY <1>2, <1>4, <1>14, <2>2 DEF keep, new, gone
      <3>4. prefetch_addr_q = LineAfter(i)
        BY <1>8, <2>2, <3>3 DEF keep, gone
      <3>5. LineAfter(i)' = LineAfter(i)
        BY <1>3, <2>2 DEF LineAfter
      <3> QED
        BY <3>2, <3>4, <3>5
    <2> QED
      BY <1>2, <2>1, <2>2 DEF keep, new, gone
  <1>15. IF out_waiting' = {} THEN out_addr' = prefetch_addr_q' ELSE prefetch_addr_q'.beat = 0
    <2>1. CASE lookup_grant_ic0(in)
      BY <1>2, <1>9, <2>1 DEF keep, new, gone
    <2>2. CASE ~lookup_grant_ic0(in) /\ keep = {}
      BY <1>2, <1>9, <1>10, <2>2 DEF keep, new, gone
    <2>3. CASE ~lookup_grant_ic0(in) /\ keep # {}
      <3>1. prefetch_addr_q.beat = 0 /\ out_waiting' # {}
        BY <1>1, <1>2, <2>3 DEF keep, new, gone, Consecutive
      <3> QED
        BY <1>9, <2>3, <3>1
    <2> QED
      BY <2>1, <2>2, <2>3
  <1> QED
    BY <1>11, <1>12, <1>13, <1>14, <1>15 DEF Consecutive

(***************************************************************************)
(* The request that waits for its grant.                                   *)
(***************************************************************************)
\* It is for the next word of the buffer that holds it.
LEMMA WaitAddrPreserved ==
  ASSUME BusIInv, NEW in \in AnyInput, Edge(in)
  PROVE  WaitAddr'
  <1>1. /\ TypeOK /\ AgeOrder /\ Started /\ BusInv
        /\ AgeRegs(in) /\ StatusRegs(in) /\ ExtRegs(in) /\ Bus(in) /\ Clock(in)
    BY DEF BusIInv, Edge, Clock
  <1> SUFFICES ASSUME bus_wait' # NoAddr, NEW i \in fill_ext_hold_q'
               PROVE  bus_wait' = [line |-> fill_addr_q'[i].line, beat |-> fill_ext_off(i)']
    BY DEF WaitAddr
  <1>2. instr_req(in) /\ ~in.gnt /\ bus_wait' = instr_addr(in)
    BY <1>1 DEF Bus
  <1>3. CASE fill_ext_req(in) # {}
    <2>1. PICK j \in fill_ext_req(in) : fill_ext_arb(in) = {j}
      BY <1>1, <1>3, ExtArb
    <2>2. i = j /\ (CHOOSE k \in fill_ext_arb(in) : TRUE) = j
      BY <1>1, <1>3, <2>1 DEF ExtRegs, fill_spec_hold, fill_spec_req
    <2>3. i \in fill_busy_q \ fill_done(in)
      BY <1>1, <2>1, <2>2, ReleasedAreDone, ExtArb DEF fill_ext_req
    <2>4. /\ fill_ext_cnt_q[i] \in Nat
          /\ fill_ext_cnt_q'[i] = fill_ext_cnt_q[i] /\ fill_addr_q'[i] = fill_addr_q[i]
      BY <1>1, <1>2, <2>3, ExtStep, RvdStep, ParamAssumption DEF TypeOK, Count
    <2> QED
      BY <1>2, <1>3, <2>2, <2>4 DEF instr_addr, fill_ext_off, fill_ext_beat
  <1>4. CASE fill_ext_req(in) = {}
    <2>1. i \in fill_alloc(in)
      BY <1>1, <1>4, ExtArb DEF ExtRegs
    <2>2. /\ fill_addr_q'[i] = lookup_addr_ic0(in) /\ fill_ext_cnt_q'[i] = 0
          /\ lookup_addr_ic0(in) \in Addr
      BY <1>1, <1>2, <2>1, ExtStep, RvdStep, AllocStep DEF fill_spec_done
    <2>3. fill_ext_off(i)' = lookup_addr_ic0(in).beat
      <3>1. lookup_addr_ic0(in).beat \in Beat
        BY <2>2 DEF Addr
      <3> QED
        BY <2>2, <3>1, ModSmall, ParamAssumption DEF fill_ext_off, fill_ext_beat, Beat
    <2> QED
      BY <1>2, <1>4, <2>2, <2>3 DEF instr_addr, Addr
  <1> QED
    BY <1>3, <1>4

\* That buffer is chosen again, so the request stays as it is.
LEMMA RequestStays ==
  ASSUME BusIInv, WaitAddr, NEW in \in AnyInput, Edge(in), bus_wait # NoAddr
  PROVE  \/ bus_wait' = bus_wait /\ Len(bus_q') <= Len(bus_q)
         \/ /\ bus_wait' = NoAddr
            /\ bus_q' # <<>>
            /\ bus_q'[Len(bus_q')].addr = bus_wait
            /\ Len(bus_q') >= Len(bus_q)
  <1>1. TypeOK /\ AgeOrder /\ Started /\ BusInv /\ Bus(in) /\ Env(in)
    BY DEF BusIInv, Edge, Clock
  <1>2. PICK i \in fill_ext_hold_q :
           bus_wait = [line |-> fill_addr_q[i].line, beat |-> fill_ext_off(i)]
    BY <1>1 DEF BusInv, WaitHeld, WaitAddr
  <1>3. fill_ext_arb(in) = {i} /\ fill_ext_req(in) # {}
    <2>1. i \in fill_busy_q /\ i \in fill_ext_req(in)
      BY <1>1 DEF BusInv, HoldNotFull, fill_ext_req, fill_ext_done_d
    <2>2. fill_older_q[i] \subseteq fill_ext_done_q
      BY <1>1, <2>1 DEF BusInv, ExtInAgeOrder, AgeOrder, TypeOK
    <2>3. fill_older_q[i] \cap fill_ext_req(in) = {}
      BY <1>1, <2>2, ExtArb DEF fill_ext_req
    <2> QED
      BY <1>1, <2>1, <2>3, ExtArb DEF fill_ext_arb, Oldest
  <1>4. instr_req(in) /\ instr_addr(in) = bus_wait
    BY <1>2, <1>3 DEF instr_req, instr_addr
  <1> DEFINE rest == IF in.rvalid THEN Tail(bus_q) ELSE bus_q
             entry == [addr |-> instr_addr(in), owner |-> ext_owner(in),
                       nth |-> ext_nth(in), ver |-> in.ver]
  <1>5. /\ rest \in Seq(Outstanding)
        /\ Len(rest) <= Len(bus_q) /\ Len(rest) + 1 >= Len(bus_q)
    BY <1>1 DEF TypeOK, Env
  <1>6. /\ bus_q' = IF in.gnt THEN Append(rest, entry) ELSE rest
        /\ bus_wait' = IF in.gnt THEN NoAddr ELSE bus_wait
    BY <1>1, <1>4 DEF Bus
  <1> HIDE DEF rest
  <1>7. CASE in.gnt
    <2>1. Len(bus_q') = Len(rest) + 1 /\ bus_q'[Len(rest) + 1] = entry
      BY <1>5, <1>6, <1>7
    <2>2. bus_q' # <<>>
      BY <1>5, <2>1
    <2> QED
      BY <1>4, <1>5, <1>6, <1>7, <2>1, <2>2
  <1>8. CASE ~in.gnt
    BY <1>5, <1>6, <1>8
  <1> QED
    BY <1>7, <1>8

(***************************************************************************)
(* The word on offer.                                                      *)
(***************************************************************************)
\* What comes before the next beat of a line has been received.
LEMMA ReceivedBeat ==
  ASSUME BusIInv, NEW i \in fill_busy_q, NEW b \in Beat,
         b >= fill_addr_q[i].beat, b < fill_rvd_beat(i)
  PROVE  Received(i, b)
  <1>1. /\ fill_addr_q[i].beat \in Nat /\ fill_rvd_cnt_q[i] \in Nat /\ b \in Nat
    <2>1. i \in FB /\ fill_addr_q[i] \in Addr
      BY DEF BusIInv, TypeOK, Started
    <2> QED
      BY <2>1, ParamAssumption DEF BusIInv, TypeOK, Addr, Beat, Count
  <1> QED
    BY <1>1 DEF Received, BeatsBefore, fill_rvd_beat

\* Contents with a line are data: neither nothing nor garbled.
LEMMA LineIsData ==
  ASSUME NEW d \in Contents, d.line \in Line
  PROVE  d \in Data
  <1>1. NoData.line \notin Line /\ Garbled.line \notin Line
    BY ParamAssumption DEF NoData, Garbled, Line
  <1> QED
    BY <1>1 DEF Contents

\* A word held at a beat is data, and its fields are its address.
LEMMA HeldWord ==
  ASSUME BusIInv, NEW i \in fill_busy_q, NEW b \in Beat, HoldsBeat(i, b)
  PROVE  \E v \in Versions : \E bad \in BOOLEAN :
            /\ fill_data_q[i][b] =
                  [line |-> fill_addr_q[i].line, beat |-> b, ver |-> v, bad |-> bad]
            /\ bad = fill_data_q[i][b].bad
  <1>1. i \in FB /\ fill_addr_q[i] \in Addr
    BY DEF BusIInv, TypeOK, Started
  <1>2. fill_data_q[i][b] \in Contents
    BY <1>1 DEF BusIInv, TypeOK
  <1>3. fill_data_q[i][b] \in Data
    BY <1>1, <1>2, LineIsData DEF HoldsBeat, Addr
  <1> QED
    BY <1>3 DEF HoldsBeat, Data

\* The word the IF stage is offered is that of out_addr of the oldest buffer with words
\* to output: the response of this cycle, the hit of this cycle, or what the buffer holds.
OfferedFrom(in, h) ==
    /\ out_addr = [line |-> fill_addr_q[h].line, beat |-> fill_out_cnt_q[h]]
    /\ \/ /\ h \in fill_rvd_arb(in) /\ out_addr.beat = fill_rvd_off(h)
          /\ output_data(in) = instr_rdata(in) /\ output_err(in) = in.err
       \/ /\ h \in fill_hit_ic1(in)
          /\ output_data(in) = in.hit[out_addr.beat] /\ output_err(in) = FALSE
       \/ /\ h \in fill_hit_q
          /\ output_data(in) = fill_data_q[h][out_addr.beat] /\ output_err(in) = FALSE
       \/ /\ h \notin fill_hit_q /\ Received(h, out_addr.beat)
          /\ output_data(in) = fill_data_q[h][out_addr.beat]
          /\ (output_err(in) <=> out_addr.beat \in fill_err_q[h])

LEMMA WordSource ==
  ASSUME BusIInv, LookupInv, OutInv, NEW in \in AnyInput, Edge(in), fill_out_arb(in) # {}
  PROVE  /\ out_addr \in Addr
         /\ \E h \in out_waiting : OfferedFrom(in, h)
  <1>1. PICK h : h \in fill_out_arb(in)
    OBVIOUS
  <1>2. /\ TypeOK /\ AgeOrder /\ Started /\ BusInv
        /\ h \in out_waiting /\ h \in fill_data_sel
        /\ fill_older_q[h] \cap out_waiting = {}
        /\ \A j \in out_waiting : fill_older_q[j] \cap out_waiting = {} => h = j
    BY <1>1, OutGrant DEF BusIInv, fill_out_arb
  <1>3. h \in FB /\ h \in fill_busy_q /\ fill_addr_q[h] \in Addr
    BY <1>2 DEF out_waiting, TypeOK, Started
  <1>4. /\ out_addr = [line |-> fill_addr_q[h].line, beat |-> fill_out_cnt_q[h]]
        /\ out_addr.line = fill_addr_q[h].line /\ out_addr.beat = fill_out_cnt_q[h]
        /\ out_addr.beat \in Beat /\ out_addr \in Addr
        /\ out_addr.beat >= fill_addr_q[h].beat
        /\ fill_out_cnt_q[h] \in Nat /\ fill_rvd_cnt_q[h] \in Nat
        /\ fill_addr_q[h].beat \in Nat /\ fill_addr_q[h].beat < IC_LINE_BEATS
    <2>1. out_addr = [line |-> fill_addr_q[h].line, beat |-> fill_out_cnt_q[h]]
      BY <1>2 DEF OutInv, Consecutive
    <2>2. fill_out_cnt_q[h] # IC_LINE_BEATS
      BY <1>2 DEF out_waiting, fill_out_done
    <2>3. fill_out_cnt_q[h] \in Beat
      BY <1>2, <1>3, <2>2, ParamAssumption DEF TypeOK, Count, Beat
    <2>4. fill_out_cnt_q[h] >= fill_addr_q[h].beat
      BY <1>2 DEF OutInv, Consecutive
    <2> QED
      BY <1>2, <1>3, <2>1, <2>3, <2>4, ParamAssumption DEF TypeOK, Addr, Beat, Count
  <1>5. /\ fill_data_rvd(in) \subseteq {h} /\ fill_data_reg \subseteq {h}
    BY <1>2 DEF fill_data_rvd, fill_data_reg, fill_data_sel
  <1>6. fill_data_hit(in) \subseteq {h}
    <2> SUFFICES ASSUME NEW i \in fill_data_hit(in) PROVE i = h
      OBVIOUS
    <2>1. i \in fill_hit_ic1(in) /\ fill_older_q[i] \cap out_waiting = {}
      BY DEF fill_data_hit, fill_data_sel
    <2>2. fill_older_q[i] = fill_busy_q \ {i}
      BY <2>1, HitIsYoungest
    <2> QED
      BY <1>2, <1>3, <2>1, <2>2
  <1>7. fill_out_cnt_q[h] <= fill_rvd_beat(h) \/ h \in fill_hit_q
    BY <1>3 DEF OutInv
  <1>8. CASE h \in fill_data_rvd(in)
    <2>1. /\ h \in fill_rvd_arb(in) /\ fill_rvd_beat(h) = fill_out_cnt_q[h]
      BY <1>8 DEF fill_data_rvd
    <2>2. fill_rvd_off(h) = out_addr.beat
      BY <1>4, <2>1, ModSmall, ParamAssumption DEF fill_rvd_off, Beat
    <2>3. output_data(in) = instr_rdata(in) /\ output_err(in) = in.err
      BY <1>8 DEF output_data, output_err
    <2> QED
      BY <1>2, <1>4, <2>1, <2>2, <2>3 DEF OfferedFrom
  <1>9. CASE h \notin fill_data_rvd(in) /\ h \in fill_data_hit(in)
    <2>1. /\ output_data(in) = in.hit[out_addr.beat] /\ output_err(in) = FALSE
      BY <1>5, <1>9 DEF output_data, output_err
    <2>2. h \in fill_hit_ic1(in)
      BY <1>9 DEF fill_data_hit
    <2> QED
      BY <1>2, <1>4, <2>1, <2>2 DEF OfferedFrom
  <1>10. CASE h \notin fill_data_rvd(in) /\ h \notin fill_data_hit(in)
    <2>1. h \notin fill_hit_ic1(in)
      BY <1>2, <1>10 DEF fill_data_hit
    <2>2. h \in fill_hit_q \/ fill_rvd_beat(h) > fill_out_cnt_q[h]
      <3>1. h \in fill_hit_q \cup fill_rvd_arb(in) \/ fill_rvd_beat(h) > fill_out_cnt_q[h]
        BY <1>1, <2>1 DEF fill_out_arb, fill_out_req
      <3>2. ASSUME h \in fill_rvd_arb(in), h \notin fill_hit_q
            PROVE  fill_rvd_beat(h) # fill_out_cnt_q[h]
        BY <1>2, <1>10, <2>1, <3>2 DEF fill_data_rvd
      <3>3. fill_rvd_beat(h) \in Nat
        BY <1>4 DEF fill_rvd_beat
      <3> QED
        BY <1>4, <1>7, <3>1, <3>2, <3>3
    <2>3. fill_data_reg = {h}
      BY <1>2, <1>5, <2>2 DEF fill_data_reg
    <2>4. /\ output_data(in) = fill_data_q[h][out_addr.beat]
          /\ output_err(in) = (h \notin fill_hit_q /\ out_addr.beat \in fill_err_q[h])
      <3>1. fill_data_rvd(in) = {} /\ fill_data_hit(in) = {}
        BY <1>5, <1>6, <1>10
      <3>2. (CHOOSE i \in fill_data_reg : TRUE) = h /\ \E i \in FB : fill_data_reg = {i}
        BY <1>3, <2>3
      <3> QED
        BY <2>3, <3>1, <3>2 DEF output_data, output_err
    <2>5. CASE h \in fill_hit_q
      BY <1>2, <1>4, <2>4, <2>5 DEF OfferedFrom
    <2>6. CASE h \notin fill_hit_q
      <3>1. Received(h, out_addr.beat)
        BY <1>3, <1>4, <2>2, <2>6, ReceivedBeat
      <3> QED
        BY <1>2, <1>4, <2>4, <2>6, <3>1 DEF OfferedFrom
    <2> QED
      BY <2>5, <2>6
  <1> QED
    BY <1>2, <1>4, <1>8, <1>9, <1>10

\* It is the next of the stream, with an error exactly when the bus reported one for it.
LEMMA WordOnOffer ==
  ASSUME IInv, NEW in \in AnyInput, Edge(in), RamEnv(in), fill_out_arb(in) # {}
  PROVE  /\ out_addr \in Addr
         /\ \E v \in Versions : \E bad \in BOOLEAN :
               /\ output_data(in) = [line |-> out_addr.line, beat |-> out_addr.beat,
                                     ver |-> v, bad |-> bad]
               /\ output_err(in) = bad
  <1>1. BusIInv /\ LookupInv /\ ReceivedHeld /\ HitHeld /\ OutInv
    BY DEF IInv, FetchInv
  <1>2. PICK h \in out_waiting : OfferedFrom(in, h)
    BY <1>1, WordSource
  <1>3. /\ out_addr \in Addr /\ out_addr.line = fill_addr_q[h].line /\ out_addr.beat \in Beat
        /\ h \in fill_busy_q
    BY <1>1, <1>2, WordSource DEF OfferedFrom, out_waiting, Addr
  <1>4. CASE h \in fill_rvd_arb(in) /\ output_data(in) = instr_rdata(in)
             /\ out_addr.beat = fill_rvd_off(h) /\ output_err(in) = in.err
    BY <1>1, <1>3, <1>4, RvdData, InputTypes
  <1>5. CASE h \in fill_hit_ic1(in) /\ output_data(in) = in.hit[out_addr.beat]
             /\ output_err(in) = FALSE
    <2>1. /\ in.hit[out_addr.beat] \in Contents
          /\ in.hit[out_addr.beat].line = out_addr.line
          /\ in.hit[out_addr.beat].beat = out_addr.beat
          /\ ~in.hit[out_addr.beat].bad
      BY <1>1, <1>3, <1>5, HitData, HitFindsLine
    <2>2. in.hit[out_addr.beat] \in Data
      BY <1>3, <2>1, LineIsData DEF Addr
    <2> QED
      BY <1>3, <1>5, <2>1, <2>2 DEF Data
  <1>6. ASSUME HoldsBeat(h, out_addr.beat), output_data(in) = fill_data_q[h][out_addr.beat],
               fill_data_q[h][out_addr.beat].bad <=> output_err(in), output_err(in) \in BOOLEAN
        PROVE  \E v \in Versions : \E bad \in BOOLEAN :
                  /\ output_data(in) = [line |-> out_addr.line, beat |-> out_addr.beat,
                                        ver |-> v, bad |-> bad]
                  /\ output_err(in) = bad
    <2>1. PICK v \in Versions, bad \in BOOLEAN :
             /\ fill_data_q[h][out_addr.beat] =
                   [line |-> fill_addr_q[h].line, beat |-> out_addr.beat, ver |-> v, bad |-> bad]
             /\ bad = fill_data_q[h][out_addr.beat].bad
      BY <1>1, <1>3, <1>6, HeldWord
    <2>2. output_err(in) = bad
      BY <1>6, <2>1, Zenon
    <2> QED
      BY <1>3, <1>6, <2>1, <2>2
  <1>7. CASE h \in fill_hit_q /\ output_data(in) = fill_data_q[h][out_addr.beat]
             /\ output_err(in) = FALSE
    BY <1>1, <1>3, <1>6, <1>7 DEF HitHeld
  <1>8. CASE h \notin fill_hit_q /\ Received(h, out_addr.beat)
             /\ output_data(in) = fill_data_q[h][out_addr.beat]
             /\ (output_err(in) <=> out_addr.beat \in fill_err_q[h])
    <2>1. HoldsBeat(h, out_addr.beat) /\ (fill_data_q[h][out_addr.beat].bad <=> output_err(in))
      BY <1>1, <1>3, <1>8 DEF ReceivedHeld
    <2>2. output_err(in) \in BOOLEAN
      <3>1. in.err \in BOOLEAN
        BY InputTypes
      <3> QED
        BY <3>1 DEF output_err
    <2>3. output_data(in) = fill_data_q[h][out_addr.beat]
      BY <1>8, Zenon
    <2> QED
      BY <1>3, <1>6, <2>1, <2>2, <2>3, Zenon
  <1> QED
    BY <1>2, <1>3, <1>4, <1>5, <1>7, <1>8 DEF OfferedFrom

(***************************************************************************)
(* The theorems.                                                           *)
(***************************************************************************)
\* The invariant holds in the initial state and is preserved by every step.
LEMMA InitIInv == Init => IInv
  <1> SUFFICES ASSUME Init PROVE IInv
    OBVIOUS
  <1>1. out_waiting = {}
    BY DEF Init, out_waiting
  <1>2. LookupInv /\ HitHeld /\ ReceivedHeld /\ OutInv /\ WaitAddr
    BY <1>1 DEF Init, LookupInv, HitHeld, ReceivedHeld, OutInv, Consecutive, WaitAddr
  <1> QED
    BY <1>2, InitBusIInv DEF IInv, FetchInv

\* Every clock edge preserves the part that does not depend on what lookups find.
LEMMA EdgeFetchInv ==
  ASSUME FetchInv, NEW in \in AnyInput, MaskAgrees(in), Edge(in)
  PROVE  FetchInv'
  <1>1. BusIInv' /\ BusIInv /\ LookupInv /\ ReceivedHeld /\ OutInv /\ WaitAddr
    BY EdgeBusIInv DEF FetchInv, Edge
  <1>2. TypeOK /\ AgeOrder /\ TypeOK' /\ AgeOrder'
    BY <1>1 DEF BusIInv
  <1>3. LookupInv' /\ ReceivedHeld' /\ WaitAddr'
    BY <1>1, <1>2, LookupPreserved, ReceivedPreserved, WaitAddrPreserved
  <1>4. Consecutive'
    BY <1>1, <1>2, BranchConsecutive, StayConsecutive
  <1>5. fill_stale_q' \cup fill_hit_q' \subseteq fill_busy_q'
    BY DEF Edge, Clock, AgeRegs, StatusRegs
  <1>6. (\A i \in fill_busy_q \ fill_hit_q : fill_out_cnt_q[i] <= fill_rvd_beat(i))'
    BY <1>1, OutNotAhead
  <1> QED
    BY <1>1, <1>3, <1>4, <1>5, <1>6 DEF FetchInv, OutInv

\* ... and so does a step of which it sees nothing.
LEMMA StutterFetchInv ==
  ASSUME MasksAgree, FetchInv, UNCHANGED vars
  PROVE  FetchInv'
  <1>1. BusIInv /\ LookupInv /\ ReceivedHeld /\ OutInv /\ WaitAddr
    BY DEF FetchInv
  <1>2. BusIInv'
    BY <1>1, StepBusIInv
  <1>3. LookupInv' /\ ReceivedHeld' /\ WaitAddr'
    BY <1>1 DEF LookupInv, ReceivedHeld, HoldsBeat, Received, BeatsBefore, WaitAddr,
                fill_ext_off, fill_ext_beat, vars, lookup_vars, age_vars, fill_vars
  <1>4. out_waiting' = out_waiting
    BY DEF out_waiting, fill_out_done, vars, age_vars, fill_vars
  <1>5. OutInv'
    BY <1>1, <1>4 DEF OutInv, Consecutive, LineAfter, fill_rvd_beat,
                      vars, lookup_vars, age_vars, fill_vars
  <1> QED
    BY <1>2, <1>3, <1>5 DEF FetchInv

\* A step of Spec is such an edge.
LEMMA StepIsEdge ==
  ASSUME MasksAgree, NEW in \in Inputs, Step(in)
  PROVE  in \in AnyInput /\ MaskAgrees(in) /\ Edge(in) /\ RamEnv(in)
  BY InputsTyped DEF MasksAgree, MaskAgrees, Inputs, Step, Edge

\* Every step preserves the invariant.
LEMMA StepIInv ==
  ASSUME MasksAgree, IInv, [Next]_vars
  PROVE  IInv'
  <1>1. BusIInv /\ LookupInv /\ ReceivedHeld /\ HitHeld /\ OutInv /\ WaitAddr
    BY DEF IInv, FetchInv
  <1>2. CASE Next
    <2>1. PICK in \in Inputs : Step(in)
      BY <1>2 DEF Next
    <2>2. FetchInv'
      BY <2>1, StepIsEdge, EdgeFetchInv DEF IInv
    <2>3. HitHeld'
      BY <1>1, <2>1, StepIsEdge, HitPreserved
    <2> QED
      BY <2>2, <2>3 DEF IInv
  <1>3. CASE UNCHANGED vars
    <2>1. FetchInv'
      BY <1>3, StutterFetchInv DEF IInv
    <2>2. HitHeld'
      BY <1>1, <1>3 DEF HitHeld, HoldsBeat, vars, age_vars, fill_vars
    <2> QED
      BY <2>1, <2>2 DEF IInv
  <1> QED
    BY <1>2, <1>3

\* Ages, bus, data and output of the buffers fit together, for any number of
\* buffers and beats, if the two masks of a line buffer hit agree.
THEOREM InductiveInvariant ==
  ASSUME MasksAgree
  PROVE  Spec => []IInv
  <1>1. Init => IInv
    BY InitIInv
  <1>2. IInv /\ [Next]_vars => IInv'
    BY StepIInv
  <1> QED
    BY <1>1, <1>2, PTL DEF Spec

\* A buffer that asks to write its line holds all of it.
LEMMA LineComplete ==
  ASSUME FetchInv, NEW i \in fill_ram_req, NEW b \in Beat
  PROVE  HoldsBeat(i, b) /\ ~fill_data_q[i][b].bad /\ Received(i, b)
  <1>1. /\ i \in fill_busy_q \ fill_hit_q /\ fill_rvd_cnt_q[i] = IC_LINE_BEATS
        /\ fill_err_q[i] = {}
    BY DEF fill_ram_req, fill_err_any
  <1>2. BeatsBefore(i, b) \in Beat
    BY <1>1, NextBeat DEF FetchInv, BusIInv
  <1>3. Received(i, b)
    BY <1>1, <1>2, ParamAssumption DEF Received, Beat
  <1> QED
    BY <1>1, <1>3 DEF FetchInv, ReceivedHeld

\* A line is written to the cache only when all of it has arrived, each beat at
\* its place and none with an error.
THEOREM WritesAreComplete ==
  ASSUME MasksAgree
  PROVE  Spec => []CacheWriteComplete
  <1>1. IInv => CacheWriteComplete
    BY LineComplete DEF IInv, CacheWriteComplete, HoldsBeat
  <1> QED
    BY <1>1, InductiveInvariant, PTL

\* A request stays on the bus with its address until it is granted, across
\* branches, hits and invalidations.
THEOREM RequestsHeld ==
  ASSUME MasksAgree
  PROVE  Spec => RequestHeld
  <1>1. ASSUME IInv, [Next]_vars, bus_wait # NoAddr
        PROVE  \/ bus_wait' = bus_wait /\ Len(bus_q') <= Len(bus_q)
               \/ /\ bus_wait' = NoAddr
                  /\ bus_q' # <<>>
                  /\ bus_q'[Len(bus_q')].addr = bus_wait
                  /\ Len(bus_q') >= Len(bus_q)
    <2>1. CASE Next
      <3>1. PICK in \in Inputs : Step(in)
        BY <2>1 DEF Next
      <3> QED
        BY <1>1, <3>1, StepIsEdge, RequestStays DEF IInv, FetchInv
    <2>2. CASE UNCHANGED vars
      <3>1. bus_q' = bus_q /\ bus_wait' = bus_wait /\ Len(bus_q) \in Nat
        BY <1>1, <2>2 DEF vars, IInv, FetchInv, BusIInv, TypeOK
      <3> QED
        BY <3>1
    <2> QED
      BY <1>1, <2>1, <2>2
  <1> QED
    BY <1>1, InductiveInvariant, PTL DEF Spec, RequestHeld

\* What the IF stage takes in a cycle, if anything, is the next word of the stream.
LEMMA StreamStep ==
  ASSUME IInv, NEW in \in AnyInput, Edge(in), RamEnv(in)
  PROVE  Stream!Next
  <1>1. /\ OutRegs(in) /\ fill_out_grant(in) \subseteq fill_out_arb(in)
        /\ branch_i(in) => in.addr \in Addr
    BY OutGrant, AllocStep DEF IInv, FetchInv, BusIInv, Edge, Clock
  <1>2. CASE fill_out_grant(in) # {}
    <2>1. /\ out_addr \in Addr
          /\ \E v \in Versions : \E bad \in BOOLEAN :
                /\ output_data(in) = [line |-> out_addr.line, beat |-> out_addr.beat,
                                      ver |-> v, bad |-> bad]
                /\ output_err(in) = bad
      BY <1>1, <1>2, WordOnOffer
    <2>2. fetched' = [data |-> output_data(in), err |-> output_err(in)]
      BY <1>1, <1>2 DEF OutRegs
    <2>3. Stream!Deliver
      BY <2>1, <2>2, NoAddrNotAddr DEF Stream!Deliver, Stream!WordAt
    <2> QED
      BY <1>1, <1>2, <2>3 DEF OutRegs, Stream!Next
  <1>3. CASE fill_out_grant(in) = {}
    BY <1>1, <1>3 DEF OutRegs, Stream!Next, Stream!Idle
  <1> QED
    BY <1>2, <1>3

\* The fetch side implements FetchStream: what the IF stage takes are the words
\* of memory from the latest branch target on, without a gap or a repetition
\* and with an error exactly where the bus reported one.
THEOREM StreamRefinement ==
  ASSUME MasksAgree
  PROVE  Spec => StreamInOrder
  <1>1. Init => Stream!Init
    BY DEF Init, Stream!Init
  <1>2. ASSUME UNCHANGED vars PROVE UNCHANGED <<out_addr, fetched>>
    BY <1>2 DEF vars
  <1>3. IInv /\ [Next]_vars => [Stream!Next]_<<out_addr, fetched>>
    BY <1>2, StepIsEdge, StreamStep DEF Next
  <1> QED
    BY <1>1, <1>3, InductiveInvariant, PTL DEF Spec, StreamInOrder, Stream!Spec
=============================================================================
