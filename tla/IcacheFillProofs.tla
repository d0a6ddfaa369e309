-------------------------- MODULE IcacheFillProofs --------------------------
(***************************************************************************)
(* Proofs about IcacheFill, for every number of fill buffers, every line   *)
(* length and every set of input values.                                   *)
(***************************************************************************)
EXTENDS IcacheFill, FiniteSetTheorems, WellFoundedInduction, TLAPS

(***************************************************************************)
(* Age order: arbitration by fill_older_q.                                 *)
(***************************************************************************)
\* Among busy buffers at most one is the oldest.
LEMMA OldestUnique ==
  ASSUME AgeOrder, NEW R \in SUBSET fill_busy_q,
         NEW i \in Oldest(R), NEW j \in Oldest(R)
  PROVE  i = j
  BY DEF AgeOrder, Oldest

\* The fill buffers are finitely many.
LEMMA FBFinite == IsFiniteSet(FB)
  BY FS_Interval, ParamAssumption DEF FB

\* A set of sets of fill buffers has a member with no other member inside it.
LEMMA SmallestSet ==
  ASSUME NEW T, T \subseteq SUBSET FB, T # {}
  PROVE  \E s \in T : \A t \in T : ~(t \subseteq s /\ t # s)
  <1>1. T \subseteq FiniteSubsetsOf(FB)
    BY FBFinite, FS_Subset DEF FiniteSubsetsOf
  <1>2. \E s \in T : \A t \in T : ~(<<t, s>> \in StrictSubsetOrdering(FB))
    BY <1>1, FS_StrictSubsetOrderingWellFounded, WFMin
  <1> QED
    BY <1>2 DEF StrictSubsetOrdering

\* A set of busy buffers has an oldest member.
LEMMA OldestExists ==
  ASSUME AgeOrder, fill_busy_q \subseteq FB,
         NEW R \in SUBSET fill_busy_q, R # {}
  PROVE  Oldest(R) # {}
  <1> DEFINE before(i) == R \cap fill_older_q[i]
  <1> DEFINE T == {before(i) : i \in R}
  <1>1. PICK i \in R : \A j \in R : ~(before(j) \subseteq before(i) /\ before(j) # before(i))
    <2>1. T \subseteq SUBSET FB /\ T # {}
      OBVIOUS
    <2>2. \E s \in T : \A t \in T : ~(t \subseteq s /\ t # s)
      <3> HIDE DEF T
      <3> QED  BY <2>1, SmallestSet
    <2>3. PICK s \in T : \A t \in T : ~(t \subseteq s /\ t # s)
      BY <2>2
    <2>4. PICK i \in R : s = before(i)
      BY <2>3
    <2>5. ASSUME NEW j \in R PROVE ~(before(j) \subseteq before(i) /\ before(j) # before(i))
      <3>1. before(j) \in T
        OBVIOUS
      <3> QED
        BY <2>3, <2>4, <3>1
    <2> QED
      BY <2>5
  <1>2. ASSUME NEW j \in before(i) PROVE FALSE
    <2>1. j \notin before(j)
      BY <1>2 DEF AgeOrder
    <2>2. before(j) \subseteq before(i)
      BY <1>2 DEF AgeOrder
    <2> QED
      BY <1>1, <1>2, <2>1, <2>2
  <1> QED
    BY <1>2 DEF Oldest

\* A free buffer is allocated, at most one, and one whenever there is one.
LEMMA AllocFree ==
  ASSUME NEW in
  PROVE  /\ fill_alloc_sel \subseteq FB \ fill_busy_q
         /\ \A i, j \in fill_alloc_sel : i = j
         /\ fill_alloc(in) = IF lookup_grant_ic0(in) THEN fill_alloc_sel ELSE {}
         /\ fill_alloc(in) \subseteq FB \ fill_busy_q
         /\ \A i, j \in fill_alloc(in) : i = j
  <1>1. \A i, j \in fill_alloc_sel : i = j
    BY ParamAssumption DEF fill_alloc_sel, FB
  <1> QED
    BY <1>1 DEF fill_alloc_sel, fill_alloc

\* A free buffer is chosen whenever one of them is free.
LEMMA AllocExists ==
  ASSUME fill_busy_q \subseteq FB, fill_busy_q # FB
  PROVE  fill_alloc_sel # {}
  <1> DEFINE free == FB \ fill_busy_q
             below(i) == {j \in free : j < i}
             T == {below(i) : i \in free}
  <1>1. PICK i \in free : \A j \in free : ~(below(j) \subseteq below(i) /\ below(j) # below(i))
    <2>1. T \subseteq SUBSET FB /\ T # {}
      OBVIOUS
    <2>2. PICK s \in T : \A t \in T : ~(t \subseteq s /\ t # s)
      <3> HIDE DEF T
      <3> QED  BY <2>1, SmallestSet
    <2>3. PICK i \in free : s = below(i)
      BY <2>2
    <2>4. ASSUME NEW j \in free PROVE ~(below(j) \subseteq below(i) /\ below(j) # below(i))
      <3>1. below(j) \in T
        OBVIOUS
      <3> QED
        BY <2>2, <2>3, <3>1
    <2> QED
      BY <2>4
  <1>2. ASSUME NEW j \in below(i) PROVE FALSE
    <2>1. j \notin below(j) /\ below(j) \subseteq below(i)
      BY <1>2, ParamAssumption DEF FB
    <2> QED
      BY <1>1, <1>2, <2>1
  <1>3. i \in fill_alloc_sel
    BY <1>2, ParamAssumption DEF fill_alloc_sel, FB
  <1> QED
    BY <1>3

\* The busy buffers of the next cycle, and who is older than whom.
LEMMA AgeStep ==
  ASSUME NEW in, AgeRegs(in), fill_busy_q \subseteq FB, AgeOrder
  PROVE  /\ fill_done(in) \subseteq fill_busy_q
         /\ fill_busy_d(in) = fill_alloc(in) \cup (fill_busy_q \ fill_done(in))
         /\ fill_busy_d(in) \subseteq FB
         /\ fill_busy_q' = fill_busy_d(in)
         /\ \A i \in fill_busy_q \ fill_done(in) :
               fill_older_q'[i] = fill_older_q[i] \ fill_done(in)
         /\ \A i \in fill_alloc(in) : fill_older_q'[i] = fill_busy_q \ fill_done(in)
         /\ \A i \in FB \ fill_busy_d(in) : fill_older_q'[i] = {}
         /\ fill_older_q' \in [FB -> SUBSET FB]
  <1>1. fill_done(in) \subseteq fill_busy_q
    BY DEF fill_done
  <1>2. fill_alloc(in) \subseteq FB \ fill_busy_q
    BY AllocFree
  <1>3. \A i \in FB : fill_older_q[i] \subseteq FB
    BY DEF AgeOrder
  <1> QED
    BY <1>1, <1>2, <1>3 DEF AgeRegs, fill_busy_d

\* The registers fill_older_d keeps the age order, whatever is allocated and released in the cycle.
LEMMA AgePreserved ==
  ASSUME NEW in, AgeRegs(in), fill_busy_q \subseteq FB, AgeOrder
  PROVE  AgeOrder'
  <1> DEFINE new == fill_alloc(in)
             old == fill_busy_q \ fill_done(in)
  <1>1. /\ fill_busy_q' = new \cup old
        /\ new \subseteq FB /\ new \cap old = {} /\ old \subseteq FB
        /\ \A i, j \in new : i = j
    BY AgeStep, AllocFree
  <1>2. /\ \A i \in old : fill_older_q'[i] = fill_older_q[i] \cap old
        /\ \A i \in new : fill_older_q'[i] = old
        /\ \A i \in FB \ (new \cup old) : fill_older_q'[i] = {}
    <2>1. \A i \in old : fill_older_q[i] \subseteq fill_busy_q
      BY <1>1 DEF AgeOrder
    <2> QED
      BY AgeStep, <2>1
  <1>3. /\ \A i \in old : i \notin fill_older_q[i]
        /\ \A i, j \in old : i # j => (i \in fill_older_q[j] <=> j \notin fill_older_q[i])
        /\ \A i, j, k \in old :
              i \in fill_older_q[j] /\ j \in fill_older_q[k] => i \in fill_older_q[k]
    BY <1>1 DEF AgeOrder
  <1> HIDE DEF new, old
  <1>4. (\A i \in FB : fill_older_q[i] \subseteq fill_busy_q \ {i})'
    BY <1>1, <1>2, <1>3
  <1>5. (\A i, j \in fill_busy_q :
            i # j => (i \in fill_older_q[j] <=> j \notin fill_older_q[i]))'
    BY <1>1, <1>2, <1>3
  <1>6. (\A i, j, k \in fill_busy_q :
            i \in fill_older_q[j] /\ j \in fill_older_q[k] => i \in fill_older_q[k])'
    BY <1>1, <1>2, <1>3
  <1> QED
    BY <1>4, <1>5, <1>6 DEF AgeOrder

(***************************************************************************)
(* The head of the bus belongs to the oldest buffer that expects data.     *)
(***************************************************************************)
LEMMA BusIndices ==
  ASSUME TypeOK
  PROVE  /\ DOMAIN bus_q = 1..Len(bus_q) /\ Len(bus_q) \in Nat
         /\ bus_q # <<>> => 1 \in DOMAIN bus_q /\ Head(bus_q) = bus_q[1]
         /\ \A k \in DOMAIN bus_q : bus_q[k] \in Outstanding
  BY DEF TypeOK

\* The next response belongs to the oldest buffer that expects one, and to its
\* next word: the untagged bus needs no more than fill_rvd_arb.
LEMMA HeadOwner ==
  ASSUME TypeOK, AgeOrder, BusInv, bus_q # <<>>
  PROVE  \E h \in fill_busy_q :
            /\ Head(bus_q).owner = {h} /\ Oldest(fill_rvd_exp) = {h}
            /\ Head(bus_q).nth = fill_rvd_cnt_q[h]
            /\ fill_rvd_cnt_q[h] < fill_ext_cnt_q[h]
            /\ Head(bus_q).addr = [line |-> fill_addr_q[h].line, beat |-> fill_rvd_off(h)]
  <1>1. /\ 1 \in DOMAIN bus_q /\ Head(bus_q) = bus_q[1]
        /\ \A k \in DOMAIN bus_q : k \in Nat /\ k >= 1
        /\ fill_busy_q \subseteq FB
        /\ fill_rvd_cnt_q \in [FB -> Nat] /\ fill_ext_cnt_q \in [FB -> Nat]
    BY BusIndices, ParamAssumption DEF TypeOK, Count
  <1>2. PICK h \in fill_busy_q :
           /\ OwnerOf(1, h)
           /\ bus_q[1].nth \in fill_rvd_cnt_q[h]..(fill_ext_cnt_q[h] - 1)
           /\ bus_q[1].addr = [line |-> fill_addr_q[h].line,
                 beat |-> (fill_addr_q[h].beat + bus_q[1].nth) % IC_LINE_BEATS]
    BY <1>1 DEF BusInv, BusMatchesCounts
  <1>3. /\ fill_rvd_cnt_q[h] < fill_ext_cnt_q[h]
        /\ bus_q[1].nth >= fill_rvd_cnt_q[h]
        /\ fill_rvd_cnt_q[h] \in fill_rvd_cnt_q[h]..(fill_ext_cnt_q[h] - 1)
    BY <1>1, <1>2
  <1>4. bus_q[1].nth = fill_rvd_cnt_q[h]
    <2>1. PICK k \in DOMAIN bus_q : OwnerOf(k, h) /\ bus_q[k].nth = fill_rvd_cnt_q[h]
      BY <1>3 DEF BusInv, BusMatchesCounts
    <2>2. k > 1 => h \in fill_older_q[h] \/ bus_q[1].nth < bus_q[k].nth
      BY <1>1, <1>2, <2>1 DEF BusInv, BusMatchesCounts
    <2>3. h \notin fill_older_q[h]
      BY <1>1 DEF AgeOrder
    <2> QED
      BY <1>1, <1>2, <1>3, <2>1, <2>2, <2>3
  <1>5. h \in fill_rvd_exp
    BY <1>1, <1>3 DEF fill_rvd_exp, fill_rvd_done
  <1>6. ASSUME NEW g \in fill_rvd_exp, g \in fill_older_q[h] PROVE FALSE
    <2>1. g \in fill_busy_q
      BY DEF fill_rvd_exp
    <2>2. g \in fill_ext_done_q /\ g \notin fill_ext_hold_q
      BY <1>1, <1>3, <1>6, <2>1 DEF BusInv, ExtInAgeOrder, DoneStable
    <2>3. fill_rvd_cnt_q[g] # fill_ext_cnt_q[g]
      BY <2>1, <2>2 DEF fill_rvd_exp, fill_rvd_done
    <2>4. fill_rvd_cnt_q[g] \in fill_rvd_cnt_q[g]..(fill_ext_cnt_q[g] - 1)
      BY <1>1, <2>1, <2>3 DEF BusInv, BusMatchesCounts
    <2>5. PICK k \in DOMAIN bus_q : OwnerOf(k, g)
      BY <2>1, <2>4 DEF BusInv, BusMatchesCounts
    <2>6. g # h /\ h \notin fill_older_q[g]
      BY <1>1, <1>6, <2>1 DEF AgeOrder
    <2>7. k # 1
      BY <1>2, <2>5, <2>6 DEF OwnerOf
    <2>8. h \in fill_older_q[g] \/ h = g
      <3>1. 1 < k
        BY <1>1, <2>5, <2>7
      <3>2. \A i, j \in fill_busy_q : OwnerOf(1, i) /\ OwnerOf(k, j) =>
               i \in fill_older_q[j] \/ (i = j /\ bus_q[1].nth < bus_q[k].nth)
        BY <1>1, <2>5, <3>1 DEF BusInv, BusMatchesCounts
      <3> QED
        BY <1>2, <2>1, <2>5, <3>2
    <2> QED
      BY <2>6, <2>8
  <1>7. h \in Oldest(fill_rvd_exp)
    BY <1>5, <1>6 DEF Oldest
  <1>8. Oldest(fill_rvd_exp) = {h}
    <2>1. fill_rvd_exp \in SUBSET fill_busy_q
      BY DEF fill_rvd_exp
    <2> QED
      BY <1>7, <2>1, OldestUnique
  <1>9. bus_q[1].owner = {h}
    BY <1>2 DEF OwnerOf
  <1> QED
    BY <1>1, <1>2, <1>3, <1>4, <1>8, <1>9 DEF fill_rvd_off, fill_rvd_beat

(***************************************************************************)
(* The operands of a step.                                                 *)
(***************************************************************************)
LEMMA ModRange ==
  ASSUME NEW n \in Nat, NEW d \in Nat \ {0}
  PROVE  n % d \in 0..(d - 1)
  OBVIOUS

\* A number below the divisor is its own remainder.
LEMMA ModSmall ==
  ASSUME NEW d \in Nat \ {0}, NEW n \in 0..(d - 1)
  PROVE  n % d = n
  OBVIOUS

\* The value for no address is not an address, but has a beat.
LEMMA NoAddrNotAddr == NoAddr \notin Addr /\ NoAddr.beat \in Beat
  BY ParamAssumption DEF NoAddr, Addr, Line, Beat

\* The successor of a line is a line and that of an address an address.
LEMMA NextAddrType ==
  ASSUME NEW a \in Addr
  PROVE  NextLine(a.line) \in Line /\ NextAddr(a) \in Addr
  <1>1. a.line \in Line /\ a.beat \in Beat
    BY DEF Addr
  <1>2. NextLine(a.line) \in Line
    BY <1>1, ParamAssumption DEF NextLine, Line
  <1>3. CASE a.beat = IC_LINE_BEATS - 1
    BY <1>1, <1>2, <1>3, ParamAssumption DEF NextAddr, Addr, Beat
  <1>4. CASE a.beat # IC_LINE_BEATS - 1
    <2>1. a.beat + 1 \in Beat
      BY <1>1, <1>4, ParamAssumption DEF Beat
    <2> QED
      BY <1>1, <1>2, <1>4, <2>1 DEF NextAddr, Addr
  <1> QED
    BY <1>2, <1>3, <1>4

\* The inputs of any run: each has its type.  What a lookup finds may be garbled.
AnyInput == [req : BOOLEAN, addr : Addr \cup {NoAddr}, enable : BOOLEAN, inval : InvalModes,
             line_buf : BOOLEAN, hit : [Beat -> Contents], ecc : {"none", "ram", "line_buf"},
             gnt : BOOLEAN, ver : Versions, rvalid : BOOLEAN, err : BOOLEAN, ready : BOOLEAN]

LEMMA InputsTyped == Inputs \subseteq AnyInput
  <1>1. [Beat -> Data] \cup {NoLine} \subseteq [Beat -> Contents]
    BY DEF NoLine, Contents
  <1>2. HitIn \subseteq [Beat -> Contents]
    BY <1>1, InputAssumption
  <1> QED
    BY <1>2, InputAssumption DEF Inputs, AnyInput

\* The inputs of a cycle have the types of the module's ports.
LEMMA InputTypes ==
  ASSUME NEW in \in AnyInput
  PROVE  /\ {in.req, in.enable, in.line_buf, in.gnt, in.rvalid, in.err, in.ready} \subseteq BOOLEAN
         /\ in.addr \in Addr \cup {NoAddr}
         /\ in.hit \in [Beat -> Contents]
         /\ in.ver \in Versions
  BY DEF AnyInput

\* A granted lookup has an address, and the buffer it allocates is free.
LEMMA LookupAddr ==
  ASSUME TypeOK, NEW in \in AnyInput, Env(in), lookup_grant_ic0(in)
  PROVE  /\ lookup_addr_ic0(in) \in Addr
         /\ fill_busy_q # FB
         /\ branch_i(in) \/ prefetch_addr_q # NoAddr
  BY InputTypes DEF TypeOK, Env, lookup_grant_ic0, lookup_req_ic0, lookup_addr_ic0, branch_i

\* The buffer that receives data expects some and is unique.
LEMMA RvdArb ==
  ASSUME TypeOK, AgeOrder, BusInv, NEW in \in AnyInput, Env(in)
  PROVE  /\ ~in.rvalid => fill_rvd_arb(in) = {}
         /\ in.rvalid =>
              \E h \in fill_busy_q :
                 /\ fill_rvd_arb(in) = {h} /\ Head(bus_q).owner = {h}
                 /\ Head(bus_q).nth = fill_rvd_cnt_q[h]
                 /\ fill_rvd_cnt_q[h] < fill_ext_cnt_q[h]
                 /\ bus_q # <<>>
         /\ fill_rvd_arb(in) \subseteq fill_busy_q
         /\ \A i \in fill_rvd_arb(in) : fill_rvd_cnt_q[i] < fill_ext_cnt_q[i]
  <1>1. CASE in.rvalid
    <2>1. bus_q # <<>>
      BY <1>1 DEF Env
    <2> QED
      BY <1>1, <2>1, HeadOwner DEF fill_rvd_arb
  <1>2. CASE ~in.rvalid
    BY <1>2 DEF fill_rvd_arb
  <1> QED
    BY <1>1, <1>2

\* A buffer that asks the bus still has a beat to ask for; one of them is
\* chosen whenever there is one.
LEMMA ExtArb ==
  ASSUME TypeOK, AgeOrder, BusInv, NEW in \in AnyInput
  PROVE  /\ fill_ext_done_d(in) \subseteq fill_busy_q
         /\ fill_ext_done_q \subseteq fill_ext_done_d(in)
         /\ fill_ext_done_d(in) \cap fill_ext_hold_q = {}
         /\ fill_ext_req(in) \subseteq fill_busy_q
         /\ fill_ext_arb(in) \subseteq fill_ext_req(in)
         /\ \A i \in fill_ext_req(in) : fill_ext_cnt_q[i] < IC_LINE_BEATS
         /\ fill_ext_req(in) = {} => fill_ext_arb(in) = {}
         /\ fill_ext_req(in) # {} =>
              \E j \in fill_ext_req(in) :
                 /\ fill_ext_arb(in) = {j}
                 /\ fill_older_q[j] \subseteq fill_ext_done_d(in)
  <1>1. /\ fill_ext_done_d(in) \subseteq fill_busy_q
        /\ fill_ext_done_d(in) \cap fill_ext_hold_q = {}
        /\ fill_ext_req(in) \in SUBSET fill_busy_q
        /\ fill_ext_arb(in) \subseteq fill_ext_req(in)
        /\ fill_busy_q \subseteq FB
    BY DEF fill_ext_done_d, fill_ext_req, fill_ext_arb, Oldest, TypeOK
  <1>2. fill_ext_done_q \subseteq fill_ext_done_d(in)
    BY DEF fill_ext_done_d, BusInv, DoneStable
  <1>3. ASSUME NEW i \in fill_ext_req(in) PROVE fill_ext_cnt_q[i] < IC_LINE_BEATS
    <2>1. fill_ext_cnt_q[i] \in Nat /\ fill_ext_cnt_q[i] <= IC_LINE_BEATS
      BY <1>1, ParamAssumption DEF TypeOK, Count
    <2>2. CASE i \in fill_ext_hold_q
      BY <2>2 DEF BusInv, HoldNotFull
    <2>3. CASE i \notin fill_ext_hold_q
      BY <2>1, <2>3, ParamAssumption DEF fill_ext_req, fill_ext_done_d
    <2> QED
      BY <2>2, <2>3
  <1>4. ASSUME fill_ext_req(in) # {}
        PROVE  \E j \in fill_ext_req(in) :
                  /\ fill_ext_arb(in) = {j}
                  /\ fill_older_q[j] \subseteq fill_ext_done_d(in)
    <2>1. PICK j : j \in fill_ext_arb(in)
      BY <1>1, <1>4, OldestExists DEF fill_ext_arb
    <2>2. fill_ext_arb(in) = {j}
      BY <1>1, <2>1, OldestUnique DEF fill_ext_arb
    <2>3. fill_older_q[j] \subseteq fill_busy_q
      BY <1>1, <2>1 DEF AgeOrder
    <2>4. fill_older_q[j] \cap fill_ext_req(in) = {}
      BY <2>1 DEF fill_ext_arb, Oldest
    <2> QED
      BY <1>1, <2>1, <2>2, <2>3, <2>4 DEF fill_ext_req
  <1> QED
    BY <1>1, <1>2, <1>3, <1>4

(***************************************************************************)
(* Types are preserved, one group of registers at a time.                  *)
(***************************************************************************)
LEMMA LookupTypes ==
  ASSUME TypeOK, NEW in \in AnyInput, Env(in), LookupRegs(in)
  PROVE  /\ prefetch_addr_q' \in Addr \cup {NoAddr}
         /\ lookup_valid_ic1' \in BOOLEAN /\ lookup_line_ic1' \in Line
         /\ fill_in_ic1' \in SUBSET FB /\ ecc_write_req' \in BOOLEAN
  <1>1. prefetch_addr_q' \in Addr \cup {NoAddr}
    <2>1. CASE lookup_grant_ic0(in)
      <3>1. NextLine(lookup_addr_ic0(in).line) \in Line
        BY <2>1, LookupAddr, NextAddrType
      <3>2. prefetch_addr_d(in) \in Addr
        BY <2>1, <3>1, ParamAssumption DEF prefetch_addr_d, Addr, Beat
      <3> QED
        BY <2>1, <3>2 DEF LookupRegs, prefetch_addr_en
    <2>2. CASE ~lookup_grant_ic0(in)
      BY <2>2, InputTypes DEF LookupRegs, prefetch_addr_en, prefetch_addr_d, TypeOK
    <2> QED
      BY <2>1, <2>2
  <1>2. lookup_valid_ic1' \in BOOLEAN /\ ecc_write_req' \in BOOLEAN
    BY DEF LookupRegs, lookup_actual_ic0
  <1>3. lookup_line_ic1' \in Line
    <2>1. CASE lookup_actual_ic0(in)
      <3>1. lookup_addr_ic0(in) \in Addr
        BY <2>1, LookupAddr DEF lookup_actual_ic0
      <3> QED
        BY <2>1, <3>1 DEF LookupRegs, Addr
    <2>2. CASE ~lookup_actual_ic0(in)
      BY <2>2, ParamAssumption DEF LookupRegs, Line
    <2> QED
      BY <2>1, <2>2
  <1>4. fill_in_ic1' \in SUBSET FB
    BY DEF LookupRegs, fill_alloc_sel
  <1> QED
    BY <1>1, <1>2, <1>3, <1>4

\* The status registers of the fill buffers keep their types.
LEMMA StatusTypes ==
  ASSUME TypeOK, AgeOrder, NEW in \in AnyInput, Env(in), AgeRegs(in), StatusRegs(in)
  PROVE  /\ fill_busy_q' \in SUBSET FB /\ fill_older_q' \in [FB -> SUBSET FB]
         /\ fill_stale_q' \in SUBSET FB /\ fill_cache_q' \in SUBSET FB
         /\ fill_hit_q' \in SUBSET FB /\ fill_ram_done_q' \in SUBSET FB
         /\ fill_addr_q' \in [FB -> Addr \cup {NoAddr}]
  <1>1. fill_busy_d(in) \subseteq FB /\ fill_busy_q' = fill_busy_d(in)
        /\ fill_older_q' \in [FB -> SUBSET FB]
    BY AgeStep DEF TypeOK
  <1>2. \A i \in fill_alloc(in) : lookup_addr_ic0(in) \in Addr
    BY LookupAddr, AllocFree
  <1>3. fill_addr_q' \in [FB -> Addr \cup {NoAddr}]
    BY <1>2 DEF StatusRegs, TypeOK
  <1> QED
    BY <1>1, <1>3 DEF StatusRegs

\* The registers that follow a buffer's bus requests keep their types.
LEMMA ExtTypes ==
  ASSUME TypeOK, AgeOrder, BusInv, NEW in \in AnyInput, AgeRegs(in), ExtRegs(in)
  PROVE  /\ fill_ext_hold_q' \in SUBSET FB /\ fill_ext_done_q' \in SUBSET FB
         /\ fill_ext_cnt_q' \in [FB -> Count]
  <1>1. fill_busy_d(in) \subseteq FB
    BY AgeStep DEF TypeOK
  <1>2. ASSUME NEW i \in FB
        PROVE  fill_ext_cnt_q[i] + (IF i \in fill_ext_arb(in) /\ in.gnt THEN 1 ELSE 0) \in Count
    <2>1. fill_ext_cnt_q[i] \in Count
      BY DEF TypeOK
    <2>2. i \in fill_ext_arb(in) => fill_ext_cnt_q[i] < IC_LINE_BEATS
      BY ExtArb
    <2> QED
      BY <2>1, <2>2, ParamAssumption DEF Count
  <1>3. 0 \in Count /\ 1 \in Count
    BY ParamAssumption DEF Count
  <1>4. fill_ext_cnt_q' \in [FB -> Count]
    BY <1>2, <1>3 DEF ExtRegs
  <1> QED
    BY <1>1, <1>4 DEF ExtRegs

\* A lookup that hits delivers data for every beat.
LEMMA HitData ==
  ASSUME NEW in \in AnyInput, NEW b \in Beat, fill_hit_ic1(in) # {}
  PROVE  in.hit[b] \in Contents
  BY InputTypes DEF fill_hit_ic1, tag_hit_ic1

\* A response carries data.
LEMMA BusData ==
  ASSUME TypeOK, NEW in \in AnyInput, bus_q # <<>>
  PROVE  instr_rdata(in) \in Data
  <1>1. Head(bus_q).addr \in Addr /\ Head(bus_q).ver \in Versions
    BY BusIndices DEF Outstanding
  <1>2. in.err \in BOOLEAN
    BY InputTypes
  <1> QED
    BY <1>1, <1>2 DEF instr_rdata, Data, Addr

\* The registers that collect a buffer's words keep their types.
LEMMA RvdTypes ==
  ASSUME TypeOK, AgeOrder, BusInv, NEW in \in AnyInput, Env(in), RvdRegs(in)
  PROVE  /\ fill_rvd_cnt_q' \in [FB -> Count]
         /\ fill_err_q' \in [FB -> SUBSET Beat]
         /\ fill_data_q' \in [FB -> [Beat -> Contents]]
  <1>1. fill_rvd_cnt_q' \in [FB -> Count]
    <2>1. ASSUME NEW i \in FB
          PROVE  fill_rvd_cnt_q[i] + (IF i \in fill_rvd_arb(in) THEN 1 ELSE 0) \in Count
      <3>1. fill_rvd_cnt_q[i] \in Count /\ fill_ext_cnt_q[i] \in Count
        BY DEF TypeOK
      <3>2. i \in fill_rvd_arb(in) => fill_rvd_cnt_q[i] < fill_ext_cnt_q[i]
        BY RvdArb
      <3> QED
        BY <3>1, <3>2, ParamAssumption DEF Count
    <2>2. 0 \in Count
      BY ParamAssumption DEF Count
    <2> QED
      BY <2>1, <2>2 DEF RvdRegs
  <1>2. fill_err_q' \in [FB -> SUBSET Beat]
    <2>1. ASSUME NEW i \in fill_rvd_arb(in) PROVE fill_rvd_off(i) \in Beat
      <3>1. i \in FB /\ i \in fill_busy_q
        BY RvdArb DEF TypeOK
      <3>2. fill_addr_q[i].beat \in Nat /\ fill_rvd_cnt_q[i] \in Nat
        BY <3>1, NoAddrNotAddr, ParamAssumption DEF TypeOK, Addr, Beat, Count
      <3>3. fill_rvd_beat(i) \in Nat
        BY <3>2 DEF fill_rvd_beat
      <3> QED
        BY <3>3, ModRange, ParamAssumption DEF fill_rvd_off, Beat
    <2>2. \A i \in FB : fill_err_q[i] \subseteq Beat
      BY DEF TypeOK
    <2> QED
      BY <2>1, <2>2 DEF RvdRegs
  <1>3. fill_data_q' \in [FB -> [Beat -> Contents]]
    <2>1. \A i \in fill_rvd_arb(in) : instr_rdata(in) \in Data
      BY RvdArb, BusData
    <2>2. \A i \in fill_hit_ic1(in) : \A b \in Beat : in.hit[b] \in Contents
      BY HitData
    <2>3. \A i \in FB : \A b \in Beat : fill_data_q[i][b] \in Contents
      BY DEF TypeOK
    <2> QED
      BY <2>1, <2>2, <2>3 DEF RvdRegs, Contents
  <1> QED
    BY <1>1, <1>2, <1>3

\* The registers of the word output keep their types.
LEMMA OutTypes ==
  ASSUME TypeOK, AgeOrder, BusInv, Started, NEW in \in AnyInput, Env(in), OutRegs(in)
  PROVE  /\ fill_out_cnt_q' \in [FB -> Count]
         /\ out_addr' \in Addr \cup {NoAddr}
         /\ fetched' \in [data : Contents, err : BOOLEAN]
  <1>1. fill_out_cnt_q' \in [FB -> Count]
    <2>1. ASSUME NEW i \in FB
          PROVE  fill_out_cnt_q[i] + (IF i \in fill_out_grant(in) THEN 1 ELSE 0) \in Count
      <3>1. fill_out_cnt_q[i] \in Count
        BY DEF TypeOK
      <3>2. i \in fill_out_grant(in) => fill_out_cnt_q[i] # IC_LINE_BEATS
        BY DEF fill_out_grant, fill_out_arb, fill_out_req, out_waiting, fill_out_done
      <3> QED
        BY <3>1, <3>2, ParamAssumption DEF Count
    <2>2. \A i \in fill_alloc(in) : lookup_addr_ic0(in).beat \in Count
      <3>1. \A i \in fill_alloc(in) : lookup_addr_ic0(in) \in Addr
        BY LookupAddr, AllocFree
      <3> QED
        BY <3>1, ParamAssumption DEF Addr, Beat, Count
    <2>3. 0 \in Count
      BY ParamAssumption DEF Count
    <2> QED
      BY <2>1, <2>2, <2>3 DEF OutRegs
  <1>2. out_addr' \in Addr \cup {NoAddr}
    <2>1. CASE branch_i(in)
      BY <2>1, InputTypes DEF OutRegs
    <2>2. CASE ~branch_i(in) /\ fill_out_grant(in) # {}
      <3>1. fill_busy_q # {}
        BY <2>2 DEF fill_out_grant, fill_out_arb, fill_out_req, out_waiting
      <3>2. out_addr \in Addr
        BY <3>1 DEF Started, TypeOK
      <3> QED
        BY <2>2, <3>2, NextAddrType DEF OutRegs
    <2>3. CASE ~branch_i(in) /\ fill_out_grant(in) = {}
      BY <2>3 DEF OutRegs, TypeOK
    <2> QED
      BY <2>1, <2>2, <2>3
  <1>3. out_addr.beat \in Beat
    BY NoAddrNotAddr DEF TypeOK, Addr
  <1>4. output_data(in) \in Contents
    <2>1. CASE fill_data_rvd(in) # {}
      <3>1. bus_q # <<>>
        BY <2>1, RvdArb DEF fill_data_rvd
      <3> QED
        BY <2>1, <3>1, BusData DEF output_data, Contents
    <2>2. CASE fill_data_rvd(in) = {} /\ fill_data_hit(in) # {}
      <3>1. fill_hit_ic1(in) # {}
        BY <2>2 DEF fill_data_hit
      <3> QED
        BY <1>3, <2>2, <3>1, HitData DEF output_data
    <2>3. CASE fill_data_rvd(in) = {} /\ fill_data_hit(in) = {}
      <3>1. CASE \E i \in FB : fill_data_reg = {i}
        <4>1. PICK i \in FB : fill_data_reg = {i}
          BY <3>1
        <4>2. (CHOOSE j \in fill_data_reg : TRUE) = i
          BY <4>1
        <4>3. output_data(in) = fill_data_q[i][out_addr.beat]
          BY <2>3, <3>1, <4>2 DEF output_data
        <4> QED
          BY <1>3, <4>3 DEF TypeOK
      <3>2. CASE ~\E i \in FB : fill_data_reg = {i}
        BY <2>3, <3>2 DEF output_data, Contents
      <3> QED
        BY <3>1, <3>2
    <2> QED
      BY <2>1, <2>2, <2>3
  <1>5. output_err(in) \in BOOLEAN
    <2>1. in.err \in BOOLEAN
      BY InputTypes
    <2> QED
      BY <2>1 DEF output_err
  <1>6. Nothing \in [data : Contents, err : BOOLEAN]
    BY DEF Nothing, Contents
  <1>7. fetched' \in [data : Contents, err : BOOLEAN]
    BY <1>4, <1>5, <1>6 DEF OutRegs
  <1> QED
    BY <1>1, <1>2, <1>7

(***************************************************************************)
(* The request on the bus.                                                 *)
(***************************************************************************)
\* The two places that mask the request of a fetch that has just been looked
\* up, fill_spec_req and instr_req, agree.  They do not in opt2 and opt3 with a
\* line buffer, and nothing below holds of those.
MaskAgrees(in) == Variant \in {"baseline", "opt1"} \/ ~in.line_buf
MasksAgree == Variant \in {"baseline", "opt1"} \/ LineBufIn \subseteq {FALSE}

\* It is the next request of the buffer the arbiter chose ...
RequestOfBusy(in, j) ==
  /\ j \in fill_ext_req(in) /\ fill_ext_arb(in) = {j}
  /\ fill_older_q[j] \subseteq fill_ext_done_d(in)
  /\ ext_nth(in) = fill_ext_cnt_q[j]
  /\ ~fill_spec_req(in)
  /\ instr_addr(in) = [line |-> fill_addr_q[j].line,
                       beat |-> (fill_addr_q[j].beat + fill_ext_cnt_q[j]) % IC_LINE_BEATS]

\* ... or the first one of the buffer that is allocated in this cycle.
RequestOfNew(in, j) ==
  /\ fill_ext_req(in) = {} /\ fill_ext_arb(in) = {} /\ fill_alloc(in) = {j}
  /\ ext_nth(in) = 0
  /\ fill_spec_req(in)
  /\ instr_addr(in) = lookup_addr_ic0(in)

\* A request on the bus has one requester: a busy buffer, or the buffer the
\* granted lookup allocates (a speculative request).
LEMMA Requester ==
  ASSUME TypeOK, AgeOrder, Started, BusInv,
         NEW in \in AnyInput, MaskAgrees(in), Env(in), instr_req(in)
  PROVE  /\ instr_addr(in) \in Addr /\ ext_nth(in) \in Count
         /\ \E j \in FB : /\ ext_owner(in) = {j}
                          /\ RequestOfBusy(in, j) \/ RequestOfNew(in, j)
  <1>1. CASE fill_ext_req(in) # {}
    <2>1. PICK j \in fill_ext_req(in) :
             fill_ext_arb(in) = {j} /\ fill_older_q[j] \subseteq fill_ext_done_d(in)
      BY <1>1, ExtArb
    <2>2. (CHOOSE i \in fill_ext_arb(in) : TRUE) = j
      BY <2>1
    <2>3. j \in FB /\ j \in fill_busy_q
      BY ExtArb DEF TypeOK
    <2>4. /\ ext_owner(in) = {j}
          /\ ext_nth(in) = fill_ext_cnt_q[j]
          /\ ~fill_spec_req(in)
          /\ instr_addr(in) = [line |-> fill_addr_q[j].line, beat |-> fill_ext_off(j)]
      BY <1>1, <2>1, <2>2 DEF ext_owner, ext_nth, fill_spec_req, instr_addr
    <2>5. fill_ext_off(j) = (fill_addr_q[j].beat + fill_ext_cnt_q[j]) % IC_LINE_BEATS
      BY DEF fill_ext_off, fill_ext_beat
    <2>6. fill_addr_q[j] \in Addr /\ fill_ext_cnt_q[j] \in Count
      BY <2>3 DEF TypeOK, Started
    <2>7. fill_ext_off(j) \in Beat
      <3>1. fill_ext_beat(j) \in Nat
        BY <2>6, ParamAssumption DEF fill_ext_beat, Addr, Beat, Count
      <3> QED
        BY <3>1, ModRange, ParamAssumption DEF fill_ext_off, Beat
    <2>8. instr_addr(in) \in Addr
      BY <2>4, <2>6, <2>7 DEF Addr
    <2> QED
      BY <2>1, <2>3, <2>4, <2>5, <2>6, <2>8 DEF RequestOfBusy
  <1>2. CASE fill_ext_req(in) = {}
    <2>1. /\ ~in.enable \/ branch_i(in)
          /\ lookup_grant_ic0(in)
          /\ Variant # "baseline" \/ ~in.line_buf
      BY <1>2 DEF instr_req
    <2>2. Variant = "opt1" \/ ~in.line_buf
      BY <2>1 DEF MaskAgrees
    <2>3. fill_spec_req(in)
      BY <1>2, <2>1, <2>2 DEF fill_spec_req
    <2>4. lookup_addr_ic0(in) \in Addr /\ fill_busy_q # FB
      BY <2>1, LookupAddr
    <2>5. PICK j : j \in fill_alloc_sel
      BY <2>4, AllocExists DEF TypeOK
    <2>6. fill_alloc(in) = {j} /\ j \in FB
      BY <2>1, <2>5, AllocFree
    <2>7. fill_ext_arb(in) = {}
      BY <1>2, ExtArb
    <2>8. /\ ext_owner(in) = {j} /\ ext_nth(in) = 0
          /\ instr_addr(in) = lookup_addr_ic0(in)
      BY <1>2, <2>6 DEF ext_owner, ext_nth, instr_addr
    <2>9. 0 \in Count
      BY ParamAssumption DEF Count
    <2> QED
      BY <1>2, <2>3, <2>4, <2>6, <2>7, <2>8, <2>9 DEF RequestOfNew
  <1> QED
    BY <1>1, <1>2

\* The bus queue holds well-formed requests.
LEMMA BusTypes ==
  ASSUME TypeOK, AgeOrder, Started, BusInv,
         NEW in \in AnyInput, MaskAgrees(in), Env(in), Bus(in)
  PROVE  bus_wait' \in Addr \cup {NoAddr} /\ bus_q' \in Seq(Outstanding)
  <1>1. bus_wait' \in Addr \cup {NoAddr}
    BY Requester DEF Bus
  <1> DEFINE rest == IF in.rvalid THEN Tail(bus_q) ELSE bus_q
             entry == [addr |-> instr_addr(in), owner |-> ext_owner(in),
                       nth |-> ext_nth(in), ver |-> in.ver]
  <1>2. rest \in Seq(Outstanding)
    BY DEF TypeOK, Env
  <1>3. in.gnt => entry \in Outstanding
    <2>1. in.gnt => instr_req(in)
      BY DEF Env
    <2> QED
      BY <2>1, Requester, InputTypes DEF Outstanding
  <1>4. bus_q' = IF in.gnt THEN Append(rest, entry) ELSE rest
    BY DEF Bus
  <1>5. bus_q' \in Seq(Outstanding)
    <2> HIDE DEF rest, entry
    <2> QED
      BY <1>2, <1>3, <1>4
  <1> QED
    BY <1>1, <1>5

\* A clock edge preserves the type invariant.
LEMMA TypePreserved ==
  ASSUME TypeOK, AgeOrder, Started, BusInv,
         NEW in \in AnyInput, MaskAgrees(in), Env(in), Clock(in)
  PROVE  TypeOK'
  <1>1. /\ LookupRegs(in) /\ AgeRegs(in) /\ StatusRegs(in) /\ ExtRegs(in)
        /\ RvdRegs(in) /\ OutRegs(in) /\ Bus(in)
    BY DEF Clock
  <1> QED
    BY <1>1, LookupTypes, StatusTypes, ExtTypes, RvdTypes, OutTypes, BusTypes DEF TypeOK

\* A clock edge preserves: a busy buffer has an address and so does the prefetcher.
LEMMA StartedPreserved ==
  ASSUME TypeOK, AgeOrder, Started, NEW in \in AnyInput, Env(in), Clock(in)
  PROVE  Started'
  <1>1. LookupRegs(in) /\ AgeRegs(in) /\ StatusRegs(in) /\ OutRegs(in)
    BY DEF Clock
  <1>2. /\ branch_i(in) => in.addr \in Addr
        /\ NoAddr \notin Addr
    BY InputTypes, NoAddrNotAddr DEF branch_i
  <1>3. lookup_grant_ic0(in) => prefetch_addr_d(in) \in Addr
    <2>1. lookup_grant_ic0(in) => NextLine(lookup_addr_ic0(in).line) \in Line
      BY LookupAddr, NextAddrType
    <2> QED
      BY <2>1, ParamAssumption DEF prefetch_addr_d, Addr, Beat
  <1>4. out_addr # NoAddr \/ branch_i(in) => out_addr' # NoAddr
    <2>1. CASE branch_i(in)
      BY <1>1, <1>2, <2>1 DEF OutRegs
    <2>2. CASE ~branch_i(in) /\ out_addr # NoAddr
      <3>1. out_addr \in Addr
        BY <2>2 DEF TypeOK
      <3>2. NextAddr(out_addr) # NoAddr
        BY <1>2, <3>1, NextAddrType
      <3> QED
        BY <1>1, <2>2, <3>2 DEF OutRegs
    <2> QED
      BY <2>1, <2>2
  <1>5. prefetch_addr_q # NoAddr \/ branch_i(in) => prefetch_addr_q' # NoAddr
    BY <1>1, <1>2, <1>3 DEF LookupRegs, prefetch_addr_en, prefetch_addr_d
  <1>6. prefetch_addr_q = NoAddr /\ ~branch_i(in) =>
           prefetch_addr_q' = NoAddr /\ fill_busy_q' = {}
    <2> SUFFICES ASSUME prefetch_addr_q = NoAddr, ~branch_i(in)
                 PROVE  prefetch_addr_q' = NoAddr /\ fill_busy_q' = {}
      OBVIOUS
    <2>1. ~lookup_grant_ic0(in)
      BY LookupAddr
    <2>2. fill_busy_q = {} /\ fill_alloc(in) = {}
      BY <2>1 DEF Started, fill_alloc
    <2> QED
      BY <1>1, <2>1, <2>2 DEF LookupRegs, prefetch_addr_en, AgeRegs, fill_busy_d
  <1>7. \A i \in fill_busy_q' : fill_addr_q'[i] # NoAddr
    <2>1. fill_busy_q' = fill_busy_d(in) /\ fill_busy_d(in) \subseteq FB
          /\ fill_busy_d(in) \subseteq fill_alloc(in) \cup fill_busy_q
      BY <1>1, AgeStep DEF TypeOK
    <2>2. \A i \in fill_alloc(in) : lookup_addr_ic0(in) # NoAddr
      BY <1>2, LookupAddr, AllocFree
    <2> QED
      BY <1>1, <2>1, <2>2 DEF StatusRegs, Started
  <1> QED
    BY <1>4, <1>5, <1>6, <1>7 DEF Started

(***************************************************************************)
(* What requesting buffers have in common.                                 *)
(***************************************************************************)
LEMMA ExtStep ==
  ASSUME TypeOK, AgeOrder, BusInv, NEW in \in AnyInput, AgeRegs(in), ExtRegs(in)
  PROVE  /\ \A i \in fill_busy_q \ fill_done(in) :
               fill_ext_cnt_q'[i] = fill_ext_cnt_q[i] +
                                    (IF i \in fill_ext_arb(in) /\ in.gnt THEN 1 ELSE 0)
         /\ \A i \in fill_alloc(in) :
               fill_ext_cnt_q'[i] = IF fill_spec_done(in) THEN 1 ELSE 0
         /\ fill_ext_hold_q' \subseteq fill_busy_d(in)
         /\ fill_ext_hold_q' \subseteq fill_alloc(in) \cup fill_ext_arb(in)
         /\ fill_ext_done_q' = fill_busy_d(in) \cap fill_ext_done_d(in)
         /\ fill_alloc(in) \cap fill_busy_q = {}
         /\ fill_busy_d(in) \subseteq FB
  BY AgeStep, AllocFree DEF ExtRegs, TypeOK

\* A buffer that is done requesting and has all its data is not in the way of
\* the requests below: only such buffers are released.
LEMMA ReleasedAreDone ==
  ASSUME NEW in
  PROVE  fill_done(in) \subseteq fill_ext_done_q
  BY DEF fill_done, fill_rvd_done

\* A request on hold belongs to a buffer with a word left to request.
LEMMA HoldPreserved ==
  ASSUME TypeOK, AgeOrder, BusInv, NEW in \in AnyInput, Clock(in)
  PROVE  HoldNotFull'
  <1>1. AgeRegs(in) /\ ExtRegs(in)
    BY DEF Clock
  <1>2. ASSUME NEW i \in fill_ext_hold_q'
        PROVE  i \in fill_busy_q' /\ fill_ext_cnt_q'[i] < IC_LINE_BEATS
    <2>1. i \in fill_busy_d(in) /\ i \in fill_busy_q'
      BY <1>1, <1>2, ExtStep DEF AgeRegs
    <2>2. CASE i \in fill_alloc(in)
      <3>1. ~in.gnt
        BY <1>1, <1>2, <2>2, ExtStep, ExtArb DEF ExtRegs, fill_spec_hold
      <3>2. fill_ext_cnt_q'[i] = 0
        BY <1>1, <2>2, <3>1, ExtStep DEF fill_spec_done
      <3> QED
        BY <2>1, <3>2, ParamAssumption
    <2>3. CASE i \notin fill_alloc(in)
      <3>1. i \in fill_ext_arb(in) /\ ~in.gnt
        BY <1>1, <1>2, <2>3 DEF ExtRegs
      <3>2. i \in fill_busy_q \ fill_done(in)
        BY <2>1, <2>3 DEF fill_busy_d
      <3>3. fill_ext_cnt_q'[i] = fill_ext_cnt_q[i] + 0
        BY <1>1, <3>1, <3>2, ExtStep
      <3>4. fill_ext_cnt_q[i] \in Nat /\ fill_ext_cnt_q[i] < IC_LINE_BEATS
        BY <3>1, <3>2, ExtArb, ParamAssumption DEF TypeOK, Count
      <3> QED
        BY <2>1, <3>3, <3>4
    <2> QED
      BY <2>2, <2>3
  <1> QED
    BY <1>2 DEF HoldNotFull

\* A buffer that is done requesting stays done until it is released.
LEMMA DonePreserved ==
  ASSUME TypeOK, AgeOrder, BusInv, NEW in \in AnyInput, Clock(in)
  PROVE  DoneStable'
  <1>1. AgeRegs(in) /\ ExtRegs(in) /\ StatusRegs(in)
    BY DEF Clock
  <1>2. ASSUME NEW i \in fill_ext_done_q'
        PROVE  /\ i \in fill_busy_q' \ fill_ext_hold_q'
               /\ \/ fill_ext_cnt_q'[i] = IC_LINE_BEATS
                  \/ i \in fill_hit_q'
                  \/ /\ i \notin fill_cache_q'
                     /\ i \in fill_stale_q' \/ fill_ext_beat(i)' >= IC_LINE_BEATS
    <2>1. /\ i \in fill_busy_d(in) /\ i \in fill_ext_done_d(in)
          /\ i \in fill_busy_q /\ i \in FB /\ i \notin fill_alloc(in)
          /\ i \in fill_busy_q \ fill_done(in)
          /\ i \in fill_busy_q'
      BY <1>1, <1>2, ExtStep, ExtArb DEF AgeRegs, fill_busy_d
    <2>2. i \notin fill_ext_arb(in) /\ i \notin fill_ext_hold_q'
      BY <1>1, <2>1, ExtStep, ExtArb DEF fill_ext_req
    <2>3. fill_ext_cnt_q[i] \in Nat
      BY <2>1, ParamAssumption DEF TypeOK, Count
    <2>4. fill_ext_cnt_q'[i] = fill_ext_cnt_q[i]
      BY <1>1, <2>1, <2>2, <2>3, ExtStep
    <2>5. fill_addr_q'[i] = fill_addr_q[i]
      BY <1>1, <2>1 DEF StatusRegs
    <2>6. fill_ext_beat(i)' = fill_ext_beat(i)
      BY <2>4, <2>5 DEF fill_ext_beat
    <2>7. /\ i \in fill_hit_ic1(in) \cup fill_hit_q => i \in fill_hit_q'
          /\ i \notin fill_cache_q => i \notin fill_cache_q'
          /\ branch_i(in) \/ i \in fill_stale_q => i \in fill_stale_q'
      BY <1>1, <2>1 DEF StatusRegs, fill_cache_d
    <2>8. \/ fill_ext_cnt_q[i] = IC_LINE_BEATS
          \/ i \in fill_hit_ic1(in) \cup fill_hit_q
          \/ /\ i \notin fill_cache_q
             /\ branch_i(in) \/ i \in fill_stale_q \/ fill_ext_beat(i) >= IC_LINE_BEATS
      BY <2>1 DEF fill_ext_done_d
    <2> QED
      BY <2>1, <2>2, <2>4, <2>6, <2>7, <2>8
  <1> QED
    BY <1>2 DEF DoneStable

\* An older buffer requests before a younger one.
LEMMA ExtOrderPreserved ==
  ASSUME TypeOK, AgeOrder, BusInv, NEW in \in AnyInput, Clock(in)
  PROVE  ExtInAgeOrder'
  <1>1. AgeRegs(in) /\ ExtRegs(in)
    BY DEF Clock
  <1>2. ASSUME NEW i \in fill_busy_q', NEW j \in fill_busy_q',
               i \in fill_older_q'[j],
               fill_ext_cnt_q'[j] > 0 \/ j \in fill_ext_hold_q'
        PROVE  i \in fill_ext_done_q'
    <2>1. i \in fill_busy_d(in) /\ j \in fill_busy_d(in)
      BY <1>1 DEF AgeRegs
    <2> SUFFICES i \in fill_ext_done_d(in)
      BY <1>1, <2>1, ExtStep
    <2>2. CASE j \in fill_alloc(in)
      <3>1. i \in fill_busy_q
        BY <1>1, <1>2, <2>2, AgeStep DEF TypeOK
      <3>2. fill_spec_req(in)
        <4>1. CASE j \in fill_ext_hold_q'
          BY <1>1, <2>2, <4>1, ExtStep, ExtArb DEF ExtRegs, fill_spec_hold
        <4>2. CASE fill_ext_cnt_q'[j] > 0
          BY <1>1, <2>2, <4>2, ExtStep DEF fill_spec_done
        <4> QED
          BY <1>2, <4>1, <4>2
      <3> QED
        BY <3>1, <3>2 DEF fill_spec_req, fill_ext_req
    <2>3. CASE j \notin fill_alloc(in)
      <3>1. /\ j \in fill_busy_q \ fill_done(in) /\ j \in FB
            /\ fill_older_q'[j] = fill_older_q[j] \ fill_done(in)
        BY <1>1, <2>1, <2>3, AgeStep DEF TypeOK
      <3>2. i \in fill_older_q[j] /\ i \in fill_busy_q
        BY <1>2, <3>1 DEF AgeOrder
      <3>3. CASE j \in fill_ext_arb(in)
        <4>1. PICK g \in fill_ext_req(in) :
                 fill_ext_arb(in) = {g} /\ fill_older_q[g] \subseteq fill_ext_done_d(in)
          BY <3>3, ExtArb
        <4> QED
          BY <3>2, <3>3, <4>1
      <3>4. CASE j \notin fill_ext_arb(in)
        <4>1. fill_ext_cnt_q'[j] = fill_ext_cnt_q[j] /\ j \notin fill_ext_hold_q'
          <5>1. fill_ext_cnt_q[j] \in Nat
            BY <3>1, ParamAssumption DEF TypeOK, Count
          <5> QED
            BY <1>1, <2>3, <3>1, <3>4, <5>1, ExtStep
        <4>2. i \in fill_ext_done_q
          BY <1>2, <3>1, <3>2, <4>1 DEF BusInv, ExtInAgeOrder
        <4> QED
          BY <4>2, ExtArb
      <3> QED
        BY <3>3, <3>4
    <2> QED
      BY <2>2, <2>3
  <1> QED
    BY <1>2 DEF ExtInAgeOrder

\* A request that is not granted is there again in the next cycle.
LEMMA WaitPreserved ==
  ASSUME TypeOK, AgeOrder, Started, BusInv,
         NEW in \in AnyInput, MaskAgrees(in), Env(in), Clock(in)
  PROVE  WaitHeld'
  <1>1. AgeRegs(in) /\ ExtRegs(in) /\ Bus(in)
    BY DEF Clock
  <1>2. ASSUME instr_req(in), ~in.gnt PROVE fill_ext_hold_q' # {}
    <2>1. PICK j \in FB : RequestOfBusy(in, j) \/ RequestOfNew(in, j)
      BY <1>2, Requester
    <2>2. CASE RequestOfBusy(in, j)
      <3>1. j \in fill_busy_q /\ j \notin fill_done(in) /\ j \in fill_ext_arb(in)
        BY <2>2, ExtArb, ReleasedAreDone DEF RequestOfBusy, fill_ext_req
      <3> QED
        BY <1>1, <1>2, <3>1 DEF ExtRegs, fill_busy_d
    <2>3. CASE RequestOfNew(in, j)
      BY <1>1, <1>2, <2>3 DEF RequestOfNew, ExtRegs, fill_spec_hold, fill_busy_d
    <2> QED
      BY <2>1, <2>2, <2>3
  <1> QED
    BY <1>1, <1>2 DEF WaitHeld, Bus

(***************************************************************************)
(* The outstanding requests after a step.                                  *)
(***************************************************************************)
\* How many responses a step takes from the bus.
Answered(in) == IF in.rvalid THEN 1 ELSE 0

\* The bus queue loses the answered request and gains the granted one.
LEMMA BusQueue ==
  ASSUME TypeOK, NEW in \in AnyInput, Env(in), Bus(in)
  PROVE  \E m \in Nat :
            /\ m + Answered(in) = Len(bus_q)
            /\ \A k \in 1..m : bus_q'[k] = bus_q[k + Answered(in)]
            /\ ~in.gnt => DOMAIN bus_q' = 1..m
            /\ in.gnt => /\ DOMAIN bus_q' = 1..(m + 1)
                         /\ bus_q'[m + 1] =
                              [addr |-> instr_addr(in), owner |-> ext_owner(in),
                               nth |-> ext_nth(in), ver |-> in.ver]
  <1> DEFINE rest == IF in.rvalid THEN Tail(bus_q) ELSE bus_q
             entry == [addr |-> instr_addr(in), owner |-> ext_owner(in),
                       nth |-> ext_nth(in), ver |-> in.ver]
  <1>1. bus_q \in Seq(Outstanding) /\ (in.rvalid => bus_q # <<>>)
    BY DEF TypeOK, Env
  <1>2. /\ rest \in Seq(Outstanding)
        /\ Len(rest) + Answered(in) = Len(bus_q)
        /\ \A k \in 1..Len(rest) : rest[k] = bus_q[k + Answered(in)]
    <2>1. CASE in.rvalid
      BY <1>1, <2>1 DEF Answered
    <2>2. CASE ~in.rvalid
      BY <1>1, <2>2 DEF Answered
    <2> QED
      BY <2>1, <2>2
  <1>3. bus_q' = IF in.gnt THEN Append(rest, entry) ELSE rest
    BY DEF Bus
  <1>4. Len(rest) \in Nat /\ DOMAIN rest = 1..Len(rest)
    BY <1>2
  <1> HIDE DEF rest
  <1>5. CASE in.gnt
    <2>1. /\ DOMAIN bus_q' = 1..(Len(rest) + 1)
          /\ bus_q'[Len(rest) + 1] = entry
          /\ \A k \in 1..Len(rest) : bus_q'[k] = rest[k]
      <3> HIDE DEF entry
      <3>1. bus_q' = Append(rest, entry)
        BY <1>3, <1>5
      <3> QED
        BY <1>2, <1>4, <3>1
    <2> QED
      BY <1>2, <1>4, <1>5, <2>1
  <1>6. CASE ~in.gnt
    BY <1>2, <1>3, <1>4, <1>6
  <1> QED
    BY <1>5, <1>6

\* The counts and addresses of the buffers that stay, and of a new one.
LEMMA RvdStep ==
  ASSUME TypeOK, AgeOrder, BusInv, NEW in \in AnyInput, Clock(in)
  PROVE  /\ \A i \in fill_busy_q \ fill_done(in) :
               /\ fill_rvd_cnt_q'[i] = fill_rvd_cnt_q[i] +
                                       (IF i \in fill_rvd_arb(in) THEN 1 ELSE 0)
               /\ fill_addr_q'[i] = fill_addr_q[i]
         /\ \A i \in fill_alloc(in) : /\ fill_rvd_cnt_q'[i] = 0
                                      /\ fill_addr_q'[i] = lookup_addr_ic0(in)
  <1>1. AgeRegs(in) /\ StatusRegs(in) /\ RvdRegs(in)
    BY DEF Clock
  <1>2. /\ fill_busy_d(in) \subseteq FB
        /\ fill_busy_d(in) = fill_alloc(in) \cup (fill_busy_q \ fill_done(in))
        /\ fill_alloc(in) \cap fill_busy_q = {}
    BY <1>1, AgeStep, AllocFree DEF TypeOK
  <1> QED
    BY <1>1, <1>2 DEF StatusRegs, RvdRegs

\* The requests that remain after the response of this cycle.
LEMMA RestMatches ==
  ASSUME TypeOK, AgeOrder, BusInv, NEW in \in AnyInput, Env(in), Clock(in),
         NEW m \in Nat, m + Answered(in) = Len(bus_q)
  PROVE  /\ \A i \in fill_busy_q \ fill_done(in) : fill_rvd_cnt_q'[i] <= fill_ext_cnt_q[i]
         /\ \A k \in 1..m : \E i \in fill_busy_q \ fill_done(in) :
               /\ OwnerOf(k + Answered(in), i)
               /\ bus_q[k + Answered(in)].nth \in fill_rvd_cnt_q'[i]..(fill_ext_cnt_q[i] - 1)
               /\ bus_q[k + Answered(in)].addr = [line |-> fill_addr_q[i].line,
                    beat |-> (fill_addr_q[i].beat + bus_q[k + Answered(in)].nth) % IC_LINE_BEATS]
         /\ \A i \in fill_busy_q \ fill_done(in) :
               \A n \in fill_rvd_cnt_q'[i]..(fill_ext_cnt_q[i] - 1) :
                  \E k \in 1..m : /\ OwnerOf(k + Answered(in), i)
                                  /\ bus_q[k + Answered(in)].nth = n
  <1> DEFINE a == Answered(in)
             old == fill_busy_q \ fill_done(in)
  <1>1. /\ a \in {0, 1} /\ (in.rvalid <=> a = 1)
        /\ DOMAIN bus_q = 1..Len(bus_q) /\ Len(bus_q) \in Nat
        /\ \A k \in 1..m : k + a \in DOMAIN bus_q
        /\ \A k \in DOMAIN bus_q : k \in Nat /\ (k # 1 \/ a = 0 => k - a \in 1..m /\ (k - a) + a = k)
    <2>1. DOMAIN bus_q = 1..Len(bus_q) /\ Len(bus_q) \in Nat
      BY BusIndices
    <2>2. a \in {0, 1} /\ (in.rvalid <=> a = 1)
      BY DEF Answered
    <2>3. m + a = Len(bus_q)
      OBVIOUS
    <2> HIDE DEF a
    <2> QED
      BY <2>1, <2>2, <2>3
  <1>2. /\ fill_busy_q \subseteq FB
        /\ \A i \in fill_busy_q : fill_rvd_cnt_q[i] \in Nat /\ fill_ext_cnt_q[i] \in Nat
    BY ParamAssumption DEF TypeOK, Count
  <1>3. \A i \in fill_done(in) : fill_rvd_cnt_q[i] = fill_ext_cnt_q[i]
    BY DEF fill_done, fill_rvd_done
  <1>4. /\ \A i \in old : fill_rvd_cnt_q'[i] = fill_rvd_cnt_q[i] +
                                         (IF i \in fill_rvd_arb(in) THEN 1 ELSE 0)
        /\ \A i \in fill_rvd_arb(in) : fill_rvd_cnt_q[i] < fill_ext_cnt_q[i]
    BY RvdStep, RvdArb
  <1>5. \A i \in fill_busy_q : fill_rvd_cnt_q[i] <= fill_ext_cnt_q[i]
    BY DEF BusInv, BusMatchesCounts
  <1>6. \A i \in old : fill_rvd_cnt_q'[i] <= fill_ext_cnt_q[i]
    BY <1>2, <1>4, <1>5
  <1>7. ASSUME NEW k \in 1..m
        PROVE  \E i \in old :
                  /\ OwnerOf(k + a, i)
                  /\ bus_q[k + a].nth \in fill_rvd_cnt_q'[i]..(fill_ext_cnt_q[i] - 1)
                  /\ bus_q[k + a].addr = [line |-> fill_addr_q[i].line,
                       beat |-> (fill_addr_q[i].beat + bus_q[k + a].nth) % IC_LINE_BEATS]
    <2>1. k + a \in DOMAIN bus_q
      BY <1>1
    <2>2. PICK i \in fill_busy_q :
             /\ OwnerOf(k + a, i)
             /\ bus_q[k + a].nth \in fill_rvd_cnt_q[i]..(fill_ext_cnt_q[i] - 1)
             /\ bus_q[k + a].addr = [line |-> fill_addr_q[i].line,
                  beat |-> (fill_addr_q[i].beat + bus_q[k + a].nth) % IC_LINE_BEATS]
      <3> HIDE DEF a
      <3> QED
        BY <2>1 DEF BusInv, BusMatchesCounts
    <2>3. i \in old
      <3> HIDE DEF a
      <3> QED
        BY <1>2, <1>3, <2>2
    <2>4. bus_q[k + a].nth >= fill_rvd_cnt_q'[i]
      <3>1. CASE i \notin fill_rvd_arb(in)
        <4> HIDE DEF a
        <4> QED
          BY <1>2, <1>4, <2>2, <2>3, <3>1
      <3>2. CASE i \in fill_rvd_arb(in)
        <4>1. /\ a = 1 /\ bus_q # <<>>
              /\ fill_rvd_arb(in) = {i} /\ Head(bus_q).owner = {i}
              /\ Head(bus_q).nth = fill_rvd_cnt_q[i]
          BY <1>1, <3>2, RvdArb
        <4>2. 1 \in DOMAIN bus_q /\ OwnerOf(1, i) /\ bus_q[1].nth = fill_rvd_cnt_q[i]
          BY <4>1, BusIndices DEF OwnerOf
        <4>3. 1 < k + a
          BY <4>1
        <4>4. i \notin fill_older_q[i]
          BY <1>2 DEF AgeOrder
        <4> HIDE DEF a
        <4>5. \A g, j \in fill_busy_q : OwnerOf(1, g) /\ OwnerOf(k + a, j) =>
                 g \in fill_older_q[j] \/ (g = j /\ bus_q[1].nth < bus_q[k + a].nth)
          BY <2>1, <4>2, <4>3 DEF BusInv, BusMatchesCounts
        <4>6. bus_q[1].nth < bus_q[k + a].nth
          BY <2>2, <4>2, <4>4, <4>5
        <4> QED
          BY <1>2, <1>4, <2>2, <2>3, <3>2, <4>2, <4>6
      <3> QED
        BY <3>1, <3>2
    <2>5. fill_rvd_cnt_q'[i] \in Nat
      BY <1>2, <1>4, <2>3
    <2> HIDE DEF a
    <2>6. bus_q[k + a].nth \in fill_rvd_cnt_q'[i]..(fill_ext_cnt_q[i] - 1)
      BY <1>2, <2>2, <2>4, <2>5
    <2> QED
      BY <2>2, <2>3, <2>6
  <1>8. ASSUME NEW i \in old, NEW n \in fill_rvd_cnt_q'[i]..(fill_ext_cnt_q[i] - 1)
        PROVE  \E k \in 1..m : OwnerOf(k + a, i) /\ bus_q[k + a].nth = n
    <2>1. n \in fill_rvd_cnt_q[i]..(fill_ext_cnt_q[i] - 1)
          /\ (i \in fill_rvd_arb(in) => n # fill_rvd_cnt_q[i])
      BY <1>2, <1>4
    <2>2. PICK k \in DOMAIN bus_q : OwnerOf(k, i) /\ bus_q[k].nth = n
      BY <2>1 DEF BusInv, BusMatchesCounts
    <2>3. CASE a = 0
      <3> HIDE DEF a
      <3> QED
        BY <1>1, <2>2, <2>3
    <2>4. CASE a = 1
      <3>1. PICK h \in fill_busy_q :
               /\ fill_rvd_arb(in) = {h} /\ Head(bus_q).owner = {h}
               /\ Head(bus_q).nth = fill_rvd_cnt_q[h]
        BY <1>1, <2>4, RvdArb
      <3>2. Head(bus_q) = bus_q[1]
        BY <1>1, <2>4, BusIndices DEF Env
      <3>3. k # 1
        BY <2>1, <2>2, <3>1, <3>2 DEF OwnerOf
      <3> HIDE DEF a
      <3>4. k - a \in 1..m /\ (k - a) + a = k
        BY <1>1, <3>3
      <3> QED
        BY <2>2, <3>4
    <2> QED
      BY <1>1, <2>3, <2>4
  <1> QED
    BY <1>6, <1>7, <1>8

\* The request a step adds to the bus.
LEMMA NewEntry ==
  ASSUME TypeOK, AgeOrder, Started, BusInv,
         NEW in \in AnyInput, MaskAgrees(in), Env(in), Clock(in), in.gnt
  PROVE  \E j \in fill_busy_d(in) :
            /\ ext_owner(in) = {j}
            /\ ext_nth(in) \in Nat /\ fill_ext_cnt_q'[j] = ext_nth(in) + 1
            /\ fill_rvd_cnt_q'[j] <= ext_nth(in)
            /\ instr_addr(in) = [line |-> fill_addr_q'[j].line,
                 beat |-> (fill_addr_q'[j].beat + ext_nth(in)) % IC_LINE_BEATS]
            /\ j \in fill_busy_q => ext_nth(in) = fill_ext_cnt_q[j]
            /\ \A i \in fill_busy_q \ fill_done(in) :
                  fill_ext_cnt_q[i] > 0 => i = j \/ i \in fill_older_q'[j]
  <1>1. AgeRegs(in) /\ ExtRegs(in)
    BY DEF Clock
  <1>2. /\ fill_busy_q \subseteq FB
        /\ \A i \in fill_busy_q : fill_rvd_cnt_q[i] \in Nat /\ fill_ext_cnt_q[i] \in Nat
        /\ fill_busy_d(in) = fill_alloc(in) \cup (fill_busy_q \ fill_done(in))
        /\ fill_alloc(in) \cap fill_busy_q = {}
    BY <1>1, AllocFree, ParamAssumption DEF TypeOK, Count, fill_busy_d
  <1>3. PICK j \in FB : /\ ext_owner(in) = {j}
                        /\ RequestOfBusy(in, j) \/ RequestOfNew(in, j)
    BY Requester DEF Env
  <1>4. CASE RequestOfBusy(in, j)
    <2>1. j \in fill_busy_q \ fill_done(in) /\ j \notin fill_ext_done_d(in)
          /\ fill_ext_arb(in) = {j}
      BY <1>4, ExtArb, ReleasedAreDone DEF RequestOfBusy, fill_ext_req
    <2>2. ext_nth(in) = fill_ext_cnt_q[j] /\ fill_ext_cnt_q'[j] = fill_ext_cnt_q[j] + 1
      BY <1>1, <1>4, <2>1, ExtStep DEF RequestOfBusy
    <2>3. fill_rvd_cnt_q'[j] <= fill_ext_cnt_q[j] /\ fill_addr_q'[j] = fill_addr_q[j]
      <3>1. PICK m \in Nat : m + Answered(in) = Len(bus_q)
        BY BusQueue DEF Clock
      <3> QED
        BY <2>1, <3>1, RestMatches, RvdStep
    <2>4. ASSUME NEW i \in fill_busy_q \ fill_done(in), fill_ext_cnt_q[i] > 0, i # j
          PROVE  i \in fill_older_q'[j]
      <3>1. j \notin fill_older_q[i]
        BY <2>1, <2>4, ExtArb DEF BusInv, ExtInAgeOrder
      <3>2. i \in fill_older_q[j]
        BY <2>1, <2>4, <3>1 DEF AgeOrder
      <3> QED
        BY <1>1, <1>2, <2>1, <3>2, AgeStep
    <2> QED
      BY <1>2, <1>3, <1>4, <2>1, <2>2, <2>3, <2>4 DEF RequestOfBusy
  <1>5. CASE RequestOfNew(in, j)
    <2>1. j \in fill_alloc(in) /\ lookup_grant_ic0(in)
      BY <1>5 DEF RequestOfNew, fill_alloc
    <2>2. ext_nth(in) = 0 /\ fill_ext_cnt_q'[j] = 1 /\ fill_rvd_cnt_q'[j] = 0
      BY <1>1, <1>5, <2>1, ExtStep, RvdStep DEF RequestOfNew, fill_spec_done
    <2>3. fill_addr_q'[j] = lookup_addr_ic0(in) /\ lookup_addr_ic0(in) \in Addr
      BY <2>1, RvdStep, LookupAddr
    <2>4. (fill_addr_q'[j].beat + 0) % IC_LINE_BEATS = fill_addr_q'[j].beat
      <3>1. fill_addr_q'[j].beat \in 0..(IC_LINE_BEATS - 1)
        BY <2>3 DEF Addr, Beat
      <3>2. IC_LINE_BEATS \in Nat \ {0}
        BY ParamAssumption
      <3>3. fill_addr_q'[j].beat + 0 = fill_addr_q'[j].beat
        BY <3>1, <3>2
      <3> QED
        BY <3>1, <3>2, <3>3, ModSmall
    <2>5. instr_addr(in) = [line |-> fill_addr_q'[j].line,
             beat |-> (fill_addr_q'[j].beat + ext_nth(in)) % IC_LINE_BEATS]
      <3>1. fill_addr_q'[j] = [line |-> fill_addr_q'[j].line, beat |-> fill_addr_q'[j].beat]
        BY <2>3 DEF Addr
      <3> QED
        BY <1>5, <2>2, <2>3, <2>4, <3>1 DEF RequestOfNew
    <2>6. fill_older_q'[j] = fill_busy_q \ fill_done(in)
      BY <1>1, <1>2, <2>1, AgeStep
    <2> QED
      BY <1>2, <1>3, <2>1, <2>2, <2>5, <2>6
  <1> QED
    BY <1>3, <1>4, <1>5

\* The bus queue holds, for each buffer and in age order, the words it counts as requested and not received.
LEMMA BusMatchesPreserved ==
  ASSUME TypeOK, AgeOrder, Started, BusInv,
         NEW in \in AnyInput, MaskAgrees(in), Env(in), Clock(in)
  PROVE  BusMatchesCounts'
  <1> DEFINE a == Answered(in)
             new == fill_alloc(in)
             old == fill_busy_q \ fill_done(in)
             gnt == in.gnt
  <1>1. PICK m \in Nat :
           /\ m + a = Len(bus_q)
           /\ \A k \in 1..m : bus_q'[k] = bus_q[k + a]
           /\ ~gnt => DOMAIN bus_q' = 1..m
           /\ gnt => /\ DOMAIN bus_q' = 1..(m + 1)
                     /\ bus_q'[m + 1] =
                          [addr |-> instr_addr(in), owner |-> ext_owner(in),
                           nth |-> ext_nth(in), ver |-> in.ver]
    BY BusQueue DEF Clock
  <1>2. /\ fill_busy_q' = new \cup old /\ fill_busy_d(in) = new \cup old
        /\ new \cap fill_busy_q = {} /\ old \subseteq fill_busy_q
        /\ \A j \in old : fill_older_q'[j] = fill_older_q[j] \ fill_done(in)
    BY AgeStep, AllocFree DEF Clock, TypeOK
  <1>3. /\ \A i \in old : /\ fill_ext_cnt_q[i] \in Nat
                          /\ fill_rvd_cnt_q'[i] \in Nat
                          /\ fill_ext_cnt_q'[i] = fill_ext_cnt_q[i] +
                                (IF i \in fill_ext_arb(in) /\ gnt THEN 1 ELSE 0)
                          /\ fill_addr_q'[i] = fill_addr_q[i]
        /\ \A i \in new : /\ fill_rvd_cnt_q'[i] = 0
                          /\ fill_ext_cnt_q'[i] = IF fill_spec_done(in) THEN 1 ELSE 0
    <2>1. \A i \in old : fill_ext_cnt_q[i] \in Nat /\ fill_rvd_cnt_q[i] \in Nat
      BY ParamAssumption DEF TypeOK, Count
    <2>2. \A i \in old : fill_rvd_cnt_q'[i] \in Nat
      BY <2>1, RvdStep
    <2> QED
      BY <2>1, <2>2, ExtStep, RvdStep DEF Clock
  <1>4. /\ \A i \in old : fill_rvd_cnt_q'[i] <= fill_ext_cnt_q[i]
        /\ \A k \in 1..m : \E i \in old :
              /\ bus_q'[k].owner = {i}
              /\ bus_q'[k].nth \in fill_rvd_cnt_q'[i]..(fill_ext_cnt_q[i] - 1)
              /\ bus_q'[k].addr = [line |-> fill_addr_q[i].line,
                   beat |-> (fill_addr_q[i].beat + bus_q'[k].nth) % IC_LINE_BEATS]
        /\ \A i \in old : \A n \in fill_rvd_cnt_q'[i]..(fill_ext_cnt_q[i] - 1) :
              \E k \in 1..m : bus_q'[k].owner = {i} /\ bus_q'[k].nth = n
    <2>1. /\ \A i \in old : fill_rvd_cnt_q'[i] <= fill_ext_cnt_q[i]
          /\ \A k \in 1..m : \E i \in old :
                /\ OwnerOf(k + a, i)
                /\ bus_q[k + a].nth \in fill_rvd_cnt_q'[i]..(fill_ext_cnt_q[i] - 1)
                /\ bus_q[k + a].addr = [line |-> fill_addr_q[i].line,
                     beat |-> (fill_addr_q[i].beat + bus_q[k + a].nth) % IC_LINE_BEATS]
          /\ \A i \in old : \A n \in fill_rvd_cnt_q'[i]..(fill_ext_cnt_q[i] - 1) :
                \E k \in 1..m : OwnerOf(k + a, i) /\ bus_q[k + a].nth = n
      BY <1>1, RestMatches
    <2> HIDE DEF a, old
    <2>2. \A k \in 1..m : bus_q'[k] = bus_q[k + a]
      BY <1>1
    <2>3. ASSUME NEW k \in 1..m
          PROVE  \E i \in old :
              /\ bus_q'[k].owner = {i}
              /\ bus_q'[k].nth \in fill_rvd_cnt_q'[i]..(fill_ext_cnt_q[i] - 1)
              /\ bus_q'[k].addr = [line |-> fill_addr_q[i].line,
                   beat |-> (fill_addr_q[i].beat + bus_q'[k].nth) % IC_LINE_BEATS]
      <3>1. bus_q'[k] = bus_q[k + a]
        BY <2>2
      <3> QED
        BY <2>1, <3>1 DEF OwnerOf
    <2>4. ASSUME NEW i \in old, NEW n \in fill_rvd_cnt_q'[i]..(fill_ext_cnt_q[i] - 1)
          PROVE  \E k \in 1..m : bus_q'[k].owner = {i} /\ bus_q'[k].nth = n
      <3>1. PICK k \in 1..m : OwnerOf(k + a, i) /\ bus_q[k + a].nth = n
        BY <2>1
      <3> QED
        BY <2>2, <3>1 DEF OwnerOf
    <2> QED
      BY <2>1, <2>3, <2>4
  <1>5. gnt => \E j \in fill_busy_d(in) :
            /\ ext_owner(in) = {j}
            /\ ext_nth(in) \in Nat /\ fill_ext_cnt_q'[j] = ext_nth(in) + 1
            /\ fill_rvd_cnt_q'[j] <= ext_nth(in)
            /\ instr_addr(in) = [line |-> fill_addr_q'[j].line,
                 beat |-> (fill_addr_q'[j].beat + ext_nth(in)) % IC_LINE_BEATS]
            /\ j \in fill_busy_q => ext_nth(in) = fill_ext_cnt_q[j]
            /\ \A i \in old : fill_ext_cnt_q[i] > 0 => i = j \/ i \in fill_older_q'[j]
    BY NewEntry
  <1>6. /\ fill_ext_arb(in) # {} => fill_ext_req(in) # {}
        /\ \A i \in fill_ext_arb(in) : gnt => ext_owner(in) = {i}
        /\ \A i \in new : gnt /\ fill_spec_req(in) => ext_owner(in) = {i}
    <2>1. gnt => \E j \in FB : /\ ext_owner(in) = {j}
                               /\ RequestOfBusy(in, j) \/ RequestOfNew(in, j)
      BY Requester DEF Env
    <2>2. \A i, j \in new : i = j
      BY AllocFree
    <2> QED
      BY <2>1, <2>2, ExtArb DEF RequestOfBusy, RequestOfNew
  <1>7. in.gnt = gnt
    OBVIOUS
  <1> HIDE DEF a, new, old, gnt
  <1>8. (\A i \in fill_busy_q : fill_rvd_cnt_q[i] <= fill_ext_cnt_q[i])'
    BY <1>2, <1>3, <1>4
  <1>9. ASSUME NEW k \in DOMAIN bus_q'
        PROVE  \E i \in fill_busy_q' :
                  /\ bus_q'[k].owner = {i}
                  /\ bus_q'[k].nth \in fill_rvd_cnt_q'[i]..(fill_ext_cnt_q'[i] - 1)
                  /\ bus_q'[k].addr = [line |-> fill_addr_q'[i].line,
                       beat |-> (fill_addr_q'[i].beat + bus_q'[k].nth) % IC_LINE_BEATS]
    <2>1. CASE k \in 1..m
      <3>1. PICK i \in old :
              /\ bus_q'[k].owner = {i}
              /\ bus_q'[k].nth \in fill_rvd_cnt_q'[i]..(fill_ext_cnt_q[i] - 1)
              /\ bus_q'[k].addr = [line |-> fill_addr_q[i].line,
                   beat |-> (fill_addr_q[i].beat + bus_q'[k].nth) % IC_LINE_BEATS]
        BY <1>4, <2>1
      <3>2. bus_q'[k].nth \in fill_rvd_cnt_q'[i]..(fill_ext_cnt_q'[i] - 1)
        BY <1>3, <3>1
      <3> QED
        BY <1>2, <1>3, <3>1, <3>2
    <2>2. CASE k \notin 1..m
      <3>1. gnt /\ k = m + 1
        BY <1>1, <2>2
      <3>2. PICK j \in fill_busy_d(in) :
            /\ ext_owner(in) = {j}
            /\ ext_nth(in) \in Nat /\ fill_ext_cnt_q'[j] = ext_nth(in) + 1
            /\ fill_rvd_cnt_q'[j] <= ext_nth(in)
            /\ instr_addr(in) = [line |-> fill_addr_q'[j].line,
                 beat |-> (fill_addr_q'[j].beat + ext_nth(in)) % IC_LINE_BEATS]
        BY <1>5, <3>1
      <3>3. fill_rvd_cnt_q'[j] \in Nat
        BY <1>2, <1>3
      <3>4. ext_nth(in) \in fill_rvd_cnt_q'[j]..(fill_ext_cnt_q'[j] - 1)
        BY <3>2, <3>3
      <3> QED
        BY <1>1, <1>2, <3>1, <3>2, <3>4
    <2> QED
      BY <2>1, <2>2
  <1>10. ASSUME NEW i \in fill_busy_q',
                NEW n \in fill_rvd_cnt_q'[i]..(fill_ext_cnt_q'[i] - 1)
         PROVE  \E k \in DOMAIN bus_q' : bus_q'[k].owner = {i} /\ bus_q'[k].nth = n
    <2>1. CASE i \in old /\ n < fill_ext_cnt_q[i]
      <3>1. n \in fill_rvd_cnt_q'[i]..(fill_ext_cnt_q[i] - 1)
        BY <1>3, <2>1
      <3>2. PICK k \in 1..m : bus_q'[k].owner = {i} /\ bus_q'[k].nth = n
        BY <1>4, <2>1, <3>1
      <3>3. k \in DOMAIN bus_q'
        BY <1>1
      <3> QED
        BY <3>2, <3>3
    <2>2. CASE ~(i \in old /\ n < fill_ext_cnt_q[i])
      <3>1. gnt /\ ext_owner(in) = {i}
        <4>1. CASE i \in old
          <5>1. i \in fill_ext_arb(in) /\ gnt
            BY <1>3, <2>2, <4>1
          <5> QED
            BY <1>6, <5>1
        <4>2. CASE i \in new
          <5>1. fill_spec_done(in)
            BY <1>3, <4>2
          <5>2. fill_spec_req(in) /\ gnt
            BY <1>7, <5>1 DEF fill_spec_done
          <5> QED
            BY <1>6, <4>2, <5>2
        <4> QED
          BY <1>2, <4>1, <4>2
      <3>2. /\ ext_nth(in) \in Nat /\ fill_ext_cnt_q'[i] = ext_nth(in) + 1
            /\ i \in fill_busy_q => ext_nth(in) = fill_ext_cnt_q[i]
        BY <1>5, <3>1
      <3>3. n = ext_nth(in)
        BY <1>2, <1>3, <2>2, <3>2
      <3>4. m + 1 \in DOMAIN bus_q'
        BY <1>1, <3>1
      <3> QED
        BY <1>1, <3>1, <3>3, <3>4
    <2> QED
      BY <2>1, <2>2
  <1>11. ASSUME NEW k \in DOMAIN bus_q', NEW l \in DOMAIN bus_q', k < l,
                NEW i \in fill_busy_q', NEW j \in fill_busy_q',
                bus_q'[k].owner = {i}, bus_q'[l].owner = {j}
         PROVE  i \in fill_older_q'[j] \/ (i = j /\ bus_q'[k].nth < bus_q'[l].nth)
    <2>1. k \in 1..m
      BY <1>1, <1>11
    <2>2. /\ i \in old
          /\ bus_q'[k].nth \in fill_rvd_cnt_q'[i]..(fill_ext_cnt_q[i] - 1)
      BY <1>4, <1>11, <2>1
    <2>3. CASE l \in 1..m
      <3>1. j \in old
        <4>1. \E g \in old : bus_q'[l].owner = {g}
          BY <1>4, <2>3
        <4> QED
          BY <1>11, <4>1
      <3>2. /\ k + a \in DOMAIN bus_q /\ l + a \in DOMAIN bus_q /\ k + a < l + a
        <4>1. DOMAIN bus_q = 1..Len(bus_q)
          BY BusIndices
        <4>2. a \in {0, 1}
          BY DEF a, Answered
        <4>3. /\ k \in Int /\ l \in Int /\ Len(bus_q) = m + a
              /\ 1 <= k /\ k < l /\ l <= m
          BY <1>1, <1>11, <2>1, <2>3
        <4> QED
          BY <4>1, <4>2, <4>3
      <3>3. \A g, h \in fill_busy_q : OwnerOf(k + a, g) /\ OwnerOf(l + a, h) =>
               g \in fill_older_q[h] \/ (g = h /\ bus_q[k + a].nth < bus_q[l + a].nth)
        BY <3>2 DEF BusInv, BusMatchesCounts
      <3>4. OwnerOf(k + a, i) /\ OwnerOf(l + a, j)
        BY <1>1, <1>11, <2>1, <2>3 DEF OwnerOf
      <3>5. i \in fill_older_q[j] \/ (i = j /\ bus_q[k + a].nth < bus_q[l + a].nth)
        BY <1>2, <2>2, <3>1, <3>3, <3>4
      <3>6. i \notin fill_done(in)
        BY <2>2 DEF old
      <3> QED
        BY <1>1, <1>2, <2>1, <2>3, <3>1, <3>5, <3>6
    <2>4. CASE l \notin 1..m
      <3>1. gnt /\ l = m + 1
        BY <1>1, <2>4
      <3>2. /\ ext_nth(in) \in Nat
            /\ j \in fill_busy_q => ext_nth(in) = fill_ext_cnt_q[j]
            /\ \A g \in old : fill_ext_cnt_q[g] > 0 => g = j \/ g \in fill_older_q'[j]
            /\ bus_q'[l].nth = ext_nth(in)
        BY <1>1, <1>5, <1>11, <3>1
      <3>3. fill_ext_cnt_q[i] > 0 /\ bus_q'[k].nth < fill_ext_cnt_q[i]
        BY <1>3, <2>2
      <3> QED
        BY <1>2, <2>2, <3>2, <3>3
    <2> QED
      BY <2>3, <2>4
  <1> QED
    BY <1>8, <1>9, <1>10, <1>11 DEF BusMatchesCounts, OwnerOf

(***************************************************************************)
(* The theorems.                                                           *)
(***************************************************************************)
LEMMA InitBusIInv == Init => BusIInv
  <1> SUFFICES ASSUME Init PROVE BusIInv
    OBVIOUS
  <1>1. TypeOK
    <2>1. 0 \in Count /\ 0 \in Line
      BY ParamAssumption DEF Count, Line
    <2>2. fetched \in [data : Contents, err : BOOLEAN]
      BY DEF Init, Nothing, Contents
    <2>3. fill_data_q \in [FB -> [Beat -> Contents]]
      BY DEF Init, Contents
    <2>4. bus_q \in Seq(Outstanding)
      BY DEF Init
    <2> QED
      BY <2>1, <2>2, <2>3, <2>4 DEF Init, TypeOK
  <1>2. AgeOrder
    BY DEF Init, AgeOrder
  <1>3. Started
    BY DEF Init, Started
  <1>4. BusInv
    BY DEF Init, BusInv, HoldNotFull, DoneStable, ExtInAgeOrder, BusMatchesCounts, WaitHeld
  <1> QED
    BY <1>1, <1>2, <1>3, <1>4 DEF BusIInv

\* Every clock edge preserves the inductive invariant, whatever the inputs.
LEMMA EdgeBusIInv ==
  ASSUME BusIInv, NEW in \in AnyInput, MaskAgrees(in), Env(in), Clock(in)
  PROVE  BusIInv'
  <1>1. TypeOK /\ AgeOrder /\ Started /\ BusInv
    BY DEF BusIInv
  <1>2. TypeOK' /\ Started'
    BY <1>1, TypePreserved, StartedPreserved
  <1>3. AgeOrder'
    BY <1>1, AgePreserved DEF Clock, TypeOK
  <1>4. BusInv'
    BY <1>1, HoldPreserved, DonePreserved, ExtOrderPreserved,
       BusMatchesPreserved, WaitPreserved DEF BusInv
  <1> QED
    BY <1>2, <1>3, <1>4 DEF BusIInv

\* Every step preserves it.
LEMMA StepBusIInv ==
  ASSUME MasksAgree, BusIInv, [Next]_vars
  PROVE  BusIInv'
  <1>1. CASE Next
    <2>1. PICK in \in Inputs : Env(in) /\ Clock(in)
      BY <1>1 DEF Next, Step
    <2>2. in \in AnyInput /\ MaskAgrees(in)
      BY InputsTyped DEF MasksAgree, MaskAgrees, Inputs
    <2> QED
      BY <2>1, <2>2, EdgeBusIInv
  <1>2. CASE UNCHANGED vars
    <2>1. TypeOK'
      BY <1>2 DEF BusIInv, TypeOK, vars, lookup_vars, age_vars, fill_vars
    <2>2. AgeOrder' /\ Started'
      BY <1>2 DEF BusIInv, AgeOrder, Started, vars, lookup_vars, age_vars, fill_vars
    <2>3. HoldNotFull' /\ DoneStable' /\ ExtInAgeOrder' /\ WaitHeld'
      BY <1>2 DEF BusIInv, BusInv, HoldNotFull, DoneStable, ExtInAgeOrder, WaitHeld,
                  fill_ext_beat, vars, lookup_vars, age_vars, fill_vars
    <2>4. BusMatchesCounts'
      BY <1>2 DEF BusIInv, BusInv, BusMatchesCounts, OwnerOf,
                  vars, lookup_vars, age_vars, fill_vars
    <2> QED
      BY <2>1, <2>2, <2>3, <2>4 DEF BusIInv, BusInv
  <1> QED
    BY <1>1, <1>2

\* The invariant below is inductive, for any number of buffers and beats, if
\* the two masks of a line buffer hit agree.
THEOREM BusInductive ==
  ASSUME MasksAgree
  PROVE  Spec => []BusIInv
  <1>1. Init => BusIInv
    BY InitBusIInv
  <1>2. BusIInv /\ [Next]_vars => BusIInv'
    BY StepBusIInv
  <1> QED
    BY <1>1, <1>2, PTL DEF Spec

\* No register exceeds its width: no buffer counts beyond the beats of its
\* line, and the bus only ever carries addresses of the address space.
THEOREM TypeCorrect ==
  ASSUME MasksAgree
  PROVE  Spec => []TypeOK
  <1>1. BusIInv => TypeOK
    BY DEF BusIInv
  <1> QED
    BY <1>1, BusInductive, PTL

\* The age matrix is a strict total order of the busy buffers, whatever the
\* masks do.
THEOREM AgeOrderCorrect == Spec => []AgeOrder
  <1> DEFINE Inv == fill_busy_q \subseteq FB /\ AgeOrder
  <1>1. Init => Inv
    BY DEF Init, AgeOrder
  <1>2. Inv /\ [Next]_vars => Inv'
    <2> SUFFICES ASSUME Inv, [Next]_vars PROVE Inv'
      OBVIOUS
    <2>1. CASE Next
      <3>1. PICK in \in Inputs : AgeRegs(in)
        BY <2>1 DEF Next, Step, Clock
      <3>2. AgeOrder'
        BY <3>1, AgePreserved
      <3>3. (fill_busy_q \subseteq FB)'
        BY <3>1, AgeStep
      <3> QED
        BY <3>2, <3>3
    <2>2. CASE UNCHANGED vars
      BY <2>2 DEF AgeOrder, vars, age_vars
    <2> QED
      BY <2>1, <2>2
  <1> HIDE DEF Inv
  <1>3. Inv => AgeOrder
    BY DEF Inv
  <1> QED
    BY <1>1, <1>2, <1>3, PTL DEF Spec

\* Every age-based arbiter grants at most one buffer, whatever the masks do.
THEOREM ArbitersOneHot == Spec => []ArbOneHot
  <1>1. AgeOrder => ArbOneHot
    BY OldestUnique DEF ArbOneHot
  <1> QED
    BY <1>1, AgeOrderCorrect, PTL

\* A response, which carries no tag, is consumed by the buffer whose request
\* it answers, as the beat that was requested.
THEOREM ResponsesReachRequesters ==
  ASSUME MasksAgree
  PROVE  Spec => []ResponseReachesRequester
  <1>1. BusIInv => ResponseReachesRequester
    BY HeadOwner DEF BusIInv, ResponseReachesRequester
  <1> QED
    BY <1>1, BusInductive, PTL

\* busy_o does not fall while a request waits for its grant or a response is
\* outstanding, so the core does not stop its clock under a bus transaction.
THEOREM BusyCorrect ==
  ASSUME MasksAgree
  PROVE  Spec => []BusyCoversBus
  <1>1. ASSUME BusIInv, bus_q # <<>> PROVE busy_o
    <2>1. PICK h \in fill_busy_q : Oldest(fill_rvd_exp) = {h}
      BY <1>1, HeadOwner DEF BusIInv
    <2> QED
      BY <2>1 DEF busy_o, Oldest, fill_rvd_exp
  <1>2. ASSUME BusIInv, bus_wait # NoAddr PROVE busy_o
    <2>1. PICK i : i \in fill_ext_hold_q
      BY <1>2 DEF BusIInv, BusInv, WaitHeld
    <2>2. i \in fill_busy_q
      BY <2>1, <1>2 DEF BusIInv, BusInv, HoldNotFull
    <2> QED
      BY <2>1, <2>2 DEF busy_o, fill_rvd_done
  <1>3. BusIInv => BusyCoversBus
    BY <1>1, <1>2 DEF BusyCoversBus
  <1> QED
    BY <1>3, BusInductive, PTL
=============================================================================
