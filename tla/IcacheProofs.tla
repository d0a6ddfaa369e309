---------------------------- MODULE IcacheProofs ----------------------------
(***************************************************************************)
(* Proofs about the invalidation of the instruction cache, and about the   *)
(* cache as a whole: fetch side, invalidation and RAMs, a memory that      *)
(* software changes, and the output side.                                  *)
(***************************************************************************)
EXTENDS IcacheComplete, IcacheStreamProofs

(***************************************************************************)
(* Invalidation is complete for every number of sets, with and without     *)
(* scrambled RAMs.                                                         *)
(***************************************************************************)
InvalTypeOK ==
    /\ inval_state_q \in {"OUT_OF_RESET", "AWAIT_SCRAMBLE_KEY", "INVAL_CACHE", "IDLE"}
    /\ inval_index_q \in Index
    /\ scramble_key_valid_q \in BOOLEAN /\ scramble_req_q \in BOOLEAN
    /\ scramble_key_q \in Int /\ asked_q \in Int
    /\ clean_q \in SUBSET Index

\* Why a sweep runs under a fresh key: outside of AWAIT_SCRAMBLE_KEY the key is valid,
\* and a valid key was delivered after the latest request that was accepted.
KeyFresh ==
    /\ inval_state_q # "AWAIT_SCRAMBLE_KEY" \/ ~ICacheScramble =>
          scramble_key_valid_q /\ ~scramble_req_q
    /\ scramble_req_q => ~scramble_key_valid_q
    /\ ICacheScramble => scramble_key_q >= asked_q
    /\ ICacheScramble /\ scramble_key_valid_q => scramble_key_q > asked_q

NothingSwept == inval_state_q = "OUT_OF_RESET" => clean_q = {}

InvalInv == InvalTypeOK /\ KeyFresh /\ NothingSwept /\ SweptSafely

LEMMA InitInval == InvalInit => InvalInv
<1> SUFFICES ASSUME InvalInit PROVE InvalInv
  OBVIOUS
<1>1. InvalTypeOK
  <2>1. inval_index_q \in Index /\ scramble_key_q \in Int /\ asked_q \in Int
    BY InvalAssumption DEF InvalInit, Index
  <2>2. scramble_key_valid_q \in BOOLEAN /\ scramble_req_q \in BOOLEAN
    BY Zenon DEF InvalInit
  <2>. QED
    BY <2>1, <2>2 DEF InvalInit, InvalTypeOK
<1>2. KeyFresh
  BY DEF InvalInit, KeyFresh
<1>3. SweptSafely /\ NothingSwept
  BY DEF InvalInit, NothingSwept, SweptSafely, SweptBeforeUse, SweptUnderFreshKey, SweepHasKey,
         SweepInOrder, inval_active, sweeping
<1>. QED
  BY <1>1, <1>2, <1>3 DEF InvalInv

\* The counter wraps after the last index.
LEMMA NextIndex ==
  ASSUME NEW i \in Index
  PROVE  /\ i = NUM_SETS - 1 => (i + 1) % NUM_SETS = 0
         /\ i # NUM_SETS - 1 => (i + 1) % NUM_SETS = i + 1
  BY InvalAssumption DEF Index

LEMMA NextSwept ==
  ASSUME NEW i \in Nat
  PROVE  (0..(i - 1)) \cup {i} = 0..i
<1>1. ASSUME NEW k PROVE k \in 0..(i - 1) \/ k = i <=> k \in 0..i
  OBVIOUS
<1>. QED
  BY <1>1

\* One clock edge: requests, answers and the sweep, in each state.
LEMMA StepInval ==
  ASSUME InvalInv, NEW inval \in BOOLEAN, NEW answer \in BOOLEAN, InvalStep(inval, answer)
  PROVE  InvalInv'
<1>1. InvalTypeOK /\ KeyFresh /\ NothingSwept /\ SweptSafely
  BY DEF InvalInv
<1>2. inval_index_q \in Index /\ NUM_SETS \in Nat \ {0}
  BY <1>1, InvalAssumption DEF InvalTypeOK
<1>3. InvalEnv(inval, answer) /\ InvalState(inval) /\ InvalIndex
        /\ ScrambleKey(inval, answer) /\ SweptTags(inval, answer)
  BY DEF InvalStep
<1>4. inval_index_q' = IF sweeping
                       THEN IF inval_index_q = NUM_SETS - 1 THEN 0 ELSE inval_index_q + 1
                       ELSE IF inval_state_q = "AWAIT_SCRAMBLE_KEY" /\ scramble_key_valid_q
                            THEN 0 ELSE inval_index_q
  BY <1>2, <1>3, NextIndex DEF InvalIndex, sweeping
<1>5. inval_index_q' \in Index
  BY <1>2, <1>4 DEF Index
<1>6. clean_q' \in SUBSET Index
  BY <1>1, <1>3 DEF SweptTags, InvalTypeOK
<1>7. KeyFresh' /\ scramble_key_valid_q' \in BOOLEAN /\ scramble_req_q' \in BOOLEAN
        /\ scramble_key_q' \in Int /\ asked_q' \in Int
  <2>1. CASE ICacheScramble
    <3>1. /\ scramble_key_valid_q' = (IF scramble_req_q THEN answer
                                     ELSE scramble_key_valid_q /\ ~ic_scr_key_req(inval))
          /\ scramble_req_q' = (IF scramble_req_q THEN ~answer ELSE ic_scr_key_req(inval))
          /\ scramble_key_q' = IF answer THEN scramble_key_q + 1 ELSE scramble_key_q
          /\ asked_q' = IF accepted(inval) THEN scramble_key_q ELSE asked_q
      BY <1>3, <2>1 DEF ScrambleKey, SweptTags
    <3>2. scramble_key_valid_q' \in BOOLEAN /\ scramble_req_q' \in BOOLEAN
      <4>1. ic_scr_key_req(inval) \in BOOLEAN
        BY Zenon DEF ic_scr_key_req
      <4>2. CASE scramble_req_q
        BY <3>1, <4>2, Zenon
      <4>3. CASE ~scramble_req_q
        BY <3>1, <4>1, <4>3, Zenon
      <4>. QED
        BY <4>2, <4>3
    <3>3. scramble_key_q' \in Int /\ asked_q' \in Int
      BY <1>1, <3>1 DEF InvalTypeOK
    <3>4. CASE scramble_req_q
      <4>1. inval_state_q = "AWAIT_SCRAMBLE_KEY" /\ ~scramble_key_valid_q
        BY <1>1, <3>4 DEF KeyFresh, InvalTypeOK
      <4>2. inval_state_q' = "AWAIT_SCRAMBLE_KEY" /\ ~accepted(inval)
        BY <1>3, <4>1 DEF InvalState, accepted, sweeping
      <4>3. (scramble_key_valid_q' <=> answer) /\ (scramble_req_q' <=> ~answer)
        BY <3>1, <3>4, Zenon
      <4>4. scramble_key_q >= asked_q /\ asked_q' = asked_q
        BY <1>1, <2>1, <3>1, <4>2 DEF KeyFresh
      <4>5. scramble_key_q' >= asked_q' /\ (answer => scramble_key_q' > asked_q')
        BY <1>1, <3>1, <4>4 DEF InvalTypeOK
      <4>. QED
        BY <2>1, <3>2, <3>3, <4>2, <4>3, <4>5 DEF KeyFresh
    <3>5. CASE ~scramble_req_q
      <4>1. ~answer /\ scramble_key_q' = scramble_key_q
        BY <1>3, <3>1, <3>5 DEF InvalEnv
      <4>2. /\ scramble_key_valid_q' <=> scramble_key_valid_q /\ ~ic_scr_key_req(inval)
            /\ scramble_req_q' <=> ic_scr_key_req(inval)
        BY <3>1, <3>5, Zenon
      <4>3. CASE accepted(inval)
        <5>1. inval_state_q' = "AWAIT_SCRAMBLE_KEY"
          BY <1>3, <4>3 DEF InvalState, accepted, sweeping
        <5>2. ic_scr_key_req(inval)
          BY <4>3 DEF ic_scr_key_req
        <5>3. scramble_key_q' >= asked_q'
          BY <1>1, <3>1, <4>1, <4>3 DEF InvalTypeOK
        <5>. QED
          BY <2>1, <3>2, <3>3, <4>2, <5>1, <5>2, <5>3 DEF KeyFresh
      <4>4. CASE ~accepted(inval)
        <5>1. asked_q' = asked_q
          BY <3>1, <4>4
        <5>2. scramble_key_q' >= asked_q'
              /\ (scramble_key_valid_q => scramble_key_q' > asked_q')
          BY <1>1, <2>1, <4>1, <5>1 DEF KeyFresh
        <5>3. inval_state_q' # "AWAIT_SCRAMBLE_KEY"
                => scramble_key_valid_q /\ ~ic_scr_key_req(inval)
          BY <1>1, <1>3, <4>4 DEF KeyFresh, InvalTypeOK, InvalState, accepted, sweeping,
             ic_scr_key_req
        <5>. QED
          BY <2>1, <3>2, <3>3, <4>2, <5>2, <5>3 DEF KeyFresh
      <4>. QED
        BY <4>3, <4>4
    <3>. QED
      BY <3>4, <3>5
  <2>2. CASE ~ICacheScramble
    BY <1>1, <1>3, <2>2 DEF KeyFresh, InvalTypeOK, InvalEnv, ScrambleKey, SweptTags, accepted
  <2>. QED
    BY <2>1, <2>2
<1>8. inval_state_q' \in {"OUT_OF_RESET", "AWAIT_SCRAMBLE_KEY", "INVAL_CACHE", "IDLE"}
  BY <1>3 DEF InvalState
<1>9. InvalTypeOK'
  BY <1>5, <1>6, <1>7, <1>8 DEF InvalTypeOK
<1>10. ~answer \/ (inval_state_q = "AWAIT_SCRAMBLE_KEY" /\ ~scramble_key_valid_q)
  BY <1>1, <1>3 DEF InvalEnv, KeyFresh, InvalTypeOK
<1>11. SweepInOrder'
  <2>1. CASE sweeping /\ ~inval
    <3>1. inval_index_q \in Nat
      BY <1>2 DEF Index
    <3>2. clean_q' = 0..inval_index_q
      BY <1>1, <1>3, <1>10, <2>1, <3>1, NextSwept
         DEF SweptTags, accepted, sweeping, SweptSafely, SweepInOrder
    <3>3. /\ inval_state_q' # "AWAIT_SCRAMBLE_KEY"
          /\ inval_state_q' = "INVAL_CACHE" => inval_index_q # NUM_SETS - 1
      BY <1>3, <2>1 DEF InvalState, accepted, sweeping
    <3>4. inval_state_q' = "INVAL_CACHE" => inval_index_q' - 1 = inval_index_q
      BY <1>4, <2>1, <3>1, <3>3
    <3>. QED
      BY <3>2, <3>3, <3>4 DEF SweepInOrder, sweeping
  <2>2. CASE sweeping /\ inval
    BY <1>3, <2>2 DEF InvalState, SweptTags, accepted, sweeping, SweepInOrder
  <2>3. CASE inval_state_q = "AWAIT_SCRAMBLE_KEY"
    BY <1>1, <1>3, <1>4, <2>3
       DEF InvalState, SweptTags, accepted, sweeping, SweptSafely, SweepInOrder
  <2>4. CASE inval_state_q = "IDLE"
    BY <1>3, <2>4 DEF InvalState, SweptTags, accepted, sweeping, SweepInOrder
  <2>5. CASE inval_state_q = "OUT_OF_RESET"
    BY <1>1, <1>3, <1>10, <2>5
       DEF InvalState, SweptTags, accepted, sweeping, SweepInOrder, NothingSwept
  <2>. QED
    BY <1>1, <2>1, <2>2, <2>3, <2>4, <2>5 DEF InvalTypeOK, sweeping
<1>12. SweptBeforeUse'
  <2>1. CASE sweeping
    <3>1. inval_state_q' = "IDLE" => inval_index_q = NUM_SETS - 1 /\ ~inval
      BY <1>3, <2>1 DEF InvalState, accepted, sweeping
    <3>2. inval_index_q \in Nat
      BY <1>2 DEF Index
    <3>3. ~inval => clean_q' = 0..inval_index_q
      BY <1>1, <1>3, <1>10, <2>1, <3>2, NextSwept
         DEF SweptTags, accepted, sweeping, SweptSafely, SweepInOrder
    <3>. QED
      BY <3>1, <3>3 DEF SweptBeforeUse, inval_active, Index
  <2>2. CASE inval_state_q = "IDLE"
    BY <1>1, <1>3, <1>10, <2>2 DEF InvalState, SweptTags, accepted, sweeping, SweptSafely,
       SweptBeforeUse, inval_active
  <2>3. CASE inval_state_q \in {"OUT_OF_RESET", "AWAIT_SCRAMBLE_KEY"}
    BY <1>3, <2>3 DEF InvalState, accepted, sweeping, SweptBeforeUse, inval_active
  <2>. QED
    BY <1>1, <2>1, <2>2, <2>3 DEF InvalTypeOK, sweeping
<1>13. SweptUnderFreshKey' /\ SweepHasKey'
  BY <1>7 DEF KeyFresh, SweptUnderFreshKey, SweepHasKey, inval_active, sweeping
<1>14. NothingSwept'
  BY <1>3 DEF InvalState, NothingSwept
<1>. QED
  BY <1>9, <1>7, <1>11, <1>12, <1>13, <1>14 DEF InvalInv, SweptSafely

LEMMA InvalStable == InvalInv /\ [InvalNext]_inval_vars => InvalInv'
<1> SUFFICES ASSUME InvalInv, [InvalNext]_inval_vars PROVE InvalInv'
  OBVIOUS
<1>1. CASE InvalNext
  BY <1>1, StepInval DEF InvalNext
<1>2. CASE UNCHANGED inval_vars
  BY <1>2 DEF inval_vars, InvalInv, InvalTypeOK, KeyFresh, NothingSwept, SweptSafely,
     SweptBeforeUse, SweptUnderFreshKey, SweepHasKey, SweepInOrder, inval_active, sweeping
<1>. QED
  BY <1>1, <1>2

\* Whatever requests arrive in whatever state: lookups are let through only after all
\* sets, however many, have been rewritten since the last of them, under a newer key.
THEOREM InvalidationComplete == InvalSpec => []SweptSafely
<1>1. InvalInv => SweptSafely
  BY DEF InvalInv
<1>. QED
  BY InitInval, InvalStable, <1>1, PTL DEF InvalSpec

(***************************************************************************)
(* The inputs of the fetch side.                                           *)
(***************************************************************************)
WithMasks == Variant \in {"baseline", "opt1"}

\* A cycle of the cache is one of the fetch side with these inputs.
LEMMA FillInFields ==
  ASSUME NEW x
  PROVE  /\ FillIn(x).req = x.req /\ FillIn(x).addr = x.addr /\ FillIn(x).enable = x.enable
         /\ FillIn(x).inval = (CASE sweeping -> IF x.inval THEN "restart" ELSE "write"
                                [] ~sweeping /\ x.inval -> "request"
                                [] OTHER -> IF inval_active THEN "wait" ELSE "idle")
         /\ FillIn(x).line_buf = line_buf_hit_ic0(fill_inputs(x))
         /\ FillIn(x).hit = (IF lookup_valid_ic1 /\ tag_match_ic1 # {}
                              THEN hit_data_ic1 ELSE NoLine)
         /\ FillIn(x).ecc = (CASE ~ecc_err_ic1(x) -> "none"
                              [] ecc_err_ic1(x) /\ line_buf_hit_ic1 -> "line_buf"
                              [] OTHER -> "ram")
         /\ FillIn(x).gnt = x.gnt /\ FillIn(x).ver = mem_ver
         /\ FillIn(x).rvalid = x.rvalid /\ FillIn(x).err = x.err
         /\ FillIn(x).ready = x.ready
  BY DEF FillIn, fill_inputs

LEMMA IndexType ==
  ASSUME NEW l \in Line
  PROVE  IndexOf(l) \in Index
  <1>1. l \in Nat /\ NUM_SETS \in Nat \ {0}
    BY ParamAssumption, InvalAssumption DEF Line
  <1> QED
    BY <1>1, ModRange DEF IndexOf, Index

\* An entry whose tag matches is valid.
LEMMA MatchIsEntry ==
  ASSUME CacheTypeOK, TypeOK, NEW w \in tag_match_raw
  PROVE  /\ w \in Way /\ set_ic1 \in Index /\ ram[w][set_ic1].line = lookup_line_ic1
         /\ ram[w][set_ic1] \in Entry /\ ram[w][set_ic1] # NoEntry
  <1>1. lookup_line_ic1 \in Line /\ set_ic1 \in Index
    BY IndexType DEF TypeOK, set_ic1
  <1>2. w \in Way /\ ram[w][set_ic1].line = lookup_line_ic1
    BY DEF tag_match_raw
  <1>3. ram[w][set_ic1] \in Entry \cup {NoEntry}
    BY <1>1, <1>2 DEF CacheTypeOK
  <1>4. NoEntry.line \notin Line
    BY ParamAssumption DEF NoEntry, Line
  <1> QED
    BY <1>1, <1>2, <1>3, <1>4

\* Data read from the RAM or the line buffer has its width.
LEMMA HitTyped ==
  ASSUME CacheTypeOK, LineBufTyped, TypeOK
  PROVE  hit_data_ic1 \in [Beat -> Contents]
  <1>1. CASE line_buf_hit_ic1
    BY <1>1 DEF hit_data_ic1, LineBufTyped
  <1>2. CASE ~line_buf_hit_ic1
    <2> DEFINE read(b) == {ram[w][set_ic1].data[b] : w \in tag_match_raw}
    <2>1. \A b \in Beat : read(b) \subseteq Contents
      BY MatchIsEntry DEF Entry, Contents
    <2>2. \A b \in Beat : (IF Cardinality(read(b)) = 1 THEN CHOOSE d \in read(b) : TRUE ELSE Garbled)
                              \in Contents
      <3> SUFFICES ASSUME NEW b \in Beat, Cardinality(read(b)) = 1
                   PROVE  (CHOOSE d \in read(b) : TRUE) \in Contents
        BY DEF Contents
      <3>1. read(b) # {}
        <4> HIDE DEF read
        <4> QED
          BY FS_EmptySet
      <3> QED
        BY <2>1, <3>1
    <2>3. hit_data_ic1 = [b \in Beat |-> IF Cardinality(read(b)) = 1
                                          THEN CHOOSE d \in read(b) : TRUE ELSE Garbled]
      BY <1>2 DEF hit_data_ic1
    <2> HIDE DEF read
    <2> QED
      BY <2>2, <2>3
  <1> QED
    BY <1>1, <1>2

LEMMA FillInTyped ==
  ASSUME CacheTypeOK, LineBufTyped, TypeOK, NEW x \in CacheInputs
  PROVE  FillIn(x) \in AnyInput
  <1>1. /\ x.req \in BOOLEAN /\ x.addr \in Addr \cup {NoAddr} /\ x.enable \in BOOLEAN
        /\ x.gnt \in BOOLEAN /\ x.rvalid \in BOOLEAN /\ x.err \in BOOLEAN /\ x.ready \in BOOLEAN
    BY InputAssumption DEF CacheInputs
  <1>2. mem_ver \in Versions
    BY DEF CacheTypeOK
  <1>3. (IF lookup_valid_ic1 /\ tag_match_ic1 # {} THEN hit_data_ic1 ELSE NoLine)
          \in [Beat -> Contents]
    BY HitTyped DEF NoLine, Contents
  <1>4. line_buf_hit_ic0(fill_inputs(x)) \in BOOLEAN
    BY DEF line_buf_hit_ic0
  <1>5. FillIn(x).inval \in InvalModes /\ FillIn(x).ecc \in {"none", "ram", "line_buf"}
    BY FillInFields DEF InvalModes
  <1>6. FillIn(x) = [req |-> x.req, addr |-> x.addr, enable |-> x.enable,
                     inval |-> FillIn(x).inval,
                     line_buf |-> line_buf_hit_ic0(fill_inputs(x)),
                     hit |-> IF lookup_valid_ic1 /\ tag_match_ic1 # {} THEN hit_data_ic1 ELSE NoLine,
                     ecc |-> FillIn(x).ecc, gnt |-> x.gnt, ver |-> mem_ver,
                     rvalid |-> x.rvalid, err |-> x.err, ready |-> x.ready]
    BY DEF FillIn, fill_inputs
  <1> QED
    BY <1>1, <1>2, <1>3, <1>4, <1>5, <1>6 DEF AnyInput

\* One cycle of the cache, seen from the fetch side.
LEMMA StepFacts ==
  ASSUME WithMasks, CacheTypeOK, LineBufTyped, TypeOK, NEW x \in CacheInputs, CacheStep(x)
  PROVE  /\ FillIn(x) \in AnyInput /\ MaskAgrees(FillIn(x)) /\ Edge(FillIn(x))
         /\ InvalStep(x.inval, x.answer)
         /\ RamWrite(FillIn(x)) /\ Replacement(FillIn(x)) /\ WayRegs(FillIn(x))
         /\ EccRegs(FillIn(x), x) /\ LineBufRegs(FillIn(x)) /\ Memory(x)
  BY FillInTyped DEF CacheStep, Edge, WithMasks, MaskAgrees

(***************************************************************************)
(* The RAM and the registers around it.                                    *)
(***************************************************************************)
\* What an allocation stores is the whole line of a buffer, as data.
LEMMA StoredLine ==
  ASSUME FetchInv, NEW i \in fill_ram_req
  PROVE  /\ [line |-> fill_addr_q[i].line, data |-> fill_data_q[i]] \in Entry
         /\ IndexOf(fill_addr_q[i].line) \in Index
         /\ [line |-> fill_addr_q[i].line, data |-> fill_data_q[i]] # NoEntry
         /\ \A b \in Beat : /\ fill_data_q[i][b].line = fill_addr_q[i].line
                            /\ fill_data_q[i][b].beat = b /\ ~fill_data_q[i][b].bad
  <1>1. i \in FB /\ fill_addr_q[i].line \in Line
    BY DEF FetchInv, BusIInv, TypeOK, Started, fill_ram_req, Addr
  <1>2. \A b \in Beat : HoldsBeat(i, b) /\ ~fill_data_q[i][b].bad
    BY LineComplete
  <1>3. \A b \in Beat : fill_data_q[i][b] \in Contents
    BY <1>1 DEF FetchInv, BusIInv, TypeOK
  <1>4. \A b \in Beat : fill_data_q[i][b] \in Data
    BY <1>1, <1>2, <1>3, LineIsData DEF HoldsBeat
  <1>5. fill_data_q[i] \in [Beat -> Data]
    BY <1>1, <1>4 DEF FetchInv, BusIInv, TypeOK
  <1>6. NoEntry.line \notin Line
    BY ParamAssumption DEF NoEntry, Line
  <1> QED
    BY <1>1, <1>2, <1>5, <1>6, IndexType DEF Entry, HoldsBeat

\* What one cycle does to an entry of the RAM.
Stored(in, w, s) ==
    \E i \in fill_ram_arb(in) :
        /\ ~sweeping /\ ~ecc_write_req
        /\ s = IndexOf(fill_addr_q[i].line)
        /\ fill_way_q[i] # UnknownWay => fill_way_q[i] = w
        /\ ram'[w][s] = [line |-> fill_addr_q[i].line, data |-> fill_data_q[i]]

LEMMA RamStep ==
  ASSUME FetchInv, CacheTypeOK, InvalTypeOK, NEW in, RamWrite(in)
  PROVE  /\ ram' \in [Way -> [Index -> Entry \cup {NoEntry}]]
         /\ \A w \in Way, s \in Index :
               ram'[w][s] = NoEntry \/ ram'[w][s] = ram[w][s] \/ Stored(in, w, s)
         /\ sweeping /\ ~ecc_write_req => \A w \in Way : ram'[w][inval_index_q] = NoEntry
  <1>1. ram \in [Way -> [Index -> Entry \cup {NoEntry}]] /\ ecc_index_q \in Index
    BY DEF CacheTypeOK
  <1>2. inval_index_q \in Index
    BY DEF InvalTypeOK
  <1>3. CASE sweeping
    <2>1. ram' = [w \in Way |-> IF ecc_write_req => w \in ecc_ways_q
                                THEN [ram[w] EXCEPT ![inval_index_q] = NoEntry] ELSE ram[w]]
      BY <1>3 DEF RamWrite
    <2> QED
      BY <1>1, <1>2, <1>3, <2>1
  <1>4. CASE ~sweeping /\ ecc_write_req
    <2>1. ram' = [w \in Way |-> IF w \in ecc_ways_q
                                THEN [ram[w] EXCEPT ![ecc_index_q] = NoEntry] ELSE ram[w]]
      BY <1>4 DEF RamWrite
    <2> QED
      BY <1>1, <1>4, <2>1
  <1>5. CASE ~sweeping /\ ~ecc_write_req /\ fill_ram_arb(in) # {}
    <2>1. PICK i \in fill_ram_arb(in), ways \in WriteWays :
             /\ fill_way_q[i] # UnknownWay => ways = {fill_way_q[i]}
             /\ ram' = [w \in Way |->
                   IF w \in ways
                   THEN [ram[w] EXCEPT ![IndexOf(fill_addr_q[i].line)] =
                            [line |-> fill_addr_q[i].line, data |-> fill_data_q[i]]]
                   ELSE ram[w]]
      BY <1>5 DEF RamWrite
    <2>2. i \in fill_ram_req
      BY <2>1 DEF fill_ram_arb, Oldest
    <2> DEFINE entry == [line |-> fill_addr_q[i].line, data |-> fill_data_q[i]]
               at == IndexOf(fill_addr_q[i].line)
    <2>3. entry \in Entry /\ at \in Index
      BY <2>2, StoredLine
    <2>4. ASSUME NEW w \in Way, NEW s \in Index
          PROVE  /\ ram'[w] \in [Index -> Entry \cup {NoEntry}]
                 /\ ram'[w][s] = ram[w][s] \/ Stored(in, w, s)
      <3>1. CASE w \in ways
        <4>1. ram'[w] = [ram[w] EXCEPT ![at] = entry]
          BY <2>1, <3>1
        <4>2. fill_way_q[i] # UnknownWay => fill_way_q[i] = w
          BY <2>1, <3>1
        <4>3. ram[w] \in [Index -> Entry \cup {NoEntry}]
          BY <1>1
        <4>4. ram'[w] \in [Index -> Entry \cup {NoEntry}]
          <5> HIDE DEF entry, at
          <5> QED
            BY <2>3, <4>1, <4>3
        <4>5. s # at => ram'[w][s] = ram[w][s]
          <5> HIDE DEF entry, at
          <5> QED
            BY <2>3, <4>1, <4>3
        <4>6. s = at => ram'[w][s] = entry
          <5> HIDE DEF entry, at
          <5> QED
            BY <2>3, <4>1, <4>3
        <4> QED
          BY <1>5, <2>1, <4>2, <4>4, <4>5, <4>6 DEF Stored
      <3>2. CASE w \notin ways
        BY <1>1, <2>1, <3>2
      <3> QED
        BY <3>1, <3>2
    <2>5. ram' \in [Way -> [Index -> Entry \cup {NoEntry}]]
      <3>1. ram' = [w \in Way |-> ram'[w]]
        BY <2>1
      <3>2. 0 \in Index
        BY InvalAssumption DEF Index
      <3> QED
        BY <2>4, <3>1, <3>2
    <2> QED
      BY <1>5, <2>4, <2>5
  <1>6. CASE ~sweeping /\ ~ecc_write_req /\ fill_ram_arb(in) = {}
    <2>1. ram' = ram
      BY <1>6 DEF RamWrite
    <2> QED
      BY <1>1, <1>6, <2>1
  <1> QED
    BY <1>3, <1>4, <1>5, <1>6

\* The way an allocation takes is one of the two.
LEMMA SelWayType ==
  ASSUME CacheTypeOK, TypeOK
  PROVE  /\ set_ic1 \in Index /\ sel_way \in Way /\ tag_match_ic1 \in SUBSET Way
         /\ \A w \in Way : 1 - w \in Way
         /\ UnknownWay \notin Way
  <1>1. set_ic1 \in Index
    BY IndexType DEF TypeOK, set_ic1
  <1>2. \A w \in Way : 1 - w \in Way
    BY DEF Way
  <1>3. repl_way \in Way
    BY <1>1, <1>2 DEF CacheTypeOK, repl_way
  <1>4. ASSUME tag_invalid # {}
        PROVE  (CHOOSE w \in tag_invalid : \A v \in tag_invalid : w <= v) \in Way
    <2>1. tag_invalid \subseteq {0, 1}
      BY DEF tag_invalid, Way
    <2>2. \E w \in tag_invalid : \A v \in tag_invalid : w <= v
      <3>1. CASE 0 \in tag_invalid
        BY <2>1, <3>1
      <3>2. CASE 0 \notin tag_invalid
        <4>1. \A v \in tag_invalid : v = 1
          BY <2>1, <3>2
        <4> QED
          BY <1>4, <4>1
      <3> QED
        BY <3>1, <3>2
    <2> QED
      BY <2>1, <2>2 DEF Way
  <1>5. sel_way \in Way
    BY <1>3, <1>4 DEF sel_way
  <1>6. tag_match_ic1 \in SUBSET Way
    BY DEF CacheTypeOK, tag_match_ic1, tag_match_raw
  <1>7. UnknownWay \notin Way
    BY DEF UnknownWay, Way
  <1> QED
    BY <1>1, <1>2, <1>5, <1>6, <1>7

\* The line buffer keeps its widths.
LEMMA LineBufStep ==
  ASSUME CacheTypeOK, LineBufTyped, TypeOK, NEW in \in AnyInput, LineBufRegs(in)
  PROVE  /\ line_buf_q'.line \in Line \cup {-1} /\ line_buf_q'.ways \in SUBSET Way
         /\ line_buf_valid_q' \in BOOLEAN /\ line_buf_hit_ic1' \in BOOLEAN
         /\ branch_ic1' \in BOOLEAN
         /\ LineBufTyped'
  <1> DEFINE valid == ~line_buf_inval(in) /\ (line_buf_capture(in) \/ line_buf_valid_q)
             hit == in.line_buf /\ lookup_actual_ic0(in)
             new == [line |-> lookup_line_ic1, ways |-> tag_match_ic1, data |-> in.hit]
  <1>1. line_buf_valid_q' = valid /\ line_buf_hit_ic1' = hit
        /\ branch_ic1' = (ICacheLineBuffer /\ branch_i(in) /\ lookup_actual_ic0(in))
    BY DEF LineBufRegs
  <1>2. line_buf_q' \in {NoBuf, new, line_buf_q}
    BY DEF LineBufRegs
  <1>3. valid \in BOOLEAN /\ hit \in BOOLEAN
        /\ (ICacheLineBuffer /\ branch_i(in) /\ lookup_actual_ic0(in)) \in BOOLEAN
    BY Zenon
  <1>4. /\ line_buf_q'.line \in Line \cup {-1} /\ line_buf_q'.ways \in SUBSET Way
        /\ line_buf_q'.data \in [Beat -> Contents]
    <2>1. CASE line_buf_q' = NoBuf
      BY <2>1 DEF NoBuf, NoLine, Contents
    <2>2. CASE line_buf_q' = new
      BY <2>2, SelWayType, InputTypes DEF TypeOK
    <2>3. CASE line_buf_q' = line_buf_q
      BY <2>3 DEF CacheTypeOK, LineBufTyped
    <2> QED
      BY <1>2, <2>1, <2>2, <2>3
  <1>5. /\ line_buf_valid_q' \in BOOLEAN /\ line_buf_hit_ic1' \in BOOLEAN
        /\ branch_ic1' \in BOOLEAN
    BY <1>1, <1>3, Zenon
  <1> QED
    BY <1>4, <1>5 DEF LineBufTyped

LEMMA CacheTypePreserved ==
  ASSUME WithMasks, FetchInv, CacheTypeOK, LineBufTyped, InvalTypeOK,
         NEW x \in CacheInputs, CacheStep(x)
  PROVE  CacheTypeOK' /\ LineBufTyped'
  <1> DEFINE in == FillIn(x)
  <1>1. TypeOK
    BY DEF FetchInv, BusIInv
  <1>2. /\ in \in AnyInput
        /\ RamWrite(in) /\ Replacement(in) /\ WayRegs(in)
        /\ EccRegs(in, x) /\ LineBufRegs(in) /\ Memory(x)
    BY <1>1, StepFacts
  <1> HIDE DEF in
  <1>3. ram' \in [Way -> [Index -> Entry \cup {NoEntry}]]
    BY <1>2, RamStep
  <1>4. round_robin_way_q' \in Way /\ plru_mru_way_q' \in [Index -> Way]
    <2>1. round_robin_way_q' \in Way
      BY <1>1, <1>2, SelWayType DEF Replacement, CacheTypeOK
    <2>2. 0 \in Way /\ 1 \in Way
      BY DEF Way
    <2>3. (IF tag_match_ic1 # {} THEN (IF 1 \in tag_match_ic1 THEN 1 ELSE 0) ELSE sel_way) \in Way
      BY <1>1, <2>2, SelWayType
    <2> QED
      BY <1>1, <1>2, <2>1, <2>3, SelWayType DEF Replacement, CacheTypeOK
  <1>5. fill_way_q' \in [FB -> Way \cup {UnknownWay}] /\ fill_evict_q' \in SUBSET FB
    <2>1. fill_way_q' \in [FB -> Way \cup {UnknownWay}]
      BY <1>1, <1>2, SelWayType DEF WayRegs, CacheTypeOK
    <2>2. fill_in_ic1 \subseteq FB
      BY <1>1 DEF TypeOK
    <2> QED
      BY <1>2, <2>1, <2>2 DEF WayRegs
  <1>6. ecc_ways_q' \in SUBSET Way /\ ecc_index_q' \in Index
    <2>1. 0 \in Index
      BY InvalAssumption DEF Index
    <2> QED
      BY <1>1, <1>2, <2>1, SelWayType DEF EccRegs
  <1>7. {mem_ver, fence_q, floor_q}' \subseteq Versions
    BY <1>2 DEF Memory, CacheTypeOK
  <1> QED
    BY <1>1, <1>2, <1>3, <1>4, <1>5, <1>6, <1>7, LineBufStep DEF CacheTypeOK

LEMMA RamHoldsPreserved ==
  ASSUME FetchInv, CacheTypeOK, InvalTypeOK, RamHoldsItsLines, NEW in, RamWrite(in)
  PROVE  RamHoldsItsLines'
  <1> SUFFICES ASSUME NEW w \in Way, NEW s \in Index, ram'[w][s] # NoEntry
               PROVE  /\ IndexOf(ram'[w][s].line) = s
                      /\ \A b \in Beat : /\ ram'[w][s].data[b].line = ram'[w][s].line
                                         /\ ram'[w][s].data[b].beat = b
                                         /\ ~ram'[w][s].data[b].bad
    BY DEF RamHoldsItsLines, IndexOf
  <1>1. CASE ram'[w][s] = ram[w][s]
    BY <1>1 DEF RamHoldsItsLines
  <1>2. CASE Stored(in, w, s)
    <2>1. PICK i \in fill_ram_arb(in) :
             /\ s = IndexOf(fill_addr_q[i].line)
             /\ ram'[w][s] = [line |-> fill_addr_q[i].line, data |-> fill_data_q[i]]
      BY <1>2 DEF Stored
    <2>2. i \in fill_ram_req
      BY <2>1 DEF fill_ram_arb, Oldest
    <2> QED
      BY <2>1, <2>2, StoredLine
  <1> QED
    BY <1>1, <1>2, RamStep

\* Which buffers may write the RAM in the next cycle.
LEMMA CachedStep ==
  ASSUME WithMasks, TypeOK, AgeOrder, fill_cache_q \subseteq fill_busy_q,
         NEW in \in AnyInput, Edge(in), NEW i \in fill_cache_q'
  PROVE  /\ i \in fill_busy_q' /\ i \in FB /\ in.enable
         /\ \/ i \in fill_alloc(in) /\ lookup_actual_ic0(in) /\ lookup_valid_ic1'
               /\ i \in fill_in_ic1' /\ i \notin fill_busy_q
            \/ i \notin fill_alloc(in) /\ i \in fill_cache_q /\ i \in fill_busy_q
               /\ ~icache_inval_i(in)
  <1>1. LookupRegs(in) /\ AgeRegs(in) /\ StatusRegs(in)
    BY DEF Edge, Clock
  <1>2. /\ fill_busy_q' = fill_busy_d(in) /\ fill_busy_d(in) \subseteq FB
        /\ fill_busy_d(in) = fill_alloc(in) \cup (fill_busy_q \ fill_done(in))
    BY <1>1, AgeStep DEF TypeOK
  <1>3. i \in fill_busy_d(in) /\ i \in fill_cache_d(in)
    BY <1>1 DEF StatusRegs
  <1>4. CASE i \in fill_alloc(in)
    <2>1. in.enable /\ ~inval_block_cache(in)
      <3>1. i \notin fill_busy_q
        BY <1>4, AllocFree
      <3> QED
        BY <1>3, <1>4, <3>1 DEF fill_cache_d
    <2>2. lookup_grant_ic0(in) /\ i \in fill_alloc_sel /\ i \notin fill_busy_q
      BY <1>4, AllocFree
    <2>3. lookup_actual_ic0(in)
      BY <2>1, <2>2 DEF lookup_actual_ic0, WithMasks
    <2> QED
      BY <1>1, <1>2, <1>3, <1>4, <2>1, <2>2, <2>3 DEF LookupRegs
  <1>5. CASE i \notin fill_alloc(in)
    BY <1>2, <1>3, <1>5 DEF fill_cache_d
  <1> QED
    BY <1>4, <1>5

LEMMA WayChosenPreserved ==
  ASSUME WithMasks, FetchInv, CacheTypeOK, LineBufTyped, WayChosen,
         NEW x \in CacheInputs, CacheStep(x)
  PROVE  WayChosen'
  <1> DEFINE in == FillIn(x)
  <1>1. TypeOK /\ AgeOrder
    BY DEF FetchInv, BusIInv
  <1>2. in \in AnyInput /\ Edge(in) /\ WayRegs(in)
    BY <1>1, StepFacts
  <1>3. RvdRegs(in) /\ AgeRegs(in)
    BY <1>2 DEF Edge, Clock
  <1> HIDE DEF in
  <1>4. fill_cache_q \subseteq fill_busy_q
    BY DEF WayChosen
  <1> SUFFICES ASSUME NEW i \in fill_cache_q'
               PROVE  /\ i \in fill_busy_q'
                      /\ \/ fill_way_q'[i] # UnknownWay
                         \/ lookup_valid_ic1' /\ i \in fill_in_ic1' /\ fill_rvd_cnt_q'[i] = 0
    BY DEF WayChosen, UnknownWay
  <1>5. /\ i \in fill_busy_q' /\ i \in FB
        /\ \/ lookup_valid_ic1' /\ i \in fill_in_ic1' /\ i \notin fill_busy_q
           \/ i \in fill_cache_q /\ i \in fill_busy_q
    BY <1>1, <1>2, <1>4, CachedStep
  <1>6. CASE lookup_valid_ic1' /\ i \in fill_in_ic1' /\ i \notin fill_busy_q
    BY <1>3, <1>5, <1>6 DEF RvdRegs
  <1>7. CASE i \in fill_cache_q
    <2>1. i \in fill_busy_d(in)
      BY <1>3, <1>5 DEF AgeRegs
    <2>2. fill_way_q'[i] = IF lookup_valid_ic1 /\ i \in fill_in_ic1 THEN sel_way ELSE fill_way_q[i]
      BY <1>2, <1>5, <2>1 DEF WayRegs
    <2>3. sel_way # UnknownWay
      BY <1>1, SelWayType
    <2>4. fill_way_q[i] # UnknownWay \/ (lookup_valid_ic1 /\ i \in fill_in_ic1)
      BY <1>7 DEF WayChosen
    <2> QED
      BY <1>5, <2>2, <2>3, <2>4
  <1> QED
    BY <1>5, <1>6, <1>7

(***************************************************************************)
(* Tags, data and ways: the invariant of the whole cache.                  *)
(***************************************************************************)
LEMMA InitCache == CacheInit => CacheIInv /\ InvalInv
  <1> SUFFICES ASSUME CacheInit PROVE CacheIInv /\ InvalInv
    OBVIOUS
  <1>1. FetchInv /\ InvalInv
    BY InitIInv, InitInval DEF CacheInit, IInv
  <1>2. CacheTypeOK
    <2>1. 0 \in Way /\ 0 \in Index /\ 0 \in Versions
      BY InvalAssumption, CacheAssumption DEF Way, Index
    <2> QED
      BY <2>1 DEF CacheInit, CacheTypeOK, NoBuf
  <1>3. LineBufTyped
    BY DEF CacheInit, LineBufTyped, NoBuf, NoLine, Contents
  <1>4. RamHoldsItsLines /\ WayChosen
    BY DEF CacheInit, Init, RamHoldsItsLines, WayChosen
  <1> QED
    BY <1>1, <1>2, <1>3, <1>4 DEF CacheIInv

\* Every cycle preserves it.
LEMMA StepCache ==
  ASSUME WithMasks, CacheIInv, InvalInv, [CacheNext]_cache_vars
  PROVE  CacheIInv' /\ InvalInv'
  <1>1. FetchInv /\ CacheTypeOK /\ LineBufTyped /\ RamHoldsItsLines /\ WayChosen
        /\ TypeOK /\ InvalTypeOK
    BY DEF CacheIInv, FetchInv, BusIInv, InvalInv
  <1>2. CASE CacheNext
    <2>1. PICK x \in CacheInputs : CacheStep(x)
      BY <1>2 DEF CacheNext
    <2>2. FetchInv'
      BY <1>1, <2>1, StepFacts, EdgeFetchInv
    <2>3. CacheTypeOK' /\ LineBufTyped'
      BY <1>1, <2>1, CacheTypePreserved
    <2>4. RamHoldsItsLines'
      BY <1>1, <2>1, StepFacts, RamHoldsPreserved
    <2>5. WayChosen'
      BY <1>1, <2>1, WayChosenPreserved
    <2>6. InvalInv'
      <3>1. x.inval \in BOOLEAN /\ x.answer \in BOOLEAN
        BY <2>1, CacheAssumption DEF CacheInputs
      <3> QED
        BY <1>1, <2>1, <3>1, StepFacts, StepInval
    <2> QED
      BY <2>2, <2>3, <2>4, <2>5, <2>6 DEF CacheIInv
  <1>3. CASE UNCHANGED cache_vars
    <2>1. UNCHANGED vars /\ UNCHANGED inval_vars /\ UNCHANGED ram_vars /\ UNCHANGED mem_vars
      BY <1>3 DEF cache_vars
    <2>2. FetchInv' /\ InvalInv'
      BY <1>1, <2>1, StutterFetchInv, InvalStable DEF WithMasks, MasksAgree
    <2>3. CacheTypeOK' /\ LineBufTyped' /\ RamHoldsItsLines'
      BY <1>1, <2>1 DEF ram_vars, mem_vars, CacheTypeOK, LineBufTyped, RamHoldsItsLines
    <2>4. WayChosen'
      BY <1>1, <2>1 DEF ram_vars, vars, fill_vars, age_vars, lookup_vars, WayChosen
    <2> QED
      BY <2>2, <2>3, <2>4 DEF CacheIInv
  <1> QED
    BY <1>2, <1>3

\* Fetch side, invalidation and RAMs fit together: the invariant holds of the whole
\* cache, for any number of sets, lines, beats, buffers and memory versions.
THEOREM CacheInductive ==
  ASSUME WithMasks
  PROVE  CacheSpec => [](CacheIInv /\ InvalInv)
  <1>1. (CacheIInv /\ InvalInv) /\ [CacheNext]_cache_vars => (CacheIInv /\ InvalInv)'
    BY StepCache
  <1> QED
    BY InitCache, <1>1, PTL DEF CacheSpec

\* Whatever sweeps, ECC corrections and allocations race for the one port: a valid tag
\* stands for the whole of its line, free of bus errors, in the right set, and a
\* line is written to a way its own lookup chose.
THEOREM CacheConsistent ==
  ASSUME WithMasks
  PROVE  CacheSpec => []CacheInv
  <1>1. ASSUME CacheIInv PROVE CacheInv
    <2>1. FetchInv /\ WayChosen /\ TypeOK
      BY <1>1 DEF CacheIInv, FetchInv, BusIInv
    <2>2. ASSUME NEW i \in fill_ram_req PROVE fill_way_q[i] # UnknownWay
      <3>1. i \in fill_cache_q /\ fill_rvd_cnt_q[i] = IC_LINE_BEATS
        BY DEF fill_ram_req
      <3> QED
        BY <2>1, <3>1, ParamAssumption DEF WayChosen
    <2> QED
      BY <1>1, <2>2 DEF CacheIInv, CacheInv, AllocWayKnown
  <1> QED
    BY <1>1, CacheInductive, PTL

\* With the RAMs in place of arbitrary hits, a response still is consumed by the
\* buffer that asked for it, as the beat it asked for ...
THEOREM CacheResponses ==
  ASSUME WithMasks
  PROVE  CacheSpec => []ResponseReachesRequester
  <1>1. CacheIInv => ResponseReachesRequester
    BY HeadOwner DEF CacheIInv, FetchInv, BusIInv, ResponseReachesRequester
  <1> QED
    BY <1>1, CacheInductive, PTL

\* ... and a request the bus has seen stays, with its address, until it is granted.
THEOREM CacheRequestsHeld ==
  ASSUME WithMasks
  PROVE  CacheSpec => RequestHeld
  <1>1. ASSUME CacheIInv, [CacheNext]_cache_vars
        PROVE  [bus_wait # NoAddr =>
                  \/ bus_wait' = bus_wait /\ Len(bus_q') <= Len(bus_q)
                  \/ /\ bus_wait' = NoAddr
                     /\ bus_q' # <<>>
                     /\ bus_q'[Len(bus_q')].addr = bus_wait
                     /\ Len(bus_q') >= Len(bus_q)]_vars
    <2>1. FetchInv /\ BusIInv /\ TypeOK /\ WaitAddr /\ CacheTypeOK /\ LineBufTyped
      BY <1>1 DEF CacheIInv, FetchInv, BusIInv
    <2>2. CASE CacheNext
      <3>1. PICK x \in CacheInputs : CacheStep(x)
        BY <2>2 DEF CacheNext
      <3> QED
        BY <2>1, <3>1, StepFacts, RequestStays
    <2>3. CASE UNCHANGED cache_vars
      BY <2>3 DEF cache_vars
    <2> QED
      BY <1>1, <2>2, <2>3
  <1> QED
    BY <1>1, CacheInductive, PTL DEF CacheSpec, RequestHeld


(***************************************************************************)
(* Versions: what is on the bus, in the buffers and in the RAM.            *)
(***************************************************************************)
\* A request on the bus was there before, or is granted in this cycle.
LEMMA BusEntries ==
  ASSUME TypeOK, NEW in \in AnyInput, Env(in), Bus(in), NEW k \in DOMAIN bus_q'
  PROVE  \/ \E l \in DOMAIN bus_q : bus_q'[k] = bus_q[l]
         \/ in.gnt /\ bus_q'[k].ver = in.ver
  <1>1. PICK m \in Nat :
            /\ m + Answered(in) = Len(bus_q)
            /\ \A l \in 1..m : bus_q'[l] = bus_q[l + Answered(in)]
            /\ ~in.gnt => DOMAIN bus_q' = 1..m
            /\ in.gnt => /\ DOMAIN bus_q' = 1..(m + 1)
                         /\ bus_q'[m + 1] =
                              [addr |-> instr_addr(in), owner |-> ext_owner(in),
                               nth |-> ext_nth(in), ver |-> in.ver]
    BY BusQueue
  <1>2. DOMAIN bus_q = 1..Len(bus_q) /\ Answered(in) \in {0, 1}
    BY DEF TypeOK, Answered
  <1>3. CASE k \in 1..m
    <2>1. k + Answered(in) \in DOMAIN bus_q
      BY <1>1, <1>2, <1>3
    <2> QED
      BY <1>1, <1>3, <2>1
  <1>4. CASE in.gnt /\ k = m + 1
    BY <1>1, <1>4
  <1> QED
    BY <1>1, <1>3, <1>4

\* A buffer that stays, or that is allocated, keeps to version v if what is
\* granted in this cycle does.
LEMMA WordsStep ==
  ASSUME FetchInv, NEW in \in AnyInput, Edge(in), NEW v, in.gnt => in.ver = v,
         NEW i \in fill_busy_q',
         i \notin fill_alloc(in) => i \in fill_busy_q /\ WordsOf(i, v)
  PROVE  WordsOf(i, v)'
  <1>1. TypeOK /\ AgeOrder /\ Started /\ BusInv /\ LookupInv /\ OutInv /\ BusIInv
    BY DEF FetchInv, BusIInv
  <1>2. Env(in) /\ AgeRegs(in) /\ Bus(in)
    BY DEF Edge, Clock
  <1>3. fill_busy_q' = fill_alloc(in) \cup (fill_busy_q \ fill_done(in))
    BY <1>1, <1>2, AgeStep DEF TypeOK
  <1>4. ASSUME NEW k \in DOMAIN bus_q', bus_q'[k].owner = {i}
        PROVE  bus_q'[k].ver = v
    <2>1. CASE \E l \in DOMAIN bus_q : bus_q'[k] = bus_q[l]
      <3>1. PICK l \in DOMAIN bus_q : bus_q'[k] = bus_q[l]
        BY <2>1
      <3>2. PICK j \in fill_busy_q : bus_q[l].owner = {j}
        BY <1>1 DEF BusInv, BusMatchesCounts, OwnerOf
      <3>3. i = j
        BY <1>4, <3>1, <3>2
      <3>4. i \notin fill_alloc(in)
        BY <3>2, <3>3, AllocFree
      <3> QED
        BY <1>4, <3>1, <3>4 DEF WordsOf
    <2>2. CASE in.gnt /\ bus_q'[k].ver = in.ver
      BY <2>2
    <2> QED
      BY <1>1, <1>2, <2>1, <2>2, BusEntries
  <1>5. ASSUME i \notin fill_hit_q', NEW b \in Beat, Received(i, b)'
        PROVE  fill_data_q'[i][b].ver = v
    <2>1. CASE i \in fill_alloc(in)
      <3>1. fill_rvd_cnt_q'[i] = 0 /\ fill_addr_q'[i] = lookup_addr_ic0(in)
        BY <1>1, <2>1, DataStep
      <3>2. lookup_addr_ic0(in) \in Addr
        BY <1>1, <2>1, LookupAddr DEF fill_alloc, Edge
      <3>3. fill_addr_q'[i].beat \in Nat /\ fill_addr_q'[i].beat < IC_LINE_BEATS
        BY <3>1, <3>2, ParamAssumption DEF Addr, Beat
      <3> QED
        BY <1>5, <3>1, <3>3, ParamAssumption DEF Received, BeatsBefore, Beat
    <2>2. CASE i \in fill_busy_q \ fill_done(in) /\ i \notin fill_alloc(in)
      <3>1. /\ fill_rvd_cnt_q'[i] = fill_rvd_cnt_q[i] +
                                    (IF i \in fill_rvd_arb(in) THEN 1 ELSE 0)
            /\ fill_addr_q'[i] = fill_addr_q[i]
            /\ i \in fill_hit_q' <=> i \in fill_hit_ic1(in) \cup fill_hit_q
            /\ fill_data_q'[i][b] =
                  IF i \in fill_hit_ic1(in) THEN in.hit[b]
                  ELSE IF i \in fill_rvd_arb(in) \ fill_hit_q /\ b = fill_rvd_off(i)
                       THEN instr_rdata(in) ELSE fill_data_q[i][b]
        BY <1>1, <2>2, DataStep
      <3>2. /\ fill_rvd_cnt_q[i] \in Nat /\ BeatsBefore(i, b) \in Nat
            /\ BeatsBefore(i, b)' = BeatsBefore(i, b)
        BY <1>1, <2>2, <3>1, NextBeat, ParamAssumption DEF TypeOK, Count, Beat, BeatsBefore
      <3>3. i \notin fill_hit_ic1(in) \cup fill_hit_q
        BY <1>5, <3>1
      <3>4. CASE i \in fill_rvd_arb(in) /\ b = fill_rvd_off(i)
        <4>1. fill_data_q'[i][b].ver = Head(bus_q).ver
          BY <3>1, <3>3, <3>4 DEF instr_rdata
        <4>2. in.rvalid
          BY <1>1, <3>4, RvdData
        <4>3. PICK h \in fill_busy_q :
                fill_rvd_arb(in) = {h} /\ Head(bus_q).owner = {h} /\ bus_q # <<>>
          BY <1>1, <1>2, <4>2, RvdArb
        <4>4. h = i
          BY <3>4, <4>3
        <4>5. 1 \in DOMAIN bus_q /\ Head(bus_q) = bus_q[1]
          BY <1>1, <4>3 DEF TypeOK
        <4> QED
          BY <2>2, <4>1, <4>3, <4>4, <4>5 DEF WordsOf
      <3>5. CASE ~(i \in fill_rvd_arb(in) /\ b = fill_rvd_off(i))
        <4>1. fill_data_q'[i][b] = fill_data_q[i][b]
          BY <3>1, <3>3, <3>5
        <4>2. Received(i, b)
          <5>1. i \in fill_rvd_arb(in) => BeatsBefore(i, b) # fill_rvd_cnt_q[i]
            BY <1>1, <2>2, <3>5, NextBeat, RvdData
          <5> QED
            BY <1>5, <3>1, <3>2, <5>1 DEF Received
        <4> QED
          BY <2>2, <3>3, <4>1, <4>2 DEF WordsOf
      <3> QED
        BY <3>4, <3>5
    <2> QED
      BY <1>3, <2>1, <2>2
  <1> QED
    BY <1>4, <1>5 DEF WordsOf

\* A lookup that hits, as long as memory is as it was at the latest request.
LEMMA CurrentHit ==
  ASSUME CacheTypeOK, TypeOK, InvalInv, RamHoldsItsLines, LookupsInUse,
         LineBufPlace, LineBufFenced, Fenced
  PROVE  HitServesItsLine
  <1> SUFFICES ASSUME lookup_valid_ic1, tag_match_ic1 # {}, mem_ver = fence_q
               PROVE  hit_data_ic1 = [b \in Beat |-> [line |-> lookup_line_ic1, beat |-> b,
                                                      ver |-> fence_q, bad |-> FALSE]]
    BY DEF HitServesItsLine
  <1>1. clean_q = Index
    BY DEF LookupsInUse, InvalInv, SweptSafely, SweptBeforeUse
  <1>2. CASE line_buf_hit_ic1
    BY <1>2 DEF LineBufPlace, LineBufFenced, hit_data_ic1
  <1>3. CASE ~line_buf_hit_ic1
    <2>1. clean_q = Index
      BY <1>1
    <2>2. tag_match_raw # {} /\ ~line_buf_hit_ic1
      BY <1>3 DEF tag_match_ic1
    <2> DEFINE word(b) == [line |-> lookup_line_ic1, beat |-> b, ver |-> fence_q, bad |-> FALSE]
               read(b) == {ram[w][set_ic1].data[b] : w \in tag_match_raw}
    <2>3. ASSUME NEW b \in Beat, NEW w \in tag_match_raw
          PROVE  ram[w][set_ic1].data[b] = word(b)
      <3>1. /\ w \in Way /\ set_ic1 \in Index /\ ram[w][set_ic1].line = lookup_line_ic1
            /\ ram[w][set_ic1] \in Entry /\ ram[w][set_ic1] # NoEntry
        BY MatchIsEntry
      <3> DEFINE d == ram[w][set_ic1].data[b]
      <3>2. d \in Data
        BY <3>1 DEF Entry
      <3>3. d.line = lookup_line_ic1 /\ d.beat = b /\ ~d.bad
        BY <3>1 DEF RamHoldsItsLines
      <3>4. d.ver = fence_q
        BY <2>1, <3>1 DEF Fenced
      <3> HIDE DEF d
      <3> QED
        <4>1. d = word(b)
          BY <3>2, <3>3, <3>4 DEF Data
        <4> QED
          BY <4>1 DEF d
    <2>4. ASSUME NEW b \in Beat PROVE read(b) = {word(b)}
      <3> HIDE DEF word
      <3> QED
        BY <2>2, <2>3
    <2>5. hit_data_ic1 = [b \in Beat |-> IF Cardinality(read(b)) = 1
                                         THEN CHOOSE d \in read(b) : TRUE ELSE Garbled]
      BY <2>2 DEF hit_data_ic1
    <2>6. ASSUME NEW b \in Beat
          PROVE  (IF Cardinality(read(b)) = 1 THEN CHOOSE d \in read(b) : TRUE ELSE Garbled) = word(b)
      <3> HIDE DEF word, read
      <3>1. Cardinality(read(b)) = 1
        BY <2>4, FS_Singleton
      <3> QED
        BY <2>4, <3>1
    <2> HIDE DEF read
    <2> QED
      BY <2>5, <2>6
  <1> QED
    BY <1>2, <1>3

(***************************************************************************)
(* FENCE.I, without a line buffer or with that of opt1.                    *)
(***************************************************************************)
\* With two lines, the next but one would be the line itself.
LineBufSafe == \/ Variant = "baseline" /\ ~ICacheLineBuffer
               \/ Variant = "opt1" /\ NUM_LINES > 2

\* A cache in use of which nobody asks an invalidation stays in use.
LEMMA StaysIdle ==
  ASSUME NEW x, InvalStep(x.inval, x.answer), FillIn(x).inval = "idle"
  PROVE  ~sweeping /\ ~x.inval /\ ~inval_active /\ ~inval_active'
  <1>1. ~sweeping /\ ~x.inval /\ ~inval_active
    <2>1. FillIn(x).inval = (CASE sweeping -> IF x.inval THEN "restart" ELSE "write"
                               [] ~sweeping /\ x.inval -> "request"
                               [] OTHER -> IF inval_active THEN "wait" ELSE "idle")
      BY FillInFields
    <2> QED
      BY <2>1
  <1>2. InvalState(x.inval)
    BY DEF InvalStep
  <1>3. inval_state_q' = "IDLE"
    BY <1>1, <1>2 DEF InvalState, inval_active, accepted
  <1> QED
    BY <1>1, <1>3 DEF inval_active

LEMMA LookupsPreserved ==
  ASSUME NEW x \in CacheInputs, Edge(FillIn(x)), InvalStep(x.inval, x.answer),
         x.inval \in BOOLEAN, LookupsInUse
  PROVE  LookupsInUse'
  <1> DEFINE in == FillIn(x)
  <1>1. LookupRegs(in) /\ InvalState(x.inval)
    BY DEF Edge, Clock, InvalStep
  <1>2. ASSUME lookup_valid_ic1' PROVE ~inval_active'
    <2>1. in.inval = "idle"
      BY <1>1, <1>2 DEF LookupRegs, lookup_actual_ic0, inval_block_cache
    <2> QED
      BY <2>1, StaysIdle
  <1>3. ASSUME ecc_write_req' PROVE ~sweeping'
    <2>1. in.ecc = "ram"
      BY <1>1, <1>3 DEF LookupRegs
    <2>2. lookup_valid_ic1
      <3>1. in.ecc = (CASE ~ecc_err_ic1(x) -> "none"
                        [] ecc_err_ic1(x) /\ line_buf_hit_ic1 -> "line_buf" [] OTHER -> "ram")
        BY FillInFields
      <3>2. ecc_err_ic1(x)
        <4> HIDE DEF in
        <4> QED
          BY <2>1, <3>1
      <3> QED
        BY <3>2 DEF ecc_err_ic1
    <2>3. inval_state_q = "IDLE"
      BY <2>2 DEF LookupsInUse, inval_active
    <2> QED
      BY <1>1, <2>3 DEF InvalState, sweeping, accepted
  <1> QED
    BY <1>2, <1>3 DEF LookupsInUse

LEMMA NextLineApart ==
  ASSUME NUM_LINES > 2, NEW l \in Line
  PROVE  NextLine(l) \in Line /\ NextLine(l) # l /\ NextLine(NextLine(l)) # l
  BY ParamAssumption DEF Line, NextLine

\* What stays in the line buffer, or comes into it, is the line that was looked up
\* last; and a hit of it is of a branch.
LEMMA LineBufMoves ==
  ASSUME LineBufSafe, TypeOK, LookupsInUse, LineBufPlace, NEW x \in CacheInputs,
         LineBufRegs(FillIn(x))
  PROVE  /\ line_buf_valid_q' =>
               /\ Variant = "opt1" /\ FillIn(x).enable /\ FillIn(x).inval = "idle"
               /\ ~branch_i(FillIn(x)) /\ ~line_buf_hit_ic1'
               /\ IF lookup_valid_ic1
                  THEN /\ FillIn(x).hit # NoLine
                       /\ line_buf_q'.line = lookup_line_ic1 /\ line_buf_q'.data = FillIn(x).hit
                  ELSE line_buf_valid_q /\ line_buf_q' = line_buf_q
         /\ line_buf_hit_ic1' =>
               /\ Variant = "opt1" /\ lookup_actual_ic0(FillIn(x))
               /\ line_buf_valid_q /\ line_buf_q' = line_buf_q
               /\ line_buf_q.line = lookup_addr_ic0(FillIn(x)).line
  <1> DEFINE in == FillIn(x)
             valid == ~line_buf_inval(in) /\ (line_buf_capture(in) \/ line_buf_valid_q)
             hit == in.line_buf /\ lookup_actual_ic0(in)
  <1>1. in.line_buf => line_buf_valid_q /\ line_buf_q.line = lookup_addr_ic0(in).line
    <2>1. in.line_buf = line_buf_hit_ic0(fill_inputs(x)) /\ in.addr = x.addr
          /\ fill_inputs(x).addr = x.addr
      BY FillInFields DEF fill_inputs
    <2> HIDE DEF in
    <2> QED
      BY <2>1 DEF line_buf_hit_ic0, lookup_addr_ic0, branch_i
  <1>2. in.inval = (CASE sweeping -> IF x.inval THEN "restart" ELSE "write"
                      [] ~sweeping /\ x.inval -> "request"
                      [] OTHER -> IF inval_active THEN "wait" ELSE "idle")
    BY FillInFields
  <1> HIDE DEF in
  <1>3. /\ line_buf_valid_q' = valid /\ line_buf_hit_ic1' = hit
        /\ line_buf_q' = CASE ~valid /\ ~hit -> NoBuf
                           [] (valid \/ hit) /\ line_buf_capture(in) ->
                                [line |-> lookup_line_ic1, ways |-> tag_match_ic1, data |-> in.hit]
                           [] OTHER -> line_buf_q
    BY DEF LineBufRegs, in
  <1>4. valid \/ hit => Variant = "opt1"
    BY <1>1 DEF LineBufPlace, LineBufSafe, line_buf_capture
  <1>5. ASSUME valid
        PROVE  /\ in.enable /\ in.inval = "idle" /\ ~branch_i(in)
               /\ lookup_valid_ic1 => line_buf_capture(in) /\ in.hit # NoLine
               /\ ~lookup_valid_ic1 => ~line_buf_capture(in) /\ line_buf_valid_q
    <2>1. in.enable /\ ~branch_i(in) /\ ~icache_inval_i(in) /\ ~inval_write_req(in)
          /\ (lookup_valid_ic1 => tag_hit_ic1(in) /\ in.ecc = "none")
      BY <1>4, <1>5 DEF line_buf_inval
    <2>2. ~inval_active
      BY <1>5 DEF LineBufPlace, LookupsInUse, line_buf_capture
    <2>3. in.inval = "idle"
      BY <1>2, <2>1, <2>2 DEF icache_inval_i, inval_write_req, inval_active, sweeping
    <2> QED
      BY <1>4, <1>5, <2>1, <2>3 DEF line_buf_capture, tag_hit_ic1
  <1>6. ASSUME hit PROVE ~valid /\ ~line_buf_capture(in)
    <2>1. line_buf_valid_q /\ line_buf_q.line = lookup_addr_ic0(in).line /\ Variant = "opt1"
      BY <1>1, <1>4, <1>6
    <2>2. /\ line_buf_q.line \in Line /\ NUM_LINES > 2
          /\ lookup_valid_ic1 => prefetch_addr_q.line = NextLine(NextLine(line_buf_q.line))
          /\ ~lookup_valid_ic1 => prefetch_addr_q.line = NextLine(line_buf_q.line)
      BY <2>1 DEF LineBufPlace, LineBufSafe
    <2>3. branch_i(in)
      BY <2>1, <2>2, NextLineApart DEF lookup_addr_ic0
    <2>4. line_buf_inval(in)
      BY <2>1, <2>3 DEF line_buf_inval
    <2> QED
      BY <2>1, <2>4 DEF line_buf_capture
  <1>7. valid => /\ ~hit
                 /\ IF lookup_valid_ic1
                    THEN line_buf_q' = [line |-> lookup_line_ic1, ways |-> tag_match_ic1,
                                        data |-> in.hit]
                    ELSE line_buf_q' = line_buf_q
    <2> HIDE DEF valid, hit
    <2> QED
      BY <1>3, <1>5, <1>6
  <1>8. hit => line_buf_q' = line_buf_q
    <2> HIDE DEF valid, hit
    <2> QED
      BY <1>3, <1>6
  <1>9. hit => lookup_actual_ic0(in) /\ in.line_buf
    OBVIOUS
  <1> HIDE DEF valid, hit
  <1> QED
    BY <1>1, <1>3, <1>4, <1>5, <1>7, <1>8, <1>9 DEF in

LEMMA LineBufPlacePreserved ==
  ASSUME LineBufSafe, TypeOK, LookupsInUse, LineBufPlace, NEW x \in CacheInputs,
         FillIn(x) \in AnyInput, Edge(FillIn(x)), InvalStep(x.inval, x.answer),
         LineBufRegs(FillIn(x))
  PROVE  LineBufPlace'
  <1> DEFINE in == FillIn(x)
  <1>1. LookupRegs(in) /\ in \in AnyInput
    BY DEF Edge, Clock
  <1>2. lookup_valid_ic1' => prefetch_addr_q'.line = NextLine(lookup_line_ic1')
    <2> HIDE DEF in
    <2> QED
      BY <1>1 DEF LookupRegs, lookup_actual_ic0, prefetch_addr_en, prefetch_addr_d
  <1>3. ASSUME line_buf_hit_ic1'
        PROVE  /\ Variant = "opt1" /\ ~line_buf_valid_q'
               /\ lookup_valid_ic1' /\ line_buf_q'.line = lookup_line_ic1'
    BY <1>1, <1>3, LineBufMoves DEF LookupRegs
  <1>4. ASSUME line_buf_valid_q'
        PROVE  /\ Variant = "opt1" /\ ~inval_active'
               /\ line_buf_q'.line \in Line
               /\ NextLine(line_buf_q'.line) = IF lookup_valid_ic1' THEN lookup_line_ic1'
                                                                    ELSE prefetch_addr_q'.line
    <2>1. /\ Variant = "opt1" /\ in.enable /\ in.inval = "idle" /\ ~branch_i(in)
          /\ IF lookup_valid_ic1
             THEN line_buf_q'.line = lookup_line_ic1
             ELSE line_buf_valid_q /\ line_buf_q' = line_buf_q
      BY <1>4, LineBufMoves
    <2>2. ~inval_active'
      BY <2>1, StaysIdle
    <2>3. line_buf_q'.line \in Line /\ NextLine(line_buf_q'.line) = prefetch_addr_q.line
      BY <2>1 DEF LineBufPlace, TypeOK
    <2>4. CASE lookup_grant_ic0(in)
      <3> HIDE DEF in
      <3>1. lookup_actual_ic0(in) /\ lookup_addr_ic0(in) = prefetch_addr_q
        BY <2>1, <2>4 DEF lookup_actual_ic0, inval_block_cache, lookup_addr_ic0
      <3> QED
        BY <1>1, <2>1, <2>2, <2>3, <3>1 DEF LookupRegs
    <2>5. CASE ~lookup_grant_ic0(in)
      <3> HIDE DEF in
      <3> QED
        BY <1>1, <2>1, <2>2, <2>3, <2>5 DEF LookupRegs, lookup_actual_ic0, prefetch_addr_en
    <2> QED
      BY <2>4, <2>5
  <1> QED
    BY <1>2, <1>3, <1>4 DEF LineBufPlace

\* Versions only grow, and a fence or a branch takes over the current one.
LEMMA VersionStep ==
  ASSUME CacheTypeOK, floor_q <= fence_q, fence_q <= mem_ver, NEW x, Memory(x)
  PROVE  /\ floor_q' <= fence_q' /\ fence_q' <= mem_ver'
         /\ mem_ver' = fence_q' => mem_ver = fence_q'
         /\ mem_ver' = fence_q' /\ ~x.inval => mem_ver = fence_q
         /\ mem_ver' = floor_q' => mem_ver = floor_q'
         /\ mem_ver' = floor_q' /\ x.addr = NoAddr => mem_ver = floor_q
  <1>1. mem_ver \in Nat /\ fence_q \in Nat /\ floor_q \in Nat
    BY ParamAssumption DEF CacheTypeOK
  <1>2. mem_ver' \in {mem_ver, mem_ver + 1}
    BY DEF Memory
  <1>3. /\ fence_q' = IF x.inval THEN mem_ver ELSE fence_q
        /\ floor_q' = IF x.addr = NoAddr THEN floor_q ELSE IF x.inval THEN mem_ver ELSE fence_q
    BY DEF Memory
  <1> QED
    BY <1>1, <1>2, <1>3

\* A request empties what was swept and stops the buffers from writing the RAM.
LEMMA RequestEmpties ==
  ASSUME WithMasks, TypeOK, AgeOrder, WayChosen, InvalInv, NEW x \in CacheInputs, x.inval,
         FillIn(x) \in AnyInput, Edge(FillIn(x)), InvalStep(x.inval, x.answer)
  PROVE  clean_q' = {} /\ fill_cache_q' = {}
  <1> DEFINE in == FillIn(x)
  <1>1. clean_q' = {}
    <2>1. SweptTags(x.inval, x.answer)
      BY DEF InvalStep
    <2>2. CASE accepted(x.inval)
      BY <2>1, <2>2 DEF SweptTags
    <2>3. CASE ~accepted(x.inval)
      <3>1. inval_state_q \in {"OUT_OF_RESET", "AWAIT_SCRAMBLE_KEY"}
        BY <2>3 DEF accepted, InvalInv, InvalTypeOK
      <3>2. clean_q = {}
        BY <3>1 DEF InvalInv, NothingSwept, SweptSafely, SweepInOrder
      <3> QED
        BY <2>1, <3>1, <3>2 DEF SweptTags, sweeping
    <2> QED
      BY <2>2, <2>3
  <1>2. in.inval \in {"restart", "request"}
    BY FillInFields
  <1>3. icache_inval_i(in) /\ ~lookup_actual_ic0(in)
    BY <1>2 DEF icache_inval_i, lookup_actual_ic0, inval_block_cache
  <1>4. ASSUME NEW i \in fill_cache_q' PROVE FALSE
    <2> HIDE DEF in
    <2>1. in \in AnyInput /\ Edge(in) /\ fill_cache_q \subseteq fill_busy_q
      BY DEF in, WayChosen
    <2> QED
      BY <1>3, <2>1, CachedStep
  <1> QED
    BY <1>1, <1>4

LEMMA FencedPreserved ==
  ASSUME WithMasks, CacheIInv, InvalInv, LookupsInUse, Fenced,
         floor_q <= fence_q, fence_q <= mem_ver,
         NEW x \in CacheInputs, CacheStep(x)
  PROVE  Fenced'
  <1> DEFINE in == FillIn(x)
  <1>1. /\ FetchInv /\ TypeOK /\ AgeOrder /\ CacheTypeOK /\ LineBufTyped /\ WayChosen
        /\ InvalTypeOK
    BY DEF CacheIInv, FetchInv, BusIInv, InvalInv
  <1>2. /\ in \in AnyInput /\ Edge(in) /\ InvalStep(x.inval, x.answer) /\ RamWrite(in) /\ Memory(x)
        /\ in.ver = mem_ver
    BY <1>1, StepFacts, FillInFields
  <1> SUFFICES ASSUME mem_ver' = fence_q'
               PROVE  /\ \A s \in clean_q', w \in Way :
                            ram'[w][s] = NoEntry \/ \A b \in Beat : ram'[w][s].data[b].ver = fence_q'
                      /\ \A i \in fill_cache_q' : WordsOf(i, fence_q)'
    BY DEF Fenced
  <1>3. CASE x.inval
    BY <1>1, <1>2, <1>3, RequestEmpties
  <1>4. CASE ~x.inval
    <2>1. mem_ver = fence_q /\ fence_q' = fence_q
      BY <1>1, <1>2, <1>4, VersionStep DEF Memory
    <2>2. /\ \A s \in clean_q, w \in Way :
                ram[w][s] = NoEntry \/ \A b \in Beat : ram[w][s].data[b].ver = fence_q
          /\ \A i \in fill_cache_q : WordsOf(i, fence_q)
      BY <2>1 DEF Fenced
    <2> HIDE DEF in
    <2>3. ASSUME NEW s \in clean_q', NEW w \in Way
          PROVE  ram'[w][s] = NoEntry \/ \A b \in Beat : ram'[w][s].data[b].ver = fence_q
      <3>1. /\ s \in clean_q \/ (sweeping /\ s = inval_index_q)
            /\ s \in Index
        BY <1>1, <1>2 DEF InvalStep, SweptTags, InvalTypeOK
      <3>2. CASE sweeping /\ s = inval_index_q
        BY <1>1, <1>2, <3>2, RamStep DEF LookupsInUse
      <3>3. CASE s \in clean_q /\ ram'[w][s] = ram[w][s]
        BY <2>2, <3>3
      <3>4. CASE Stored(in, w, s)
        <4>1. PICK i \in fill_ram_arb(in) :
                ram'[w][s] = [line |-> fill_addr_q[i].line, data |-> fill_data_q[i]]
          BY <3>4 DEF Stored
        <4>2. i \in fill_ram_req /\ i \in fill_cache_q /\ i \notin fill_hit_q
          BY <4>1 DEF fill_ram_arb, Oldest, fill_ram_req
        <4>3. \A b \in Beat : Received(i, b)
          BY <1>1, <4>2, LineComplete
        <4>4. \A b \in Beat : fill_data_q[i][b].ver = fence_q
          BY <2>2, <4>2, <4>3 DEF WordsOf
        <4> QED
          BY <4>1, <4>4
      <3> QED
        BY <1>1, <1>2, <3>1, <3>2, <3>3, <3>4, RamStep
    <2>4. ASSUME NEW i \in fill_cache_q' PROVE WordsOf(i, fence_q)'
      <3>1. PICK v : v = fence_q
        OBVIOUS
      <3>2. fill_cache_q \subseteq fill_busy_q
        BY <1>1 DEF WayChosen
      <3>3. /\ i \in fill_busy_q'
            /\ i \notin fill_alloc(in) => i \in fill_cache_q /\ i \in fill_busy_q
        BY <1>1, <1>2, <3>2, CachedStep
      <3>4. i \in fill_cache_q => WordsOf(i, v)
        BY <2>2, <3>1
      <3>5. WordsOf(i, v)'
        BY <1>1, <1>2, <2>1, <3>1, <3>3, <3>4, WordsStep
      <3> QED
        BY <2>1, <3>1, <3>5 DEF WordsOf
    <2> QED
      BY <2>1, <2>3, <2>4
  <1> QED
    BY <1>3, <1>4

LEMMA LineBufFencedPreserved ==
  ASSUME LineBufSafe, CacheIInv, InvalInv, LookupsInUse, LineBufPlace, LineBufFenced, Fenced,
         floor_q <= fence_q, fence_q <= mem_ver,
         NEW x \in CacheInputs, LineBufRegs(FillIn(x)), Memory(x)
  PROVE  LineBufFenced'
  <1>1. /\ CacheTypeOK /\ TypeOK /\ RamHoldsItsLines
    BY DEF CacheIInv, FetchInv, BusIInv
  <1> SUFFICES ASSUME line_buf_valid_q' \/ line_buf_hit_ic1', mem_ver' = fence_q'
               PROVE  line_buf_q'.data = [b \in Beat |-> [line |-> line_buf_q'.line, beat |-> b,
                                                          ver |-> fence_q', bad |-> FALSE]]
    BY DEF LineBufFenced
  <1>2. FillIn(x).inval = "idle"
    BY <1>1, LineBufMoves DEF lookup_actual_ic0, inval_block_cache
  <1>3. ~x.inval
    <2>1. x.inval => FillIn(x).inval \in {"restart", "request"}
      BY FillInFields
    <2> QED
      BY <1>2, <2>1
  <1>4. mem_ver = fence_q /\ fence_q' = fence_q
    BY <1>1, <1>3, VersionStep DEF Memory
  <1>5. CASE line_buf_valid_q /\ line_buf_q' = line_buf_q
    BY <1>4, <1>5 DEF LineBufFenced
  <1>6. CASE /\ lookup_valid_ic1 /\ FillIn(x).hit # NoLine
             /\ line_buf_q'.line = lookup_line_ic1 /\ line_buf_q'.data = FillIn(x).hit
    <2>1. tag_match_ic1 # {} /\ FillIn(x).hit = hit_data_ic1
      BY <1>6, FillInFields
    <2>2. HitServesItsLine
      BY <1>1, CurrentHit
    <2> QED
      BY <1>4, <1>6, <2>1, <2>2 DEF HitServesItsLine
  <1> QED
    BY <1>1, <1>5, <1>6, LineBufMoves

\* The buffers that serve the current stream in the next cycle.
LEMMA ServingStep ==
  ASSUME TypeOK, AgeOrder, NEW in \in AnyInput, Edge(in), NEW i \in fill_busy_q' \ fill_stale_q'
  PROVE  \/ i \in fill_alloc(in)
         \/ /\ i \notin fill_alloc(in) /\ ~branch_i(in)
            /\ i \in (fill_busy_q \ fill_done(in)) \ fill_stale_q
  <1>1. AgeRegs(in) /\ StatusRegs(in)
    BY DEF Edge, Clock
  <1>2. /\ fill_busy_q' = fill_busy_d(in)
        /\ fill_busy_d(in) = fill_alloc(in) \cup (fill_busy_q \ fill_done(in))
    BY <1>1, AgeStep DEF TypeOK
  <1>3. i \notin (IF branch_i(in) THEN fill_busy_q ELSE fill_stale_q)
    BY <1>1, <1>2 DEF StatusRegs
  <1> QED
    BY <1>2, <1>3

LEMMA FlooredPreserved ==
  ASSUME WithMasks, CacheIInv, InvalInv, LookupsInUse, LineBufPlace, LineBufFenced,
         Fenced, Floored,
         floor_q <= fence_q, fence_q <= mem_ver,
         NEW x \in CacheInputs, CacheStep(x)
  PROVE  Floored'
  <1> DEFINE in == FillIn(x)
  <1>1. /\ FetchInv /\ TypeOK /\ AgeOrder /\ CacheTypeOK /\ LineBufTyped /\ WayChosen
        /\ LookupInv /\ OutInv /\ RamHoldsItsLines
    BY DEF CacheIInv, FetchInv, BusIInv
  <1>2. /\ in \in AnyInput /\ Edge(in) /\ Memory(x)
        /\ in.ver = mem_ver /\ in.addr = x.addr
        /\ in.hit = (IF lookup_valid_ic1 /\ tag_match_ic1 # {} THEN hit_data_ic1 ELSE NoLine)
    BY <1>1, StepFacts, FillInFields
  <1> SUFFICES ASSUME mem_ver' = floor_q', NEW i \in fill_busy_q' \ fill_stale_q'
               PROVE  WordsOf(i, floor_q)' /\ HitOf(i, floor_q)'
    BY DEF Floored
  <1> HIDE DEF in
  <1>3. mem_ver = floor_q'
    BY <1>1, <1>2, VersionStep
  <1>4. PICK v : v = floor_q'
    OBVIOUS
  <1>5. CASE i \in fill_alloc(in)
    <2>1. WordsOf(i, v)'
      BY <1>1, <1>2, <1>3, <1>4, <1>5, WordsStep
    <2>2. i \notin fill_hit_q'
      BY <1>1, <1>2, <1>5, DataStep
    <2> QED
      BY <1>4, <2>1, <2>2 DEF WordsOf, HitOf
  <1>6. CASE /\ i \notin fill_alloc(in) /\ ~branch_i(in)
             /\ i \in (fill_busy_q \ fill_done(in)) \ fill_stale_q
    <2>1. mem_ver = floor_q /\ mem_ver = fence_q /\ v = floor_q /\ v = fence_q
      <3>1. x.addr = NoAddr
        BY <1>2, <1>6 DEF branch_i
      <3>2. mem_ver = floor_q /\ floor_q' = floor_q
        BY <1>1, <1>2, <3>1, VersionStep DEF Memory
      <3>3. mem_ver \in Nat /\ fence_q \in Nat /\ floor_q \in Nat
        BY <1>1, ParamAssumption DEF CacheTypeOK
      <3> QED
        BY <1>4, <3>2, <3>3
    <2>2. WordsOf(i, v) /\ HitOf(i, v)
      BY <1>6, <2>1 DEF Floored
    <2>3. WordsOf(i, v)'
      BY <1>1, <1>2, <1>3, <1>4, <1>6, <2>2, WordsStep
    <2>4. ASSUME i \in fill_hit_q', NEW b \in Beat
          PROVE  fill_data_q'[i][b] =
                    [line |-> fill_addr_q'[i].line, beat |-> b, ver |-> v, bad |-> FALSE]
      <3>1. /\ fill_addr_q'[i] = fill_addr_q[i]
            /\ i \in fill_hit_q' <=> i \in fill_hit_ic1(in) \cup fill_hit_q
            /\ fill_data_q'[i][b] =
                  IF i \in fill_hit_ic1(in) THEN in.hit[b]
                  ELSE IF i \in fill_rvd_arb(in) \ fill_hit_q /\ b = fill_rvd_off(i)
                       THEN instr_rdata(in) ELSE fill_data_q[i][b]
        BY <1>1, <1>2, <1>6, DataStep
      <3>2. CASE i \in fill_hit_ic1(in)
        <4>1. /\ lookup_valid_ic1 /\ fill_addr_q[i].line = lookup_line_ic1 /\ in.hit # NoLine
          BY <1>1, <3>2, HitIsYoungest
        <4>2. tag_match_ic1 # {} /\ in.hit = hit_data_ic1
          BY <1>2, <4>1
        <4>3. in.hit = [c \in Beat |-> [line |-> lookup_line_ic1, beat |-> c,
                                        ver |-> fence_q, bad |-> FALSE]]
          BY <1>1, <2>1, <4>1, <4>2, CurrentHit DEF HitServesItsLine
        <4> QED
          BY <2>1, <3>1, <3>2, <4>1, <4>3
      <3>3. CASE i \notin fill_hit_ic1(in)
        BY <2>2, <2>4, <3>1, <3>3 DEF HitOf
      <3> QED
        BY <3>2, <3>3
    <2> QED
      BY <1>4, <2>3, <2>4 DEF WordsOf, HitOf
  <1> QED
    BY <1>1, <1>2, <1>5, <1>6, ServingStep

LEMMA InitFence == CacheInit => FenceIInv
  <1> SUFFICES ASSUME CacheInit PROVE FenceIInv
    OBVIOUS
  <1>1. LookupsInUse /\ LineBufPlace /\ LineBufFenced
    BY DEF CacheInit, Init, LookupsInUse, LineBufPlace, LineBufFenced
  <1>2. floor_q <= fence_q /\ fence_q <= mem_ver
    BY DEF CacheInit
  <1>3. Fenced /\ Floored
    BY DEF CacheInit, Init, InvalInit, Fenced, Floored
  <1> QED
    BY <1>1, <1>2, <1>3, InitCache DEF FenceIInv

\* Every cycle preserves it.
LEMMA StepFence ==
  ASSUME LineBufSafe, FenceIInv, InvalInv, [CacheNext]_cache_vars
  PROVE  FenceIInv' /\ InvalInv'
  <1>1. /\ CacheIInv /\ LookupsInUse /\ LineBufPlace /\ LineBufFenced /\ Fenced /\ Floored
        /\ floor_q <= fence_q /\ fence_q <= mem_ver
        /\ TypeOK /\ CacheTypeOK /\ LineBufTyped /\ WithMasks
    BY DEF FenceIInv, CacheIInv, FetchInv, BusIInv, LineBufSafe, WithMasks
  <1>2. CacheIInv' /\ InvalInv'
    BY <1>1, StepCache
  <1>3. CASE CacheNext
    <2>1. PICK x \in CacheInputs : CacheStep(x)
      BY <1>3 DEF CacheNext
    <2>2. LookupsInUse'
      <3>1. x.inval \in BOOLEAN
        BY CacheAssumption DEF CacheInputs
      <3> QED
        BY <1>1, <2>1, <3>1, StepFacts, LookupsPreserved
    <2>3. LineBufPlace' /\ LineBufFenced'
      BY <1>1, <2>1, StepFacts, LineBufPlacePreserved, LineBufFencedPreserved
    <2>4. floor_q' <= fence_q' /\ fence_q' <= mem_ver'
      BY <1>1, <2>1, StepFacts, VersionStep
    <2>5. Fenced' /\ Floored'
      BY <1>1, <2>1, FencedPreserved, FlooredPreserved
    <2> QED
      BY <1>2, <2>2, <2>3, <2>4, <2>5 DEF FenceIInv
  <1>4. CASE UNCHANGED cache_vars
    <2>1. UNCHANGED vars /\ UNCHANGED inval_vars /\ UNCHANGED ram_vars /\ UNCHANGED mem_vars
      BY <1>4 DEF cache_vars
    <2>2. /\ LookupsInUse' /\ LineBufPlace' /\ LineBufFenced'
          /\ floor_q' <= fence_q' /\ fence_q' <= mem_ver'
      BY <1>1, <2>1 DEF vars, lookup_vars, inval_vars, ram_vars, mem_vars, LookupsInUse,
                        LineBufPlace, LineBufFenced, inval_active, sweeping
    <2>3. Fenced' /\ Floored'
      BY <1>1, <2>1 DEF vars, fill_vars, age_vars, inval_vars, ram_vars, mem_vars,
                        Fenced, Floored, WordsOf, HitOf, Received, BeatsBefore
    <2> QED
      BY <1>2, <2>2, <2>3 DEF FenceIInv
  <1> QED
    BY <1>3, <1>4

\* Versions in RAM, buffers and bus: inductive without a line buffer
\* and with that of opt1, unless the cache has two lines only.
THEOREM FenceInductive ==
  ASSUME LineBufSafe
  PROVE  CacheSpec => [](FenceIInv /\ InvalInv)
  <1>1. CacheInit => FenceIInv /\ InvalInv
    BY InitCache, InitFence
  <1>2. (FenceIInv /\ InvalInv) /\ [CacheNext]_cache_vars => (FenceIInv /\ InvalInv)'
    BY StepFence
  <1> QED
    BY <1>1, <1>2, PTL DEF CacheSpec

\* A lookup that hits finds its whole line, without bus errors and, while memory is
\* as it was at the latest invalidation, with that contents, also if both ways hit.
THEOREM HitsServeTheirLines ==
  ASSUME LineBufSafe
  PROVE  CacheSpec => []HitServesItsLine
  <1>1. FenceIInv /\ InvalInv => HitServesItsLine
    BY CurrentHit DEF FenceIInv, CacheIInv, FetchInv, BusIInv
  <1> QED
    BY <1>1, FenceInductive, PTL

\* When the cache is in use again after an invalidation, nothing of before the request
\* is left in the RAM or in a buffer that may still write it.
THEOREM CacheIsFenced ==
  ASSUME LineBufSafe
  PROVE  CacheSpec => []FencedCache
  <1>1. ASSUME FenceIInv, InvalInv PROVE FencedCache
    <2> SUFFICES ASSUME ~inval_active, mem_ver = fence_q
                 PROVE  /\ \A w \in Way, s \in Index, b \in Beat :
                               ram[w][s] = NoEntry \/ ram[w][s].data[b].ver = fence_q
                        /\ \A b \in Beat :
                               line_buf_valid_q => line_buf_q.data[b].ver = fence_q
                        /\ \A i \in fill_ram_req, b \in Beat : fill_data_q[i][b].ver = fence_q
      BY DEF FencedCache
    <2>1. clean_q = Index
      BY <1>1 DEF InvalInv, SweptSafely, SweptBeforeUse
    <2>2. /\ \A s \in clean_q, w \in Way :
                ram[w][s] = NoEntry \/ \A b \in Beat : ram[w][s].data[b].ver = fence_q
          /\ \A i \in fill_cache_q : WordsOf(i, fence_q)
      BY <1>1 DEF FenceIInv, Fenced
    <2>3. ASSUME NEW i \in fill_ram_req, NEW b \in Beat PROVE fill_data_q[i][b].ver = fence_q
      <3>1. i \in fill_cache_q /\ i \notin fill_hit_q
        BY DEF fill_ram_req
      <3>2. Received(i, b)
        BY <1>1, LineComplete DEF FenceIInv, CacheIInv
      <3> QED
        BY <2>2, <3>1, <3>2 DEF WordsOf
    <2>4. ASSUME line_buf_valid_q, NEW b \in Beat PROVE line_buf_q.data[b].ver = fence_q
      BY <1>1, <2>4 DEF FenceIInv, LineBufFenced
    <2> QED
      BY <2>1, <2>2, <2>3, <2>4
  <1> QED
    BY <1>1, FenceInductive, PTL


\* What is offered to the IF stage, while memory is as it was for the current stream.
LEMMA CurrentWord ==
  ASSUME FenceIInv, InvalInv, WithMasks, NEW x \in CacheInputs, CacheStep(x),
         mem_ver = floor_q, fill_out_arb(FillIn(x)) # {}, ~output_err(FillIn(x))
  PROVE  output_data(FillIn(x)) = [line |-> out_addr.line, beat |-> out_addr.beat,
                                   ver |-> floor_q, bad |-> FALSE]
  <1> DEFINE in == FillIn(x)
  <1>1. /\ CacheIInv /\ FetchInv /\ BusIInv /\ TypeOK /\ AgeOrder /\ Started /\ BusInv
        /\ CacheTypeOK /\ LineBufTyped /\ RamHoldsItsLines
        /\ LookupInv /\ OutInv /\ ReceivedHeld
        /\ LookupsInUse /\ LineBufPlace /\ LineBufFenced /\ Fenced /\ Floored
        /\ floor_q <= fence_q /\ fence_q <= mem_ver
    BY DEF FenceIInv, CacheIInv, FetchInv, BusIInv
  <1>2. /\ in \in AnyInput /\ Edge(in) /\ Env(in)
        /\ in.hit = (IF lookup_valid_ic1 /\ tag_match_ic1 # {} THEN hit_data_ic1 ELSE NoLine)
    BY <1>1, StepFacts, FillInFields DEF Edge
  <1> SUFFICES ASSUME fill_out_arb(in) # {}, ~output_err(in)
               PROVE  output_data(in) = [line |-> out_addr.line, beat |-> out_addr.beat,
                                         ver |-> floor_q, bad |-> FALSE]
    OBVIOUS
  <1> HIDE DEF in
  <1>3. mem_ver = fence_q /\ fence_q = floor_q
    <2>1. mem_ver \in Nat /\ fence_q \in Nat /\ floor_q \in Nat
      BY <1>1, ParamAssumption DEF CacheTypeOK
    <2> QED
      BY <1>1, <2>1
  <1>4. PICK h \in out_waiting : OfferedFrom(in, h)
    BY <1>1, <1>2, WordSource
  <1>5. /\ out_addr.line = fill_addr_q[h].line /\ out_addr.beat \in Beat
        /\ h \in fill_busy_q \ fill_stale_q
    BY <1>1, <1>2, <1>4, WordSource DEF OfferedFrom, out_waiting, Addr
  <1>6. WordsOf(h, floor_q) /\ HitOf(h, floor_q)
    BY <1>1, <1>5 DEF Floored
  <1>7. CASE h \in fill_rvd_arb(in) /\ output_data(in) = instr_rdata(in)
             /\ out_addr.beat = fill_rvd_off(h) /\ output_err(in) = in.err
    <2>1. in.rvalid /\ in.err = FALSE
      BY <1>1, <1>2, <1>7, RvdData, InputTypes
    <2>2. PICK v \in Versions : instr_rdata(in) =
             [line |-> fill_addr_q[h].line, beat |-> fill_rvd_off(h), ver |-> v, bad |-> in.err]
      BY <1>1, <1>2, <1>7, RvdData
    <2>3. Head(bus_q).owner = {h} /\ 1 \in DOMAIN bus_q /\ Head(bus_q) = bus_q[1]
      <3>1. PICK g \in fill_busy_q :
              fill_rvd_arb(in) = {g} /\ Head(bus_q).owner = {g} /\ bus_q # <<>>
        BY <1>1, <1>2, <2>1, RvdArb
      <3> QED
        BY <1>1, <1>7, <3>1 DEF TypeOK
    <2>4. instr_rdata(in).ver = floor_q
      BY <1>6, <2>3 DEF WordsOf, instr_rdata
    <2>5. v = floor_q
      BY <2>2, <2>4
    <2>6. instr_rdata(in) = [line |-> out_addr.line, beat |-> out_addr.beat,
                             ver |-> floor_q, bad |-> FALSE]
      BY <1>5, <1>7, <2>1, <2>2, <2>5, Zenon
    <2> QED
      BY <1>7, <2>6, Zenon
  <1>8. CASE h \in fill_hit_ic1(in) /\ output_data(in) = in.hit[out_addr.beat]
    <2>1. lookup_valid_ic1 /\ fill_addr_q[h].line = lookup_line_ic1 /\ in.hit # NoLine
      BY <1>1, <1>8, HitIsYoungest
    <2>2. tag_match_ic1 # {} /\ in.hit = hit_data_ic1
      BY <1>2, <2>1
    <2>3. in.hit = [b \in Beat |-> [line |-> lookup_line_ic1, beat |-> b,
                                    ver |-> fence_q, bad |-> FALSE]]
      BY <1>1, <1>3, <2>1, <2>2, CurrentHit DEF HitServesItsLine
    <2> QED
      BY <1>3, <1>5, <1>8, <2>1, <2>3
  <1>9. CASE h \in fill_hit_q /\ output_data(in) = fill_data_q[h][out_addr.beat]
    BY <1>5, <1>6, <1>9 DEF HitOf
  <1>10. CASE /\ h \notin fill_hit_q /\ Received(h, out_addr.beat)
              /\ output_data(in) = fill_data_q[h][out_addr.beat]
              /\ (output_err(in) <=> out_addr.beat \in fill_err_q[h])
    <2>1. HoldsBeat(h, out_addr.beat) /\ ~fill_data_q[h][out_addr.beat].bad
      BY <1>1, <1>5, <1>10 DEF ReceivedHeld
    <2>2. PICK v \in Versions, bad \in BOOLEAN :
             /\ fill_data_q[h][out_addr.beat] =
                   [line |-> fill_addr_q[h].line, beat |-> out_addr.beat, ver |-> v, bad |-> bad]
             /\ bad = fill_data_q[h][out_addr.beat].bad
      BY <1>1, <1>5, <2>1, HeldWord
    <2>3. fill_data_q[h][out_addr.beat].ver = floor_q
      BY <1>5, <1>6, <1>10 DEF WordsOf
    <2>4. v = floor_q /\ bad = FALSE
      BY <2>1, <2>2, <2>3
    <2> QED
      BY <1>5, <1>10, <2>2, <2>4, Zenon
  <1> QED
    BY <1>4, <1>7, <1>8, <1>9, <1>10 DEF OfferedFrom

\* FENCE.I works: a word of a stream branched to at or after the invalidation is the
\* word software last wrote there, unless the bus reports an error.
THEOREM FenceWorks ==
  ASSUME LineBufSafe
  PROVE  CacheSpec => FencedFetch
  <1>1. ASSUME FenceIInv, InvalInv, CacheNext,
               fetched' # Nothing, mem_ver = floor_q, ~fetched'.err
        PROVE  fetched'.data = [line |-> out_addr.line, beat |-> out_addr.beat,
                                ver |-> floor_q, bad |-> FALSE]
    <2>1. PICK x \in CacheInputs : CacheStep(x)
      BY <1>1 DEF CacheNext
    <2> DEFINE in == FillIn(x)
    <2>2. OutRegs(in) /\ fill_out_grant(in) \subseteq fill_out_arb(in) /\ WithMasks
      BY <2>1 DEF CacheStep, Clock, fill_out_grant, LineBufSafe, WithMasks
    <2>3. fill_out_arb(in) # {} /\ fetched' = [data |-> output_data(in), err |-> output_err(in)]
      BY <1>1, <2>2 DEF OutRegs
    <2> QED
      BY <1>1, <2>1, <2>2, <2>3, CurrentWord
  <1> QED
    BY <1>1, FenceInductive, PTL DEF CacheSpec, FencedFetch

(***************************************************************************)
(* The whole cache delivers its stream, as long as code does not change    *)
(* (memory has one version): all that IcacheFill takes from a lookup, the  *)
(* RAMs then provide.                                                      *)
(***************************************************************************)
\* The RAMs are such an environment of the fetch side.
LEMMA HitsAreLines ==
  ASSUME LineBufSafe, Versions = {0}, FenceIInv, InvalInv, NEW x \in CacheInputs, CacheStep(x)
  PROVE  FillIn(x) \in AnyInput /\ Edge(FillIn(x)) /\ RamEnv(FillIn(x))
  <1> DEFINE in == FillIn(x)
  <1>1. /\ CacheTypeOK /\ LineBufTyped /\ TypeOK /\ WithMasks
        /\ RamHoldsItsLines /\ LookupsInUse /\ LineBufPlace /\ LineBufFenced /\ Fenced
    BY DEF FenceIInv, CacheIInv, FetchInv, BusIInv, LineBufSafe, WithMasks
  <1>2. /\ in \in AnyInput /\ Edge(in)
        /\ in.hit = (IF lookup_valid_ic1 /\ tag_match_ic1 # {} THEN hit_data_ic1 ELSE NoLine)
    BY <1>1, StepFacts, FillInFields
  <1>3. mem_ver = fence_q
    BY <1>1 DEF CacheTypeOK
  <1>4. HitServesItsLine
    BY <1>1, CurrentHit
  <1>5. RamEnv(in)
    <2> HIDE DEF in
    <2> QED
      BY <1>2, <1>3, <1>4 DEF RamEnv, HitServesItsLine
  <1> QED
    BY <1>2, <1>5

\* So a hit is held as its line, in every state.
LEMMA WholeHitHeld ==
  ASSUME LineBufSafe, Versions = {0}
  PROVE  CacheSpec => [](FenceIInv /\ InvalInv /\ HitHeld)
  <1>1. CacheInit => HitHeld
    BY InitIInv DEF CacheInit, IInv
  <1>2. ASSUME FenceIInv, InvalInv, HitHeld, CacheNext PROVE HitHeld'
    <2>1. PICK x \in CacheInputs : CacheStep(x)
      BY <1>2 DEF CacheNext
    <2>2. FillIn(x) \in AnyInput /\ Edge(FillIn(x)) /\ RamEnv(FillIn(x))
      BY <1>2, <2>1, HitsAreLines
    <2> QED
      BY <1>2, <2>2, HitPreserved DEF FenceIInv, CacheIInv, FetchInv
  <1>3. ASSUME HitHeld, UNCHANGED cache_vars PROVE HitHeld'
    BY <1>3 DEF cache_vars, HitHeld, HoldsBeat, vars, age_vars, fill_vars
  <1>4. FenceIInv /\ InvalInv /\ HitHeld /\ [CacheNext]_cache_vars => HitHeld'
    BY <1>2, <1>3
  <1> QED
    BY <1>1, <1>4, FenceInductive, PTL DEF CacheSpec

\* With RAMs, replacement, sweeps and ECC corrections, the cache implements FetchStream:
\* the words of the IF stage are those from the latest branch target on, in order
\* and complete, whichever of them were found in the cache.
THEOREM CacheStream ==
  ASSUME LineBufSafe, Versions = {0}
  PROVE  CacheSpec => StreamInOrder
  <1>1. CacheInit => Stream!Init
    BY DEF CacheInit, Init, Stream!Init
  <1>2. ASSUME FenceIInv, InvalInv, HitHeld, CacheNext
        PROVE  Stream!Next
    <2>1. PICK x \in CacheInputs : CacheStep(x)
      BY <1>2 DEF CacheNext
    <2>2. FillIn(x) \in AnyInput /\ Edge(FillIn(x)) /\ RamEnv(FillIn(x))
      BY <1>2, <2>1, HitsAreLines
    <2>3. IInv
      BY <1>2 DEF FenceIInv, CacheIInv, IInv
    <2> QED
      BY <2>2, <2>3, StreamStep
  <1>3. ASSUME UNCHANGED cache_vars
        PROVE  UNCHANGED <<out_addr, fetched>>
    BY <1>3 DEF cache_vars, vars
  <1>4. FenceIInv /\ InvalInv /\ HitHeld /\ [CacheNext]_cache_vars
           => [Stream!Next]_<<out_addr, fetched>>
    BY <1>2, <1>3
  <1> QED
    BY <1>1, <1>4, WholeHitHeld, PTL DEF CacheSpec, StreamInOrder, Stream!Spec

(***************************************************************************)
(* The output side on top of it.  IcacheOutput takes words in address      *)
(* order for granted; the cache provides them, so what is proved of the    *)
(* output side holds of the two together.                                  *)
(***************************************************************************)
\* The address space of the output side.
LEMMA WordsCounted == NUM_LINES * IC_LINE_BEATS \in Nat \ {0}
  <1>1. \A m, n \in Nat \ {0} : m * n \in Nat \ {0}
    OBVIOUS
  <1> QED
    BY <1>1, ParamAssumption

\* The words of memory count on from line to line, and wrap at the end of it.
LEMMA HalfOfNext ==
  ASSUME NEW a \in Addr
  PROVE  /\ HalfOf(a) \in Output!WordAddr /\ HalfOf(a) # Output!NoPc /\ a # NoAddr
         /\ HalfOf(NextAddr(a)) = Output!HalfAfter(HalfOf(a), 2)
  <1> DEFINE B == IC_LINE_BEATS
             N == NUM_LINES * B
             w == a.line * B + a.beat
  <1>1. /\ B \in Nat \ {0, 1} /\ NUM_LINES \in Nat \ {0}
        /\ a.line \in Nat /\ a.line < NUM_LINES /\ a.beat \in Nat /\ a.beat < B
        /\ N \in Nat \ {0}
    BY ParamAssumption, WordsCounted DEF Addr, Line, Beat
  <1>2. \A l, n, b \in Nat : l < n => l * b \in Nat /\ l * b + b <= n * b
    <2> SUFFICES ASSUME NEW l \in Nat, NEW n \in Nat, NEW b \in Nat, l < n
                 PROVE  l * b \in Nat /\ l * b + b <= n * b
      OBVIOUS
    <2>1. PICK d \in Nat : n = l + 1 + d
      <3>1. n - (l + 1) \in Nat /\ n = l + 1 + (n - (l + 1))
        OBVIOUS
      <3> QED
        BY <3>1
    <2>2. n * b = l * b + b + d * b
      BY <2>1
    <2>3. l * b \in Nat /\ d * b \in Nat
      BY <2>1
    <2> QED
      BY <2>2, <2>3
  <1>3. a.line * B \in Nat /\ a.line * B + B <= N
    BY <1>1, <1>2
  <1>4. a # NoAddr /\ NextAddr(a) # NoAddr
    BY NextAddrType DEF NoAddr, Addr, Line, Beat
  <1>5. HalfOf(a) = 2 * w /\ w \in Nat /\ w < N
    <2>1. HalfOf(a) = 2 * w
      BY <1>4 DEF HalfOf
    <2> HIDE DEF N
    <2> QED
      BY <1>1, <1>3, <2>1
  <1>6. HalfOf(NextAddr(a)) = IF w + 1 = N THEN 0 ELSE 2 * (w + 1)
    <2>1. CASE a.beat # B - 1
      <3>1. NextAddr(a).line = a.line /\ NextAddr(a).beat = a.beat + 1
        BY <2>1 DEF NextAddr, Addr
      <3>2. HalfOf(NextAddr(a)) = 2 * (a.line * B + (a.beat + 1))
        BY <1>4, <3>1 DEF HalfOf
      <3> HIDE DEF N
      <3> QED
        BY <1>1, <1>3, <2>1, <3>2
    <2>2. CASE a.beat = B - 1 /\ a.line # NUM_LINES - 1
      <3>1. NextAddr(a).line = a.line + 1 /\ NextAddr(a).beat = 0
        BY <2>2 DEF NextAddr, NextLine
      <3>2. HalfOf(NextAddr(a)) = 2 * ((a.line + 1) * B + 0)
        BY <1>4, <3>1 DEF HalfOf
      <3>3. (a.line + 1) * B = a.line * B + B
        BY <1>1
      <3>4. (a.line + 1) * B + B <= N
        BY <1>1, <1>2, <2>2
      <3> HIDE DEF N
      <3> QED
        BY <1>1, <1>3, <2>2, <3>2, <3>3, <3>4
    <2>3. CASE a.beat = B - 1 /\ a.line = NUM_LINES - 1
      <3>1. NextAddr(a).line = 0 /\ NextAddr(a).beat = 0
        BY <2>3 DEF NextAddr, NextLine
      <3>2. HalfOf(NextAddr(a)) = 2 * (0 * B + 0)
        BY <1>4, <3>1 DEF HalfOf
      <3>3. a.line * B + B = N
        <4>1. \A n \in Nat \ {0} : (n - 1) * B + B = n * B
          BY <1>1
        <4> QED
          BY <1>1, <2>3, <4>1
      <3>4. 0 * B = 0
        BY <1>1
      <3> HIDE DEF N
      <3> QED
        BY <1>1, <1>3, <2>3, <3>2, <3>3, <3>4
    <2> QED
      BY <2>1, <2>2, <2>3
  <1>7. HalfOf(a) \in Output!WordAddr
    BY <1>1, <1>5 DEF Output!WordAddr
  <1>8. Output!HalfAfter(2 * w, 2) = IF w + 1 = N THEN 0 ELSE 2 * (w + 1)
    <2> HIDE DEF N, w
    <2>1. \A m \in Nat \ {0}, n \in Nat : n < m => n % m = n
      OBVIOUS
    <2>2. \A m \in Nat \ {0} : m % m = 0
      OBVIOUS
    <2>3. Output!HalfAfter(2 * w, 2) = (2 * w + 2) % (2 * N)
      BY DEF Output!HalfAfter, N
    <2>4. 2 * N \in Nat \ {0} /\ 2 * w + 2 \in Nat /\ (w + 1 # N => 2 * w + 2 < 2 * N)
      BY <1>1, <1>5
    <2>5. CASE w + 1 = N
      <3>1. 2 * w + 2 = 2 * N
        BY <1>1, <1>5, <2>5
      <3> QED
        BY <2>2, <2>3, <2>4, <2>5, <3>1
    <2>6. CASE w + 1 # N
      <3>1. (2 * w + 2) % (2 * N) = 2 * w + 2
        BY <2>1, <2>4, <2>6
      <3> QED
        BY <1>5, <2>3, <2>6, <3>1
    <2> QED
      BY <2>5, <2>6
  <1> QED
    BY <1>4, <1>5, <1>6, <1>7, <1>8 DEF Output!NoPc

\* The fetch side keeps the promise the output side relies on, and counts its words.
LEMMA CompleteMapsStep ==
  ASSUME LineBufSafe, Versions = {0}, FenceIInv, InvalInv, HitHeld,
         NEW x \in CacheInputs, NEW y \in IfInputs, CompleteStep(x, y)
  PROVE  Output!OutputNext
  <1> DEFINE in  == FillIn(x)
             out == OutputIn(x, y)
  <1>1. /\ HalfOf(x.addr) = IF Output!branch_i(out) THEN y.addr - (y.addr % 2) ELSE Output!NoPc
        /\ x.ready = (data_valid(in) /\ Output!output_ready(out))
        /\ CacheStep(x)
        /\ Output!Env(out) /\ Output!Skid(out) /\ Output!OutputAddr(out) /\ Output!Taken(out)
    BY DEF CompleteStep
  <1>2. in \in AnyInput /\ Edge(in) /\ RamEnv(in) /\ in.addr = x.addr /\ in.ready = x.ready
    BY <1>1, HitsAreLines, FillInFields
  <1>3. /\ out.addr = y.addr /\ out.lo_c = y.lo_c /\ out.hi_c = y.hi_c /\ out.ready = y.ready
        /\ out.word = IF data_valid(in) THEN HalfOf([line |-> output_data(in).line,
                                                     beat |-> output_data(in).beat])
                      ELSE Output!NoPc
        /\ out.err = (data_valid(in) /\ output_err(in))
    BY DEF OutputIn
  <1>4. IInv
    BY DEF IInv, FenceIInv, CacheIInv
  <1>5. ASSUME data_valid(in)
        PROVE  /\ out_addr \in Addr /\ output_err(in) \in BOOLEAN
               /\ [line |-> output_data(in).line, beat |-> output_data(in).beat] = out_addr
    <2>1. /\ out_addr \in Addr
          /\ \E v \in Versions : \E bad \in BOOLEAN :
               /\ output_data(in) = [line |-> out_addr.line, beat |-> out_addr.beat,
                                     ver |-> v, bad |-> bad]
               /\ output_err(in) = bad
      BY <1>2, <1>4, <1>5, WordOnOffer DEF data_valid
    <2> QED
      BY <2>1 DEF Addr
  <1>6. data_valid(in) => out.word = HalfOf(out_addr) /\ out.word \in Output!WordAddr
                          /\ out.word # Output!NoPc
    BY <1>3, <1>5, HalfOfNext
  <1>7. Output!data_valid(out) <=> data_valid(in)
    BY <1>3, <1>6 DEF Output!data_valid
  <1>8. Output!WordInOrder(out)
    BY <1>6, <1>7 DEF Output!WordInOrder
  <1>9. out \in Output!Inputs
    <2>1. out.word \in Output!WordAddr \cup {Output!NoPc} /\ out.err \in BOOLEAN
      BY <1>3, <1>5, <1>6
    <2>2. y.addr \in Output!HalfAddr \cup {Output!NoPc}
          /\ y.lo_c \in BOOLEAN /\ y.hi_c \in BOOLEAN /\ y.ready \in BOOLEAN
      BY DEF IfInputs
    <2>3. out = [addr |-> out.addr, word |-> out.word, err |-> out.err,
                 lo_c |-> out.lo_c, hi_c |-> out.hi_c, ready |-> out.ready]
      BY DEF OutputIn
    <2>4. Output!HalfAddr = 0..(2 * (NUM_LINES * IC_LINE_BEATS) - 1)
      BY DEF Output!HalfAddr
    <2> HIDE DEF out
    <2> QED
      BY <1>3, <2>1, <2>2, <2>3, <2>4 DEF Output!Inputs
  <1>10. branch_i(in) <=> Output!branch_i(out)
    <2>1. x.addr \in Addr \cup {NoAddr}
      BY <1>2, InputTypes
    <2>2. x.addr \in Addr => HalfOf(x.addr) # Output!NoPc
      BY HalfOfNext
    <2>3. HalfOf(NoAddr) = Output!NoPc
      BY DEF HalfOf, Output!NoPc
    <2>4. Output!branch_i(out) => y.addr - (y.addr % 2) # Output!NoPc
      <3>1. y.addr \in 0..(2 * (NUM_LINES * IC_LINE_BEATS) - 1) \cup {Output!NoPc}
        BY DEF IfInputs, Output!HalfAddr
      <3>2. \A h \in Nat : h - (h % 2) # -1
        OBVIOUS
      <3> QED
        BY <1>3, <3>1, <3>2, WordsCounted DEF Output!branch_i, Output!NoPc
    <2> QED
      BY <1>1, <1>2, <2>1, <2>2, <2>3, <2>4 DEF branch_i
  <1>11. Output!Words(out)
    <2>1. out_addr' = IF branch_i(in) THEN in.addr
                      ELSE IF fill_out_grant(in) # {} THEN NextAddr(out_addr) ELSE out_addr
      BY <1>2 DEF Edge, Clock, OutRegs
    <2>2. fill_out_grant(in) # {} <=> Output!data_valid(out) /\ Output!output_ready(out)
      BY <1>1, <1>2, <1>7 DEF fill_out_grant, data_valid
    <2>3. Output!data_valid(out) => out_addr \in Addr
      BY <1>5, <1>7
    <2>4. HalfOf(out_addr)' = HalfOf(out_addr')
      BY DEF HalfOf
    <2>5. CASE Output!branch_i(out)
      BY <1>1, <1>2, <1>3, <1>10, <2>1, <2>4, <2>5 DEF Output!Words
    <2>6. CASE ~Output!branch_i(out)
      BY <1>10, <2>1, <2>2, <2>3, <2>4, <2>6, HalfOfNext DEF Output!Words
    <2> QED
      BY <2>5, <2>6
  <1>12. Output!OutputStep(out)
    BY <1>1, <1>8, <1>11 DEF Output!OutputStep
  <1> QED
    BY <1>9, <1>12 DEF Output!OutputNext

\* Without its output side it is the cache.
LEMMA CompleteIsCache == CompleteSpec => CacheSpec
  <1>1. CompleteInit => CacheInit
    BY DEF CompleteInit
  <1>2. [CompleteNext]_complete_vars => [CacheNext]_cache_vars
    BY DEF CompleteNext, CompleteStep, complete_vars, CacheNext
  <1> QED
    BY <1>1, <1>2, PTL DEF CompleteSpec, CacheSpec

\* The cache keeps what the output side takes for granted: every step of the two
\* together is a step of IcacheOutput.
THEOREM CompleteServes ==
  ASSUME LineBufSafe, Versions = {0}
  PROVE  CompleteSpec => OutputServed
  <1>1. CompleteInit => Output!OutputInit
    BY DEF CompleteInit, CacheInit, Init, Output!OutputInit, HalfOf, Output!NoPc
  <1>2. FenceIInv /\ InvalInv /\ HitHeld /\ [CompleteNext]_complete_vars
           => [Output!OutputNext]_(Output!output_vars)
    <2>1. ASSUME FenceIInv, InvalInv, HitHeld, CompleteNext PROVE Output!OutputNext
      BY <2>1, CompleteMapsStep DEF CompleteNext
    <2>2. UNCHANGED complete_vars => UNCHANGED (Output!output_vars)
      BY DEF complete_vars, cache_vars, vars, Output!output_vars, HalfOf
    <2> QED
      BY <2>1, <2>2
  <1> QED
    BY <1>1, <1>2, CompleteIsCache, WholeHitHeld, PTL
       DEF CompleteSpec, OutputServed, Output!OutputSpec

\* What is proved about the output side holds of this one.  Its definitions are those
\* of IcacheOutput under two names.
OutP == INSTANCE IcacheOutputProofs
            WITH FETCH_WORDS <- NUM_LINES * IC_LINE_BEATS,
                 BranchIn    <- 0..(2 * (NUM_LINES * IC_LINE_BEATS) - 1),
                 ErrIn       <- BOOLEAN,
                 word_addr   <- HalfOf(out_addr)

\* The assumption of IcacheOutput, for this address space.
LEMMA OutputAssumed ==
  /\ NUM_LINES * IC_LINE_BEATS \in Nat \ {0}
  /\ 0..(2 * (NUM_LINES * IC_LINE_BEATS) - 1) \subseteq OutP!HalfAddr
  /\ BOOLEAN \subseteq BOOLEAN
  BY WordsCounted DEF OutP!HalfAddr

LEMMA SameSpec == Output!OutputSpec => OutP!OutputSpec
  BY DEF
    Output!OutputSpec, OutP!OutputSpec, Output!HalfAddr, OutP!HalfAddr, Output!WordAddr,
    OutP!WordAddr, Output!NoPc, OutP!NoPc, Output!NoHalf, OutP!NoHalf, Output!Nothing,
    OutP!Nothing, Output!HalfAfter, OutP!HalfAfter, Output!NextHalf, OutP!NextHalf,
    Output!Unaligned, OutP!Unaligned, Output!branch_i, OutP!branch_i, Output!data_valid,
    OutP!data_valid, Output!output_lo, OutP!output_lo, Output!output_hi, OutP!output_hi,
    Output!output_err, OutP!output_err, Output!skid_complete_instr, OutP!skid_complete_instr,
    Output!rdata_lo, OutP!rdata_lo, Output!rdata_hi, OutP!rdata_hi, Output!output_compressed,
    OutP!output_compressed, Output!skid_ready, OutP!skid_ready, Output!output_ready,
    OutP!output_ready, Output!valid_o, OutP!valid_o, Output!err_o, OutP!err_o,
    Output!err_plus2_o, OutP!err_plus2_o, Output!addr_incr_two, OutP!addr_incr_two,
    Output!skid_valid_d, OutP!skid_valid_d, Output!skid_en, OutP!skid_en, Output!OutputInit,
    OutP!OutputInit, Output!Skid, OutP!Skid, Output!OutputAddr, OutP!OutputAddr, Output!Words,
    OutP!Words, Output!Taken, OutP!Taken, Output!Inputs, OutP!Inputs, Output!Env, OutP!Env,
    Output!WordInOrder, OutP!WordInOrder, Output!OutputStep, OutP!OutputStep, Output!OutputNext,
    OutP!OutputNext, Output!output_vars, OutP!output_vars

LEMMA SameStream == OutP!InstrsInOrder => Output!InstrsInOrder
  BY DEF
    Output!InstrsInOrder, OutP!InstrsInOrder, Output!Stream!Spec, OutP!Stream!Spec,
    Output!Stream!Init, OutP!Stream!Init, Output!Stream!Next, OutP!Stream!Next,
    Output!Stream!Idle, OutP!Stream!Idle, Output!Stream!Take, OutP!Stream!Take,
    Output!Stream!PcAfter, OutP!Stream!PcAfter, Output!Stream!IsInstrAt, OutP!Stream!IsInstrAt,
    Output!Lost, OutP!Lost, Output!HalfAddr, OutP!HalfAddr, Output!NoPc, OutP!NoPc,
    Output!NoHalf, OutP!NoHalf, Output!Nothing, OutP!Nothing, Output!HalfAfter, OutP!HalfAfter,
    Output!NextHalf, OutP!NextHalf

LEMMA SameInv == OutP!OutputInv => Output!OutputInv
  BY DEF
    Output!OutputInv, OutP!OutputInv, Output!NeverStuck, OutP!NeverStuck,
    Output!SkidMatchesAddress, OutP!SkidMatchesAddress, Output!Inputs, OutP!Inputs,
    Output!HalfAddr, OutP!HalfAddr, Output!WordAddr, OutP!WordAddr, Output!NoPc, OutP!NoPc,
    Output!NoHalf, OutP!NoHalf, Output!HalfAfter, OutP!HalfAfter, Output!NextHalf,
    OutP!NextHalf, Output!Unaligned, OutP!Unaligned, Output!data_valid, OutP!data_valid,
    Output!WordInOrder, OutP!WordInOrder, Output!output_lo, OutP!output_lo, Output!output_hi,
    OutP!output_hi, Output!output_err, OutP!output_err, Output!skid_complete_instr,
    OutP!skid_complete_instr, Output!rdata_lo, OutP!rdata_lo, Output!output_compressed,
    OutP!output_compressed, Output!skid_ready, OutP!skid_ready, Output!output_ready,
    OutP!output_ready, Output!valid_o, OutP!valid_o

\* For any number of fill buffers, lines, sets and beats, and memory that does not change,
\* the cache hands over whole instructions, in order from the latest branch target on and
\* with their own errors, whichever of their words were in the cache.
THEOREM CompleteDelivers ==
  ASSUME LineBufSafe, Versions = {0}
  PROVE  CompleteSpec => WholeStream
  <1>1. OutP!OutputSpec => OutP!InstrsInOrder
    BY OutputAssumed, OutP!OutputStream
  <1> QED
    BY <1>1, CompleteServes, SameSpec, SameStream DEF OutputServed, WholeStream

\* The fill buffers and the output address agree about the next word, and neither side
\* waits for the other.
THEOREM CompleteAgrees ==
  ASSUME LineBufSafe, Versions = {0}
  PROVE  CompleteSpec => []SidesAgree
  <1>1. OutP!OutputSpec => []OutP!OutputInv
    BY OutputAssumed, OutP!OutputCorrect
  <1> QED
    BY <1>1, CompleteServes, SameSpec, SameInv, PTL DEF OutputServed, SidesAgree
=============================================================================
