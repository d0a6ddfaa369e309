------------------------------- MODULE Icache -------------------------------
(***************************************************************************)
(* The instruction cache as a whole: the fetch side (IcacheFill) and the   *)
(* invalidation state machine (IcacheInval) around the tag and data RAMs,  *)
(* with way selection, ECC correction, the optional line buffer, and a     *)
(* memory whose contents software changes.                                 *)
(*                                                                         *)
(* Way w, set s of the RAMs is ram[w][s]: the line the tag names and the   *)
(* data stored with it, or NoEntry while the valid bit of the tag is 0.    *)
(* Since the RAMs are single-ported, what a lookup reads in IC0 is still   *)
(* there in IC1, and the model reads it there.                             *)
(***************************************************************************)
EXTENDS IcacheFill, IcacheInval

CONSTANTS
    ICachePLRU,         \* replacement: PLRU, or round robin
    ICacheLineBuffer,   \* a parameter of baseline and opt2; opt1 has a line buffer
    InvalReq,           \* values icache_inval_i takes in a run
    EccEvents,          \* subset of {"none", "tag", "data"}
    AnswerIn            \* values scramble_key_valid_i takes in a run

ASSUME CacheAssumption ==
    /\ Variant \in {"baseline", "opt1", "opt2"}
    /\ Variant = "opt2" => EccEvents = {"none"}
    /\ {ICachePLRU, ICacheLineBuffer} \subseteq BOOLEAN
    /\ InvalReq \subseteq BOOLEAN /\ AnswerIn \subseteq BOOLEAN
    /\ EccEvents \subseteq {"none", "tag", "data"}
    /\ 0 \in Versions

Way        == {0, 1}        \* icache_plru_2way_only
UnknownWay == -1            \* a register that was never written for this buffer
IndexOf(l) == l % NUM_SETS
NoEntry    == [line |-> -1, data |-> NoLine]
NoBuf      == [line |-> -1, ways |-> {}, data |-> NoLine]

VARIABLES
    ram,
    round_robin_way_q, plru_mru_way_q,
    fill_way_q, fill_evict_q,
    ecc_ways_q, ecc_index_q,
    line_buf_valid_q, line_buf_q, line_buf_hit_ic1, branch_ic1,
    mem_ver,        \* version of the memory contents
    fence_q,        \* version at the latest invalidation request
    floor_q         \* that version when the current stream was branched to

ram_vars   == <<ram, round_robin_way_q, plru_mru_way_q, fill_way_q, fill_evict_q,
                ecc_ways_q, ecc_index_q, line_buf_valid_q, line_buf_q,
                line_buf_hit_ic1, branch_ic1>>
mem_vars   == <<mem_ver, fence_q, floor_q>>
cache_vars == <<vars, inval_vars, ram_vars, mem_vars>>

(***************************************************************************)
(* IC1: tags, hit data, ECC, and the way an allocation will use.           *)
(***************************************************************************)
set_ic1       == IndexOf(lookup_line_ic1)
tag_match_raw == {w \in Way : ram[w][set_ic1].line = lookup_line_ic1}
tag_match_ic1 == IF line_buf_hit_ic1 THEN line_buf_q.ways ELSE tag_match_raw
tag_invalid   == {w \in Way : ram[w][set_ic1] = NoEntry}

\* The matching ways are ORed: equal data stays, unequal data is garbled.
hit_data_ic1 ==
    IF line_buf_hit_ic1 THEN line_buf_q.data
    ELSE [b \in Beat |->
            LET read == {ram[w][set_ic1].data[b] : w \in tag_match_raw}
            IN  IF Cardinality(read) = 1 THEN CHOOSE d \in read : TRUE ELSE Garbled]

\* opt1 does not read the tags on a line buffer hit, so it cannot look at them.
tags_seen == ~(line_buf_hit_ic1 /\ Variant = "opt1")

\* Data ECC is looked at on a hit only; opt1 does not check buffered data.
ecc_err_ic1(x) ==
    /\ lookup_valid_ic1
    /\ \/ x.ecc = "tag" /\ ~line_buf_hit_ic1
       \/ x.ecc = "data" /\ tag_match_ic1 # {} /\ tags_seen

repl_way == IF ICachePLRU THEN 1 - plru_mru_way_q[set_ic1] ELSE round_robin_way_q
sel_way  == IF tag_invalid # {} /\ tags_seen
            THEN CHOOSE w \in tag_invalid : \A v \in tag_invalid : w <= v
            ELSE repl_way

(***************************************************************************)
(* The line buffer in IC0, and the inputs the fetch side sees.             *)
(***************************************************************************)
line_buf_hit_ic0(in) ==
    /\ line_buf_valid_q
    /\ line_buf_q.line = lookup_addr_ic0(in).line
    /\ lookup_req_ic0(in)
    /\ Variant = "opt1" => in.enable /\ ~inval_block_cache(in)

fill_inputs(x) ==
    [req |-> x.req, addr |-> x.addr, enable |-> x.enable,
     inval |-> CASE sweeping -> IF x.inval THEN "restart" ELSE "write"
                 [] ~sweeping /\ x.inval -> "request"
                 [] OTHER -> IF inval_active THEN "wait" ELSE "idle",
     line_buf |-> FALSE,
     hit |-> IF lookup_valid_ic1 /\ tag_match_ic1 # {} THEN hit_data_ic1 ELSE NoLine,
     ecc |-> CASE ~ecc_err_ic1(x) -> "none"
               [] ecc_err_ic1(x) /\ line_buf_hit_ic1 -> "line_buf" [] OTHER -> "ram",
     gnt |-> x.gnt, ver |-> mem_ver, rvalid |-> x.rvalid, err |-> x.err,
     ready |-> x.ready]

\* Whether the line buffer hits depends on every other input.
FillIn(x) == [fill_inputs(x) EXCEPT !.line_buf = line_buf_hit_ic0(fill_inputs(x))]

\* The line buffer is emptied by whatever may make it stale ...
line_buf_inval(in) ==
    \/ icache_inval_i(in) \/ ~in.enable
    \/ Variant = "baseline" /\ in.ecc = "line_buf"
    \/ Variant = "opt2" /\ \E i \in fill_ram_arb(in) : fill_addr_q[i].line = line_buf_q.line
    \/ /\ Variant = "opt1"
       /\ \/ branch_i(in) \/ fill_grant_ic0(in) \/ inval_write_req(in) \/ ecc_write_req
          \/ ic_scr_key_req(icache_inval_i(in))
          \/ lookup_valid_ic1 /\ (~tag_hit_ic1(in) \/ in.ecc # "none")

\* ... and filled from a hit in IC1: in the baseline of a branch only, and in
\* the baseline and in opt2 not from itself.
line_buf_capture(in) ==
    /\ lookup_valid_ic1 /\ tag_hit_ic1(in) /\ in.ecc = "none"
    /\ IF Variant = "opt1" THEN ~line_buf_inval(in)
       ELSE ICacheLineBuffer /\ ~line_buf_hit_ic1 /\ (Variant = "baseline" => branch_ic1)

(***************************************************************************)
(* Registers.                                                              *)
(***************************************************************************)
CacheInit ==
    /\ Init /\ InvalInit
    /\ ram = [w \in Way |-> [s \in Index |-> NoEntry]]
    /\ round_robin_way_q = 0 /\ plru_mru_way_q = [s \in Index |-> 0]
    /\ fill_way_q = [i \in FB |-> UnknownWay] /\ fill_evict_q = {}
    /\ ecc_ways_q = {} /\ ecc_index_q = 0
    /\ line_buf_valid_q = FALSE /\ line_buf_q = NoBuf
    /\ line_buf_hit_ic1 = FALSE /\ branch_ic1 = FALSE
    /\ mem_ver = 0 /\ fence_q = 0 /\ floor_q = 0

\* The one-hot way of a buffer that was never looked up is that of an earlier
\* line, or all zeros.
WriteWays == {{}, {0}, {1}}

\* Mutant: the sweep writes one way only.
RamWrite_OneWay(in) ==
    CASE sweeping -> ram' = [ram EXCEPT ![0][inval_index_q] = NoEntry]
      [] ~sweeping /\ ecc_write_req ->
           ram' = [w \in Way |-> IF w \in ecc_ways_q
                                 THEN [ram[w] EXCEPT ![ecc_index_q] = NoEntry] ELSE ram[w]]
      [] ~sweeping /\ ~ecc_write_req /\ fill_ram_arb(in) # {} ->
           \E i \in fill_ram_arb(in), ways \in WriteWays :
              /\ fill_way_q[i] # UnknownWay => ways = {fill_way_q[i]}
              /\ ram' = [w \in Way |->
                    IF w \in ways
                    THEN [ram[w] EXCEPT ![IndexOf(fill_addr_q[i].line)] =
                             [line |-> fill_addr_q[i].line, data |-> fill_data_q[i]]]
                    ELSE ram[w]]
      [] OTHER -> ram' = ram
\* Mutant: the tag written is that of the lookup in IC1.
RamWrite_WrongTag(in) ==
    CASE sweeping ->
           ram' = [w \in Way |->
                     IF ecc_write_req => w \in ecc_ways_q
                     THEN [ram[w] EXCEPT ![inval_index_q] = NoEntry] ELSE ram[w]]
      [] ~sweeping /\ ecc_write_req ->
           ram' = [w \in Way |-> IF w \in ecc_ways_q
                                 THEN [ram[w] EXCEPT ![ecc_index_q] = NoEntry] ELSE ram[w]]
      [] ~sweeping /\ ~ecc_write_req /\ fill_ram_arb(in) # {} ->
           \E i \in fill_ram_arb(in), ways \in WriteWays :
              /\ fill_way_q[i] # UnknownWay => ways = {fill_way_q[i]}
              /\ ram' = [w \in Way |->
                    IF w \in ways
                    THEN [ram[w] EXCEPT ![IndexOf(fill_addr_q[i].line)] =
                             [line |-> lookup_line_ic1, data |-> fill_data_q[i]]]
                    ELSE ram[w]]
      [] OTHER -> ram' = ram

\* One port: a sweep, an ECC correction, or the allocation of a fill buffer.
\* The banks of a sweep give way to those of an ECC correction.
RamWrite(in) ==
    CASE sweeping ->
           ram' = [w \in Way |->
                     IF ecc_write_req => w \in ecc_ways_q
                     THEN [ram[w] EXCEPT ![inval_index_q] = NoEntry] ELSE ram[w]]
      [] ~sweeping /\ ecc_write_req ->
           ram' = [w \in Way |-> IF w \in ecc_ways_q
                                 THEN [ram[w] EXCEPT ![ecc_index_q] = NoEntry] ELSE ram[w]]
      [] ~sweeping /\ ~ecc_write_req /\ fill_ram_arb(in) # {} ->
           \E i \in fill_ram_arb(in), ways \in WriteWays :
              /\ fill_way_q[i] # UnknownWay => ways = {fill_way_q[i]}
              /\ ram' = [w \in Way |->
                    IF w \in ways
                    THEN [ram[w] EXCEPT ![IndexOf(fill_addr_q[i].line)] =
                             [line |-> fill_addr_q[i].line, data |-> fill_data_q[i]]]
                    ELSE ram[w]]
      [] OTHER -> ram' = ram

\* Only the register of the policy in use is ever read; the other one is left.
Replacement(in) ==
    /\ round_robin_way_q' = IF lookup_valid_ic1 /\ ~ICachePLRU
                            THEN 1 - round_robin_way_q ELSE round_robin_way_q
    /\ plru_mru_way_q' =
          IF lookup_valid_ic1 /\ ICachePLRU
          THEN [plru_mru_way_q EXCEPT ![set_ic1] =
                   IF tag_match_ic1 # {} THEN (IF 1 \in tag_match_ic1 THEN 1 ELSE 0) ELSE sel_way]
          ELSE plru_mru_way_q

WayRegs(in) ==
    LET chosen == IF lookup_valid_ic1 THEN fill_in_ic1 ELSE {}
    IN  /\ fill_way_q' = [i \in FB |->
               IF i \notin fill_busy_d(in) THEN UnknownWay
               ELSE IF i \in chosen THEN sel_way ELSE fill_way_q[i]]
        /\ fill_evict_q' = {i \in chosen \cap fill_busy_d(in) : tag_invalid = {} /\ tags_seen}

EccRegs(in, x) ==
    LET ecc_err == in.ecc = "ram"
    IN  /\ ecc_ways_q' = IF ~ecc_err THEN {} ELSE IF x.ecc = "tag" THEN Way ELSE tag_match_ic1
        /\ ecc_index_q' = IF ecc_err THEN set_ic1 ELSE 0

\* The contents outlive their valid bit for the lookup that hit them in IC0.
LineBufRegs(in) ==
    LET valid == ~line_buf_inval(in) /\ (line_buf_capture(in) \/ line_buf_valid_q)
        hit   == in.line_buf /\ lookup_actual_ic0(in)
    IN  /\ line_buf_valid_q' = valid
        /\ line_buf_q' =
              CASE ~valid /\ ~hit -> NoBuf
                [] (valid \/ hit) /\ line_buf_capture(in) ->
                     [line |-> lookup_line_ic1, ways |-> tag_match_ic1, data |-> in.hit]
                [] OTHER -> line_buf_q
        /\ line_buf_hit_ic1' = hit
        /\ branch_ic1' = (ICacheLineBuffer /\ branch_i(in) /\ lookup_actual_ic0(in))

\* Software changes memory at any time; a FENCE.I pulses icache_inval_i and
\* branches, in the same cycle or later.
Memory(x) ==
    /\ mem_ver' \in {mem_ver, mem_ver + 1} \cap Versions
    /\ fence_q' = IF x.inval THEN mem_ver ELSE fence_q
    /\ floor_q' = IF x.addr = NoAddr THEN floor_q ELSE IF x.inval THEN mem_ver ELSE fence_q

CacheInputs ==
    {x \in [req : ReqIn, addr : BranchIn \cup {NoAddr}, enable : EnableIn,
           inval : InvalReq, answer : AnswerIn, ecc : EccEvents,
           gnt : BOOLEAN, rvalid : BOOLEAN, err : ErrIn, ready : BOOLEAN] :
        x.err => x.rvalid}

\* An ECC event without a lookup to hit on is none.
CacheStep(x) ==
    LET in == FillIn(x)
    IN  /\ x.ecc # "none" => ecc_err_ic1(x)
        /\ Env(in) /\ Clock(in)
        /\ InvalStep(x.inval, x.answer)
        /\ RamWrite(in) /\ Replacement(in) /\ WayRegs(in)
        /\ EccRegs(in, x) /\ LineBufRegs(in)
        /\ Memory(x)

CacheNext == \E x \in CacheInputs : CacheStep(x)
CacheSpec == CacheInit /\ [][CacheNext]_cache_vars

-----------------------------------------------------------------------------
(***************************************************************************)
(* Properties.                                                             *)
(***************************************************************************)
Entry == [line : Line, data : [Beat -> Data]]

\* The RAM contents, the replacement state and the registers around them have
\* their widths.
CacheTypeOK ==
    /\ ram \in [Way -> [Index -> Entry \cup {NoEntry}]]
    /\ round_robin_way_q \in Way /\ plru_mru_way_q \in [Index -> Way]
    /\ fill_way_q \in [FB -> Way \cup {UnknownWay}] /\ fill_evict_q \in SUBSET FB
    /\ ecc_ways_q \in SUBSET Way /\ ecc_index_q \in Index
    /\ line_buf_q.line \in Line \cup {-1} /\ line_buf_q.ways \in SUBSET Way
    /\ line_buf_valid_q \in BOOLEAN /\ line_buf_hit_ic1 \in BOOLEAN /\ branch_ic1 \in BOOLEAN
    /\ {mem_ver, fence_q, floor_q} \subseteq Versions

\* A lookup that hits finds the whole of the line it asked for, free of bus
\* errors; and, as long as software has not changed memory since it last
\* invalidated the cache, contents no older than that invalidation, also when
\* both ways hold the line.
HitServesItsLine ==
    lookup_valid_ic1 /\ tag_match_ic1 # {} /\ mem_ver = fence_q =>
        hit_data_ic1 = [b \in Beat |-> [line |-> lookup_line_ic1, beat |-> b,
                                        ver |-> fence_q, bad |-> FALSE]]

\* Every valid tag, of whichever set and way, has its own line's data.
RamHoldsItsLines ==
    \A w \in Way, s \in Index :
        ram[w][s] # NoEntry =>
            /\ IndexOf(ram[w][s].line) = s
            /\ \A b \in Beat : /\ ram[w][s].data[b].line = ram[w][s].line
                              /\ ram[w][s].data[b].beat = b
                              /\ ~ram[w][s].data[b].bad

\* The cache is off until the sweep has emptied it: when lookups start again no
\* line of before the request is left in the RAM, in the line buffer or in a
\* fill buffer that will still write it.
FencedCache ==
    ~inval_active /\ mem_ver = fence_q =>
        /\ \A w \in Way, s \in Index, b \in Beat :
               ram[w][s] = NoEntry \/ ram[w][s].data[b].ver = fence_q
        /\ \A b \in Beat : line_buf_valid_q => line_buf_q.data[b].ver = fence_q
        /\ \A i \in fill_ram_req, b \in Beat : fill_data_q[i][b].ver = fence_q

\* FENCE.I works: a word of a stream branched to at or after the invalidation
\* is the word software last wrote there, unless the bus reports an error.
FencedFetch ==
    [][fetched' # Nothing /\ mem_ver = floor_q /\ ~fetched'.err =>
          fetched'.data = [line |-> out_addr.line, beat |-> out_addr.beat,
                           ver |-> floor_q, bad |-> FALSE]]_cache_vars

\* A line is written to a way its own lookup chose.
AllocWayKnown == \A i \in fill_ram_req : fill_way_q[i] # UnknownWay

\* Tags, data and the ways of the fill buffers stay together.
CacheInv == CacheTypeOK /\ RamHoldsItsLines /\ AllocWayKnown

(***************************************************************************)
(* The inductive invariant behind CacheInv.                                *)
(***************************************************************************)
\* A buffer that may write the RAM has its way, or gets it from the lookup that
\* is in IC1 and has received nothing yet.
WayChosen ==
    /\ fill_cache_q \subseteq fill_busy_q
    /\ \A i \in fill_cache_q :
          \/ fill_way_q[i] # UnknownWay
          \/ lookup_valid_ic1 /\ i \in fill_in_ic1 /\ fill_rvd_cnt_q[i] = 0

LineBufTyped == line_buf_q.data \in [Beat -> Contents]

CacheIInv == FetchInv /\ CacheTypeOK /\ LineBufTyped /\ RamHoldsItsLines /\ WayChosen

(***************************************************************************)
(* The inductive invariant behind FencedCache, HitServesItsLine and        *)
(* FencedFetch, without a line buffer or with that of opt1.                *)
(***************************************************************************)
\* The cache is looked up only while it is in use, and no ECC correction gets
\* in the way of a sweep.
LookupsInUse ==
    /\ lookup_valid_ic1 => ~inval_active
    /\ ecc_write_req => ~sweeping

\* The line buffer of opt1 holds the line before the one that is looked up, or that
\* will be.  So it is a branch that hits it, which also empties it: what such a
\* lookup reads in IC1 is not overwritten in between.
LineBufPlace ==
    /\ lookup_valid_ic1 => prefetch_addr_q.line = NextLine(lookup_line_ic1)
    /\ line_buf_valid_q =>
          /\ Variant = "opt1" /\ ~inval_active
          /\ line_buf_q.line \in Line
          /\ NextLine(line_buf_q.line) = IF lookup_valid_ic1 THEN lookup_line_ic1
                                                              ELSE prefetch_addr_q.line
    /\ line_buf_hit_ic1 =>
          /\ Variant = "opt1" /\ ~line_buf_valid_q
          /\ lookup_valid_ic1 /\ line_buf_q.line = lookup_line_ic1

\* What the buffer received, and what the bus still owes it, is of version v.
WordsOf(i, v) ==
    /\ \A k \in DOMAIN bus_q : bus_q[k].owner = {i} => bus_q[k].ver = v
    /\ i \notin fill_hit_q =>
           \A b \in Beat : Received(i, b) => fill_data_q[i][b].ver = v
HitOf(i, v) ==
    i \in fill_hit_q =>
        \A b \in Beat : fill_data_q[i][b] =
            [line |-> fill_addr_q[i].line, beat |-> b, ver |-> v, bad |-> FALSE]

\* While memory is as it was at the latest invalidation request, so are the
\* line in the line buffer, the sets swept since then and what may still be written
\* to the RAM; and while it is as it was for the current stream, so are the words
\* that stream will get.
LineBufFenced ==
    (line_buf_valid_q \/ line_buf_hit_ic1) /\ mem_ver = fence_q =>
        line_buf_q.data = [b \in Beat |-> [line |-> line_buf_q.line, beat |-> b,
                                          ver |-> fence_q, bad |-> FALSE]]
Fenced ==
    mem_ver = fence_q =>
        /\ \A s \in clean_q, w \in Way :
               ram[w][s] = NoEntry \/ \A b \in Beat : ram[w][s].data[b].ver = fence_q
        /\ \A i \in fill_cache_q : WordsOf(i, fence_q)
Floored ==
    mem_ver = floor_q =>
        \A i \in fill_busy_q \ fill_stale_q : WordsOf(i, floor_q) /\ HitOf(i, floor_q)

FenceIInv ==
    /\ CacheIInv /\ LookupsInUse /\ LineBufPlace /\ LineBufFenced
    /\ floor_q <= fence_q /\ fence_q <= mem_ver
    /\ Fenced /\ Floored
=============================================================================
