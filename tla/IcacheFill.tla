----------------------------- MODULE IcacheFill -----------------------------
(***************************************************************************)
(* The fetch side of ibex_icache.sv: the prefetch address, the IC0/IC1     *)
(* lookup pipeline, the fill buffers with their age-based arbiters, the    *)
(* instruction bus they share and the word stream they feed to the IF      *)
(* stage.  One step is one rising clock edge.                              *)
(*                                                                         *)
(* A signal of the RTL is an operator of the same name; it takes the       *)
(* record "in" of this cycle's inputs when it depends on them.  A packed   *)
(* bit vector with one bit per fill buffer is the set of the buffers whose *)
(* bit is 1.  An address is a (line, beat) pair, and the data stored at an *)
(* address is that address, so "the right data" can be told from any       *)
(* other; "bad" marks data that came with a bus error.                     *)
(*                                                                         *)
(* The tag and data RAMs are outside this module: whether a lookup hits    *)
(* and whether ECC objects are inputs, and hit data is the line's data.    *)
(***************************************************************************)
EXTENDS Integers, Sequences, FiniteSets

CONSTANTS
    NUM_FB,         \* fill buffers (4 in the RTL)
    IC_LINE_BEATS,  \* bus beats per cache line (2 in the RTL)
    NUM_LINES,      \* lines of the modelled address space
    FB_THRESHOLD,   \* NUM_FB - 2; NUM_FB - 3 in opt4_fb_threshold.sv
    Variant,        \* which of the variants in optimizations/
    Versions,       \* versions of the memory contents
    \* The values the inputs of these names take in a run.
    ReqIn, EnableIn, ErrIn, LineBufIn,
    EccIn,          \* subset of {"none", "ram", "line_buf"}
    InvalIn,        \* subset of InvalModes
    BranchIn,       \* branch targets
    HitIn           \* lines of data a lookup may find, and NoLine

FB     == 0..(NUM_FB - 1)
Line   == 0..(NUM_LINES - 1)
Beat   == 0..(IC_LINE_BEATS - 1)
Count  == 0..IC_LINE_BEATS
Addr   == [line : Line, beat : Beat]
NoAddr == [line |-> -1, beat |-> 0]     \* no branch seen yet
Data   == [line : Line, beat : Beat, ver : Versions, bad : BOOLEAN]
NoData == [line |-> -1, beat |-> 0, ver |-> 0, bad |-> FALSE]
NoLine == [b \in Beat |-> NoData]
Nothing == [data |-> NoData, err |-> FALSE]
Garbled  == [NoData EXCEPT !.bad = TRUE]    \* two unequal words read at once
Contents == Data \cup {NoData, Garbled}

\* No invalidation; a request; a key awaited; a tag written; and a request
\* while a tag is written.
InvalModes == {"idle", "request", "wait", "write", "restart"}

NextLine(l) == IF l = NUM_LINES - 1 THEN 0 ELSE l + 1
NextAddr(a) == IF a.beat = IC_LINE_BEATS - 1
               THEN [line |-> NextLine(a.line), beat |-> 0]
               ELSE [a EXCEPT !.beat = @ + 1]

ASSUME ParamAssumption ==
    /\ NUM_FB \in Nat \ {0}
    /\ IC_LINE_BEATS \in Nat \ {0, 1}
    /\ NUM_LINES \in Nat \ {0}
    /\ FB_THRESHOLD \in Nat
    /\ Variant \in {"baseline", "opt1", "opt2", "opt3"}
    /\ Versions \subseteq Nat

ASSUME InputAssumption ==
    /\ \A values \in {ReqIn, EnableIn, ErrIn, LineBufIn} : values \subseteq BOOLEAN
    /\ EccIn \subseteq {"none", "ram", "line_buf"}
    /\ InvalIn \subseteq InvalModes
    /\ BranchIn \subseteq Addr
    /\ HitIn \subseteq [Beat -> Data] \cup {NoLine}

VARIABLES
    prefetch_addr_q,
    lookup_valid_ic1, lookup_line_ic1, fill_in_ic1, ecc_write_req,
    fill_busy_q, fill_older_q, fill_stale_q, fill_cache_q, fill_hit_q,
    fill_ext_cnt_q, fill_ext_hold_q, fill_ext_done_q, fill_rvd_cnt_q,
    fill_ram_done_q, fill_out_cnt_q, fill_addr_q, fill_err_q, fill_data_q,
    out_addr,       \* next word of the output stream (output_addr_q plus skid)
    fetched,        \* what the IF stage took at the last edge
    bus_wait,       \* request the bus has seen and not granted, or NoAddr
    bus_q           \* granted requests whose response is outstanding

lookup_vars == <<prefetch_addr_q, lookup_valid_ic1, lookup_line_ic1,
                 fill_in_ic1, ecc_write_req>>
age_vars    == <<fill_busy_q, fill_older_q>>
fill_vars   == <<fill_stale_q, fill_cache_q, fill_hit_q, fill_ext_cnt_q,
                 fill_ext_hold_q, fill_ext_done_q, fill_rvd_cnt_q,
                 fill_ram_done_q, fill_out_cnt_q, fill_addr_q, fill_err_q,
                 fill_data_q>>
vars == <<lookup_vars, age_vars, fill_vars, out_addr, fetched, bus_wait, bus_q>>

(***************************************************************************)
(* Arbitration by age.                                                     *)
(***************************************************************************)
\* The members of a set of requesters that no older requester precedes.
Oldest(requests) == {i \in requests : requests \cap fill_older_q[i] = {}}

(***************************************************************************)
(* Inputs, and the result of the lookup in IC1.                            *)
(***************************************************************************)
branch_i(in)          == in.addr # NoAddr
inval_block_cache(in) == in.inval # "idle"
inval_write_req(in)   == in.inval \in {"write", "restart"}
icache_inval_i(in)    == in.inval \in {"request", "restart"}

tag_hit_ic1(in) == in.hit # NoLine

fill_hit_ic1(in) ==
    IF lookup_valid_ic1 /\ tag_hit_ic1(in) /\ in.ecc = "none" THEN fill_in_ic1 ELSE {}

(***************************************************************************)
(* Fill buffers: external requests and their responses.                    *)
(***************************************************************************)
fill_ext_beat(i) == fill_addr_q[i].beat + fill_ext_cnt_q[i]
fill_ext_off(i)  == fill_ext_beat(i) % IC_LINE_BEATS
fill_rvd_beat(i) == fill_addr_q[i].beat + fill_rvd_cnt_q[i]
fill_rvd_off(i)  == fill_rvd_beat(i) % IC_LINE_BEATS

\* Mutant: a request on the bus is dropped when the lookup hits.
fill_ext_done_d_Drops(in) ==
    {i \in fill_busy_q :
        \/ fill_ext_cnt_q[i] = IC_LINE_BEATS
        \/ i \in fill_hit_ic1(in) \cup fill_hit_q
        \/ /\ i \notin fill_cache_q
           /\ branch_i(in) \/ i \in fill_stale_q \/ fill_ext_beat(i) >= IC_LINE_BEATS}
fill_ext_done_d(in) ==
    {i \in fill_busy_q \ fill_ext_hold_q :
        \/ fill_ext_cnt_q[i] = IC_LINE_BEATS
        \/ i \in fill_hit_ic1(in) \cup fill_hit_q
        \/ /\ i \notin fill_cache_q
           /\ branch_i(in) \/ i \in fill_stale_q \/ fill_ext_beat(i) >= IC_LINE_BEATS}
fill_ext_req(in) == fill_busy_q \ fill_ext_done_d(in)
\* Mutant: the lowest buffer asks first, not the oldest.
fill_ext_arb_Lowest(in) ==
    {i \in fill_ext_req(in) : \A j \in fill_ext_req(in) : i <= j}
fill_ext_arb(in) == Oldest(fill_ext_req(in))

fill_rvd_done == {i \in fill_ext_done_q \ fill_ext_hold_q :
                     fill_rvd_cnt_q[i] = fill_ext_cnt_q[i]}
fill_rvd_exp  == fill_busy_q \ fill_rvd_done
fill_rvd_arb(in) == IF in.rvalid THEN Oldest(fill_rvd_exp) ELSE {}

instr_rdata(in) == [line |-> Head(bus_q).addr.line, beat |-> Head(bus_q).addr.beat,
                    ver |-> Head(bus_q).ver, bad |-> in.err]

(***************************************************************************)
(* Fill buffers: output to the IF stage.                                   *)
(***************************************************************************)
fill_out_done == {i \in fill_busy_q : fill_out_cnt_q[i] = IC_LINE_BEATS}
fill_err_any  == {i \in fill_busy_q : fill_err_q[i] # {}}
out_waiting   == (fill_busy_q \ fill_stale_q) \ fill_out_done
fill_data_sel == {i \in FB : fill_older_q[i] \cap out_waiting = {}}

fill_out_req(in) ==
    {i \in out_waiting : \/ i \in fill_hit_ic1(in) \cup fill_hit_q \cup fill_rvd_arb(in)
                         \/ fill_rvd_beat(i) > fill_out_cnt_q[i]}
fill_out_arb(in)   == fill_out_req(in) \cap fill_data_sel
fill_out_grant(in) == IF in.ready THEN fill_out_arb(in) ELSE {}

fill_data_reg == {i \in out_waiting \cap fill_data_sel :
                     \/ fill_rvd_beat(i) > fill_out_cnt_q[i]
                     \/ i \in fill_hit_q \cup fill_err_any}
fill_data_hit(in) == fill_hit_ic1(in) \cap fill_data_sel
fill_data_rvd(in) ==
    {i \in fill_rvd_arb(in) \cap out_waiting \cap fill_data_sel :
        /\ i \notin fill_hit_q \cup fill_hit_ic1(in)
        /\ fill_rvd_beat(i) = fill_out_cnt_q[i]}

data_valid(in) == fill_out_arb(in) # {}

\* The three sources are ORed together, so two of them at once give garbage.
output_data(in) ==
    CASE fill_data_rvd(in) # {} -> instr_rdata(in)
      [] fill_data_rvd(in) = {} /\ fill_data_hit(in) # {} ->
            in.hit[out_addr.beat]
      [] OTHER -> IF \E i \in FB : fill_data_reg = {i}
                  THEN fill_data_q[CHOOSE i \in fill_data_reg : TRUE][out_addr.beat]
                  ELSE NoData
output_err(in) ==
    CASE fill_data_rvd(in) # {} -> in.err
      [] fill_data_rvd(in) = {} /\ fill_data_hit(in) # {} -> FALSE
      [] OTHER -> \E i \in fill_data_reg \ fill_hit_q : out_addr.beat \in fill_err_q[i]

(***************************************************************************)
(* IC0: the next lookup, and the buffer it allocates.                      *)
(***************************************************************************)
fb_fill_level   == Cardinality(fill_busy_q \ fill_stale_q)
\* Mutant: throttles at the threshold instead of above it.
lookup_throttle_AtLimit == fb_fill_level >= FB_THRESHOLD
lookup_throttle == fb_fill_level > FB_THRESHOLD

stalled(in) == Variant = "opt3" /\ data_valid(in) /\ ~in.ready

lookup_req_ic0(in) ==
    /\ in.req
    /\ fill_busy_q # FB
    /\ branch_i(in) \/ (~lookup_throttle /\ ~stalled(in))
    /\ ~ecc_write_req

lookup_addr_ic0(in)   == IF branch_i(in) THEN in.addr ELSE prefetch_addr_q
lookup_grant_ic0(in)  == lookup_req_ic0(in)
\* Some busy buffer already fetches the line (opt2, opt3).
fill_match_ic0(in)    == \E i \in fill_busy_q :
                             fill_addr_q[i].line = lookup_addr_ic0(in).line
\* Mutant: lookups go on during an invalidation.
lookup_actual_ic0_Unblocked(in) == lookup_grant_ic0(in) /\ in.enable
lookup_actual_ic0(in) == /\ lookup_grant_ic0(in)
                         /\ in.enable
                         /\ ~inval_block_cache(in)
                         /\ Variant \in {"opt2", "opt3"} =>
                                in.line_buf \/ ~fill_match_ic0(in)

prefetch_addr_d(in) ==
    IF lookup_grant_ic0(in)
    THEN [line |-> NextLine(lookup_addr_ic0(in).line), beat |-> 0]
    ELSE in.addr
prefetch_addr_en(in) == branch_i(in) \/ lookup_grant_ic0(in)

\* The lowest available buffer.
fill_alloc_sel == {i \in FB \ fill_busy_q : \A j \in 0..(i - 1) : j \in fill_busy_q}
fill_alloc(in) == IF lookup_grant_ic0(in) THEN fill_alloc_sel ELSE {}

\* A request made from IC0, before the outcome of the lookup is known.
\* A line buffer hit needs none: opt1 asks all the same.
fill_spec_req(in)  == /\ ~in.enable \/ branch_i(in)
                      /\ fill_ext_req(in) = {}
                      /\ Variant = "opt1" \/ ~in.line_buf
fill_spec_done(in) == fill_spec_req(in) /\ in.gnt
fill_spec_hold(in) == fill_spec_req(in) /\ ~in.gnt

\* Only the baseline masks the request itself on a line buffer hit.
instr_req(in) == \/ /\ ~in.enable \/ branch_i(in)
                    /\ lookup_grant_ic0(in)
                    /\ Variant # "baseline" \/ ~in.line_buf
                 \/ fill_ext_req(in) # {}
\* The buffer whose request is on the bus, how many beats it has asked for
\* before, and the address it drives.
ext_owner(in)  == IF fill_ext_req(in) # {} THEN fill_ext_arb(in) ELSE fill_alloc(in)
ext_nth(in)    == IF fill_ext_req(in) # {}
                  THEN fill_ext_cnt_q[CHOOSE i \in fill_ext_arb(in) : TRUE] ELSE 0
instr_addr(in) ==
    IF fill_ext_req(in) # {}
    THEN LET i == CHOOSE i \in fill_ext_arb(in) : TRUE
         IN  [line |-> fill_addr_q[i].line, beat |-> fill_ext_off(i)]
    ELSE lookup_addr_ic0(in)

(***************************************************************************)
(* Fill buffers: write to the cache, and release.                          *)
(***************************************************************************)
\* Mutant: a line with a bus error is offered to the RAM.
fill_ram_req_WithErrors ==
    {i \in (fill_busy_q \cap fill_cache_q) \ fill_hit_q :
        i \notin fill_ram_done_q /\ fill_rvd_cnt_q[i] = IC_LINE_BEATS}
fill_ram_req == {i \in (fill_busy_q \cap fill_cache_q) \ (fill_hit_q \cup fill_err_any) :
                    i \notin fill_ram_done_q /\ fill_rvd_cnt_q[i] = IC_LINE_BEATS}
fill_grant_ic0(in) == /\ fill_ram_req # {}
                      /\ ~lookup_req_ic0(in)
                      /\ ~inval_write_req(in)
                      /\ ~ecc_write_req
fill_ram_arb(in) == IF fill_grant_ic0(in) THEN Oldest(fill_ram_req) ELSE {}

\* Mutant: only a cache write releases a cached buffer.
fill_done_AfterWrite(in) ==
    {i \in fill_busy_q \cap fill_rvd_done :
        /\ i \in fill_ram_done_q \/ i \notin fill_cache_q
        /\ i \in fill_out_done \cup fill_stale_q \/ branch_i(in)}
fill_done(in) ==
    {i \in fill_busy_q \cap fill_rvd_done :
        /\ i \in fill_ram_done_q \cup fill_hit_q \cup fill_err_any \/ i \notin fill_cache_q
        /\ i \in fill_out_done \cup fill_stale_q \/ branch_i(in)}

fill_busy_d(in) == fill_alloc(in) \cup (fill_busy_q \ fill_done(in))

\* Mutant: buffers allocated before an invalidation still write the RAM.
fill_cache_d_Survives(in) ==
    (IF in.enable /\ ~inval_block_cache(in) THEN fill_alloc(in) ELSE {}) \cup
    (IF in.enable THEN fill_cache_q ELSE {})
\* The buffers that may write their line to the RAM.
fill_cache_d(in) ==
    (IF in.enable /\ ~inval_block_cache(in) THEN fill_alloc(in) ELSE {}) \cup
    (IF in.enable /\ ~icache_inval_i(in) THEN fill_cache_q ELSE {})

\* Low lets the core sleep; an invalidation also holds it high.
\* Mutant: counts the requests still to be made, not the responses.
busy_o_Requests == fill_busy_q \ fill_ext_done_q # {}
busy_o == fill_busy_q \ fill_rvd_done # {}

(***************************************************************************)
(* The registers.  Those of a free buffer, and of IC1 without a lookup,    *)
(* are never read: the model keeps them at their reset value, which is     *)
(* also what the next allocation or lookup gives them.                     *)
(***************************************************************************)
Init ==
    /\ prefetch_addr_q = NoAddr /\ out_addr = NoAddr
    /\ lookup_valid_ic1 = FALSE /\ lookup_line_ic1 = 0
    /\ fill_in_ic1 = {} /\ ecc_write_req = FALSE
    /\ fill_busy_q = {} /\ fill_older_q = [i \in FB |-> {}]
    /\ fill_stale_q = {} /\ fill_cache_q = {} /\ fill_hit_q = {}
    /\ fill_ext_cnt_q = [i \in FB |-> 0]
    /\ fill_ext_hold_q = {} /\ fill_ext_done_q = {}
    /\ fill_rvd_cnt_q = [i \in FB |-> 0]
    /\ fill_ram_done_q = {}
    /\ fill_out_cnt_q = [i \in FB |-> 0]
    /\ fill_addr_q = [i \in FB |-> NoAddr]
    /\ fill_err_q = [i \in FB |-> {}]
    /\ fill_data_q = [i \in FB |-> [b \in Beat |-> NoData]]
    /\ fetched = Nothing /\ bus_wait = NoAddr /\ bus_q = <<>>

LookupRegs(in) ==
    /\ prefetch_addr_q' = IF prefetch_addr_en(in) THEN prefetch_addr_d(in)
                                                  ELSE prefetch_addr_q
    /\ lookup_valid_ic1' = lookup_actual_ic0(in)
    /\ lookup_line_ic1' = IF lookup_actual_ic0(in) THEN lookup_addr_ic0(in).line ELSE 0
    /\ fill_in_ic1' = IF lookup_actual_ic0(in) THEN fill_alloc_sel ELSE {}
    /\ ecc_write_req' = (in.ecc = "ram")

\* Mutant: stale buffers do not count as older.
AgeRegs_SkipsStale(in) ==
    /\ fill_busy_q' = fill_busy_d(in)
    /\ fill_older_q' =
        [i \in FB |-> IF i \notin fill_busy_d(in) THEN {}
                      ELSE (IF i \in fill_alloc(in) THEN fill_busy_q \ fill_stale_q
                                                    ELSE fill_older_q[i]) \ fill_done(in)]
AgeRegs(in) ==
    /\ fill_busy_q' = fill_busy_d(in)
    /\ fill_older_q' =
        [i \in FB |-> IF i \notin fill_busy_d(in) THEN {}
                      ELSE (IF i \in fill_alloc(in) THEN fill_busy_q
                                                    ELSE fill_older_q[i]) \ fill_done(in)]

StatusRegs(in) ==
    /\ fill_stale_q' = fill_busy_d(in) \cap
            (IF branch_i(in) THEN fill_busy_q ELSE fill_stale_q)
    /\ fill_cache_q' = fill_busy_d(in) \cap fill_cache_d(in)
    /\ fill_hit_q' = fill_busy_d(in) \cap (fill_hit_ic1(in) \cup fill_hit_q)
    /\ fill_ram_done_q' = fill_busy_d(in) \cap (fill_ram_arb(in) \cup fill_ram_done_q)
    /\ fill_addr_q' = [i \in FB |->
            IF i \notin fill_busy_d(in) THEN NoAddr
            ELSE IF i \in fill_alloc(in) THEN lookup_addr_ic0(in) ELSE fill_addr_q[i]]

ExtRegs(in) ==
    /\ fill_ext_cnt_q' = [i \in FB |->
            IF i \notin fill_busy_d(in) THEN 0
            ELSE IF i \in fill_alloc(in) THEN (IF fill_spec_done(in) THEN 1 ELSE 0)
            ELSE fill_ext_cnt_q[i] + (IF i \in fill_ext_arb(in) /\ in.gnt THEN 1 ELSE 0)]
    /\ fill_ext_hold_q' = fill_busy_d(in) \cap
            ((IF fill_spec_hold(in) THEN fill_alloc(in) ELSE {}) \cup
             (IF in.gnt THEN {} ELSE fill_ext_arb(in)))
    /\ fill_ext_done_q' = fill_busy_d(in) \cap fill_ext_done_d(in)

RvdRegs(in) ==
    /\ fill_rvd_cnt_q' = [i \in FB |->
            IF i \notin fill_busy_q \cap fill_busy_d(in) THEN 0
            ELSE fill_rvd_cnt_q[i] + (IF i \in fill_rvd_arb(in) THEN 1 ELSE 0)]
    /\ fill_err_q' = [i \in FB |->
            IF i \notin fill_busy_q \cap fill_busy_d(in) THEN {}
            ELSE fill_err_q[i] \cup
                 (IF i \in fill_rvd_arb(in) /\ in.err THEN {fill_rvd_off(i)} ELSE {})]
    /\ fill_data_q' = [i \in FB |-> [b \in Beat |->
            IF i \notin fill_busy_q \cap fill_busy_d(in) THEN NoData
            ELSE IF i \in fill_hit_ic1(in) THEN in.hit[b]
            ELSE IF i \in fill_rvd_arb(in) \ fill_hit_q /\ b = fill_rvd_off(i)
                 THEN instr_rdata(in) ELSE fill_data_q[i][b]]]

\* Mutant: a buffer outputs its line from the start, not from the branch target.
OutRegs_LineStart(in) ==
    /\ fill_out_cnt_q' = [i \in FB |->
            IF i \notin fill_busy_d(in) THEN 0
            ELSE fill_out_cnt_q[i] + (IF i \in fill_out_grant(in) THEN 1 ELSE 0)]
    /\ out_addr' = IF branch_i(in) THEN in.addr
                   ELSE IF fill_out_grant(in) # {} THEN NextAddr(out_addr) ELSE out_addr
    /\ fetched' = IF fill_out_grant(in) # {}
                  THEN [data |-> output_data(in), err |-> output_err(in)] ELSE Nothing
OutRegs(in) ==
    /\ fill_out_cnt_q' = [i \in FB |->
            IF i \notin fill_busy_d(in) THEN 0
            ELSE IF i \in fill_alloc(in) THEN lookup_addr_ic0(in).beat
            ELSE fill_out_cnt_q[i] + (IF i \in fill_out_grant(in) THEN 1 ELSE 0)]
    /\ out_addr' = IF branch_i(in) THEN in.addr
                   ELSE IF fill_out_grant(in) # {} THEN NextAddr(out_addr) ELSE out_addr
    /\ fetched' = IF fill_out_grant(in) # {}
                  THEN [data |-> output_data(in), err |-> output_err(in)] ELSE Nothing

\* The memory side answers granted requests in order.
Bus(in) ==
    LET rest == IF in.rvalid THEN Tail(bus_q) ELSE bus_q
    IN  /\ bus_q' = IF in.gnt
                    THEN Append(rest, [addr |-> instr_addr(in), owner |-> ext_owner(in),
                                       nth |-> ext_nth(in), ver |-> in.ver])
                    ELSE rest
        /\ bus_wait' = IF instr_req(in) /\ ~in.gnt THEN instr_addr(in) ELSE NoAddr

(***************************************************************************)
(* Inputs.  One that no signal reads in this cycle is held FALSE.  The     *)
(* core makes no request before its first branch.                          *)
(***************************************************************************)
Inputs == [req : ReqIn, addr : BranchIn \cup {NoAddr}, enable : EnableIn,
           inval : InvalIn, line_buf : LineBufIn, hit : HitIn, ecc : EccIn,
           gnt : BOOLEAN, ver : Versions, rvalid : BOOLEAN, err : ErrIn,
           ready : BOOLEAN]

Env(in) ==
    /\ in.req => branch_i(in) \/ prefetch_addr_q # NoAddr
    /\ in.ecc # "none" => lookup_valid_ic1
    /\ in.line_buf => lookup_grant_ic0(in)
    /\ in.rvalid => bus_q # <<>>
    /\ in.err => in.rvalid
    /\ in.gnt => instr_req(in)
    /\ in.ready => data_valid(in)

\* What a lookup finds is data of its line (Icache.tla: HitServesItsLine).
RamEnv(in) ==
    in.hit # NoLine =>
        /\ lookup_valid_ic1
        /\ \A b \in Beat : /\ in.hit[b].line = lookup_line_ic1
                           /\ in.hit[b].beat = b /\ ~in.hit[b].bad

Clock(in) ==
    /\ LookupRegs(in) /\ AgeRegs(in) /\ StatusRegs(in) /\ ExtRegs(in)
    /\ RvdRegs(in) /\ OutRegs(in) /\ Bus(in)

Step(in) == RamEnv(in) /\ Env(in) /\ Clock(in)

Next == \E in \in Inputs : Step(in)

Spec == Init /\ [][Next]_vars

-----------------------------------------------------------------------------
(***************************************************************************)
(* Properties.                                                             *)
(***************************************************************************)
Outstanding == [addr : Addr, owner : SUBSET FB, nth : Count, ver : Versions]

\* The registers hold values of their widths: no count passes the last beat.
TypeOK ==
    /\ prefetch_addr_q \in Addr \cup {NoAddr} /\ out_addr \in Addr \cup {NoAddr}
    /\ lookup_valid_ic1 \in BOOLEAN /\ lookup_line_ic1 \in Line
    /\ fill_in_ic1 \in SUBSET FB /\ ecc_write_req \in BOOLEAN
    /\ fill_busy_q \in SUBSET FB /\ fill_older_q \in [FB -> SUBSET FB]
    /\ fill_stale_q \in SUBSET FB /\ fill_cache_q \in SUBSET FB
    /\ fill_hit_q \in SUBSET FB /\ fill_ram_done_q \in SUBSET FB
    /\ fill_ext_hold_q \in SUBSET FB /\ fill_ext_done_q \in SUBSET FB
    /\ fill_ext_cnt_q \in [FB -> Count] /\ fill_rvd_cnt_q \in [FB -> Count]
    /\ fill_out_cnt_q \in [FB -> Count]
    /\ fill_addr_q \in [FB -> Addr \cup {NoAddr}]
    /\ fill_err_q \in [FB -> SUBSET Beat]
    /\ fill_data_q \in [FB -> [Beat -> Contents]]
    /\ fetched \in [data : Contents, err : BOOLEAN]
    /\ bus_wait \in Addr \cup {NoAddr}
    /\ bus_q \in Seq(Outstanding)

\* fill_older_q is a strict total order on the busy buffers and mentions no
\* other buffer, whatever buffers are allocated and released in one cycle.
AgeOrder ==
    /\ \A i \in FB : fill_older_q[i] \subseteq fill_busy_q \ {i}
    /\ \A i, j \in fill_busy_q :
          i # j => (i \in fill_older_q[j] <=> j \notin fill_older_q[i])
    /\ \A i, j, k \in fill_busy_q :
          i \in fill_older_q[j] /\ j \in fill_older_q[k] => i \in fill_older_q[k]

\* "Age based arbitration - all these signals are one-hot": whichever busy
\* buffers ask, at most one is granted.  fill_ext_arb, fill_ram_arb and
\* fill_rvd_arb all are Oldest of a set of busy buffers.
ArbOneHot ==
    \A requests \in SUBSET fill_busy_q :
        \A i, j \in Oldest(requests) : i = j

\* The beat the bus returns next is consumed by the buffer that asked for it,
\* as the beat it asked for, although a response carries no tag and buffers
\* are allocated, hit, go stale and cancel requests in any interleaving.
ResponseReachesRequester ==
    bus_q # <<>> =>
        /\ Oldest(fill_rvd_exp) = Head(bus_q).owner
        /\ \A i \in Head(bus_q).owner :
              Head(bus_q).addr = [line |-> fill_addr_q[i].line, beat |-> fill_rvd_off(i)]

\* A line is offered to the RAM only when every beat of it has arrived, each
\* at its place and without a bus error.
CacheWriteComplete ==
    \A i \in fill_ram_req :
        \A b \in Beat : /\ fill_data_q[i][b].line = fill_addr_q[i].line
                        /\ fill_data_q[i][b].beat = b
                        /\ ~fill_data_q[i][b].bad

\* busy_o stays high, so the core does not sleep, while a request waits for
\* its grant or a response is outstanding.
BusyCoversBus == bus_q # <<>> \/ bus_wait # NoAddr => busy_o

\* A request the bus has seen stays, with its address, until it is granted,
\* across branches, hits and invalidations in between.
RequestHeld ==
    [][bus_wait # NoAddr =>
          \/ bus_wait' = bus_wait /\ Len(bus_q') <= Len(bus_q)
          \/ /\ bus_wait' = NoAddr
             /\ bus_q' # <<>>
             /\ bus_q'[Len(bus_q')].addr = bus_wait
             /\ Len(bus_q') >= Len(bus_q)]_vars

\* The words the IF stage takes are those of the abstract stream, with an
\* error exactly where the bus reported one.
Stream == INSTANCE FetchStream WITH pc <- out_addr
StreamInOrder == Stream!Spec

(***************************************************************************)
(* The inductive invariant behind ResponseReachesRequester.                *)
(***************************************************************************)
\* A request that waits for its grant is not yet the last of its line.
HoldNotFull == \A i \in fill_ext_hold_q : i \in fill_busy_q /\ fill_ext_cnt_q[i] < IC_LINE_BEATS

\* Once a buffer is done requesting, the reason persists.
DoneStable ==
    \A i \in fill_ext_done_q :
        /\ i \in fill_busy_q \ fill_ext_hold_q
        /\ \/ fill_ext_cnt_q[i] = IC_LINE_BEATS
           \/ i \in fill_hit_q
           \/ /\ i \notin fill_cache_q
              /\ i \in fill_stale_q \/ fill_ext_beat(i) >= IC_LINE_BEATS

\* No buffer requests before every older one is done requesting.
ExtInAgeOrder ==
    \A i, j \in fill_busy_q :
        i \in fill_older_q[j] /\ (fill_ext_cnt_q[j] > 0 \/ j \in fill_ext_hold_q)
            => i \in fill_ext_done_q

\* The outstanding requests are, oldest buffer first and beat by beat, those
\* the buffers have been granted and have no response to.
OwnerOf(k, i)  == bus_q[k].owner = {i}
BusMatchesCounts ==
    /\ \A i \in fill_busy_q : fill_rvd_cnt_q[i] <= fill_ext_cnt_q[i]
    /\ \A k \in DOMAIN bus_q : \E i \in fill_busy_q :
          /\ OwnerOf(k, i)
          /\ bus_q[k].nth \in fill_rvd_cnt_q[i]..(fill_ext_cnt_q[i] - 1)
          /\ bus_q[k].addr = [line |-> fill_addr_q[i].line,
                beat |-> (fill_addr_q[i].beat + bus_q[k].nth) % IC_LINE_BEATS]
    /\ \A i \in fill_busy_q : \A n \in fill_rvd_cnt_q[i]..(fill_ext_cnt_q[i] - 1) :
          \E k \in DOMAIN bus_q : OwnerOf(k, i) /\ bus_q[k].nth = n
    /\ \A k, l \in DOMAIN bus_q : k < l =>
          \A i, j \in fill_busy_q : OwnerOf(k, i) /\ OwnerOf(l, j) =>
              i \in fill_older_q[j] \/ (i = j /\ bus_q[k].nth < bus_q[l].nth)

\* Something holds the request the bus is waiting to grant.
WaitHeld == bus_wait # NoAddr => fill_ext_hold_q # {}

\* No buffer, and no output, before the first branch.
Started ==
    /\ prefetch_addr_q # NoAddr => out_addr # NoAddr
    /\ fill_busy_q # {} => prefetch_addr_q # NoAddr
    /\ \A i \in fill_busy_q : fill_addr_q[i] # NoAddr

BusInv == HoldNotFull /\ DoneStable /\ ExtInAgeOrder /\ BusMatchesCounts /\ WaitHeld

(***************************************************************************)
(* The inductive invariant behind CacheWriteComplete and StreamInOrder.    *)
(***************************************************************************)
\* The lookup in IC1 is for the buffer allocated last, and for its line.
LookupInv ==
    IF lookup_valid_ic1
    THEN \E i \in fill_busy_q : /\ fill_in_ic1 = {i} /\ fill_older_q[i] = fill_busy_q \ {i}
                                /\ fill_addr_q[i].line = lookup_line_ic1
    ELSE fill_in_ic1 = {}

\* How many beats of the line a buffer receives before beat b.
BeatsBefore(i, b) == IF b >= fill_addr_q[i].beat THEN b - fill_addr_q[i].beat
                     ELSE b + IC_LINE_BEATS - fill_addr_q[i].beat
Received(i, b) == BeatsBefore(i, b) < fill_rvd_cnt_q[i]
HoldsBeat(i, b) == fill_data_q[i][b].line = fill_addr_q[i].line /\ fill_data_q[i][b].beat = b

\* A buffer holds its line: all of it after a hit, and else what it received,
\* with the errors of the bus.
HitHeld ==
    \A i \in fill_busy_q \cap fill_hit_q : \A b \in Beat :
        HoldsBeat(i, b) /\ ~fill_data_q[i][b].bad
ReceivedHeld ==
    \A i \in fill_busy_q \ fill_hit_q : \A b \in Beat :
        IF Received(i, b)
        THEN HoldsBeat(i, b) /\ (fill_data_q[i][b].bad <=> b \in fill_err_q[i])
        ELSE b \notin fill_err_q[i]

\* The buffers with words to output hold consecutive lines from out_addr on, in
\* age order, and the prefetch address follows the youngest of them.
LineAfter(i) == [line |-> NextLine(fill_addr_q[i].line), beat |-> 0]
Consecutive ==
    /\ \A i \in out_waiting :
          IF fill_older_q[i] \cap out_waiting = {}
          THEN out_addr = [line |-> fill_addr_q[i].line, beat |-> fill_out_cnt_q[i]]
          ELSE fill_out_cnt_q[i] = 0
    /\ \A i \in out_waiting : fill_out_cnt_q[i] >= fill_addr_q[i].beat
    /\ \A i, j \in out_waiting :
          /\ i \in fill_older_q[j]
          /\ \A k \in out_waiting : ~(i \in fill_older_q[k] /\ k \in fill_older_q[j])
          => fill_addr_q[j] = LineAfter(i)
    /\ \A i \in out_waiting :
          (\A k \in out_waiting : i \notin fill_older_q[k]) => prefetch_addr_q = LineAfter(i)
    /\ IF out_waiting = {} THEN out_addr = prefetch_addr_q ELSE prefetch_addr_q.beat = 0

\* A buffer puts out no word that it does not have yet.
OutInv ==
    /\ fill_stale_q \cup fill_hit_q \subseteq fill_busy_q
    /\ \A i \in fill_busy_q \ fill_hit_q : fill_out_cnt_q[i] <= fill_rvd_beat(i)
    /\ Consecutive

\* The bus waits for the next word of the buffer whose request is on hold.
WaitAddr ==
    bus_wait # NoAddr =>
        \A i \in fill_ext_hold_q :
            bus_wait = [line |-> fill_addr_q[i].line, beat |-> fill_ext_off(i)]

\* Holds initially and is preserved by every step of Spec.  BusIInv and FetchInv are
\* so by themselves, whatever a lookup finds.
BusIInv  == TypeOK /\ AgeOrder /\ Started /\ BusInv
FetchInv == BusIInv /\ LookupInv /\ ReceivedHeld /\ OutInv /\ WaitAddr
IInv     == FetchInv /\ HitHeld
=============================================================================
