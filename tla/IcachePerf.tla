----------------------------- MODULE IcachePerf -----------------------------
(***************************************************************************)
(* The event pulses this repository adds to ibex_icache.sv for its energy  *)
(* estimates, and what docs/performance_counters.md and                    *)
(* docs/methodology.md say they count.  A pulse is an operator over one    *)
(* step of Icache; the writes it should count are read off the step too.   *)
(***************************************************************************)
EXTENDS Icache

\* The buffers whose line is written to the RAMs by this step, and what each
\* overwrites.  A buffer stays busy for a cycle after its write.
committing == fill_ram_done_q' \ fill_ram_done_q
victim(i)  == ram[fill_way_q[i]][IndexOf(fill_addr_q[i].line)]

perf_ic_evict_o == committing \cap fill_evict_q # {}

\* "The eviction counter specifically tracks when a fill buffer commits an
\* allocation write into a cache line that was previously valid."
EvictionCounted ==
    [][\A i \in committing : victim(i) # NoEntry => perf_ic_evict_o]_cache_vars

\* "Inject line buffer data on line buffer hit": what is injected is the line
\* that was looked up.
LineBufferServesItsLine ==
    lookup_valid_ic1 /\ line_buf_hit_ic1 =>
        \A b \in Beat : hit_data_ic1[b].line = lookup_line_ic1
=============================================================================
