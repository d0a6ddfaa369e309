---------------------------- MODULE LoadStoreUnit ----------------------------
(***************************************************************************)
(* ibex_load_store_unit.sv: the state machine that turns one load or store *)
(* into one or two word accesses of the data bus.  A signal is an operator *)
(* of the same name over this cycle's inputs, in.acc being the access the  *)
(* ID stage presents and in.lsu_req lsu_req_i.  One step is one clock edge *)
(*                                                                         *)
(* The byte at address a holds a, so that a load can be seen to return the *)
(* right bytes; a byte lane that was not enabled returns nothing.  Sign    *)
(* extension and the integrity code of the bus are left out.               *)
(***************************************************************************)
EXTENDS Integers, Sequences, FiniteSets

CONSTANT NUM_WORDS      \* words of the modelled address space (2^30 in the RTL)

\* The two words of a split access are different ones.
ASSUME LsuAssumption == NUM_WORDS \in Nat /\ NUM_WORDS > 1

Lane    == 0..3
Word    == 0..(NUM_WORDS - 1)
Addr    == 0..(4 * NUM_WORDS - 1)
NoByte  == -1
Access  == [we : BOOLEAN, size : {1, 2, 4}, addr : Addr]
None    == [we |-> FALSE, size |-> 1, addr |-> -1]

WordOf(a)  == a \div 4
Aligned(a) == 4 * WordOf(a)
Offset(a)  == a % 4

VARIABLES
    ls_fsm_cs, handle_misaligned_q, pmp_err_q, lsu_err_q,
    addr_last_q,
    rdata_q,                        \* bytes of the first word of a split load
    rdata_offset_q, data_type_q, data_we_q,
    denied,     \* words the PMP denies; its configuration does not change here
    bus_q       \* granted and not answered: [word, be, acc], oldest first

lsu_vars == <<ls_fsm_cs, handle_misaligned_q, pmp_err_q, lsu_err_q, addr_last_q,
              rdata_q, rdata_offset_q, data_type_q, data_we_q>>

(***************************************************************************)
(* The two words of an access, and the byte lanes of each.                 *)
(***************************************************************************)
Split(acc) == Offset(acc.addr) + acc.size > 4

FirstLanes(acc)  == {j \in Lane : Offset(acc.addr) <= j /\ j < Offset(acc.addr) + acc.size}
SecondLanes(acc) == {j \in Lane : j < Offset(acc.addr) + acc.size - 4}
data_be(in) == IF handle_misaligned_q /\ in.acc.size > 1
               THEN SecondLanes(in.acc) ELSE FirstLanes(in.acc)

\* Lane j of the rotated write data is this byte of the register.
WdataByte(acc, j) == (j - Offset(acc.addr)) % 4

(***************************************************************************)
(* Requests.                                                               *)
(***************************************************************************)
addr_incr_req_o ==
    \/ ls_fsm_cs \in {"WAIT_RVALID_MIS", "WAIT_RVALID_MIS_GNTS_DONE"}
    \/ ls_fsm_cs = "WAIT_GNT" /\ handle_misaligned_q

\* The ID stage adds 4 to the last address for the second word.
data_addr(in) ==
    IF addr_incr_req_o THEN (addr_last_q + 4) % (4 * NUM_WORDS) ELSE in.acc.addr

data_pmp_err(in) == WordOf(data_addr(in)) \in denied
data_req_o(in)   == \/ ls_fsm_cs = "IDLE" /\ in.lsu_req
                    \/ ls_fsm_cs \in {"WAIT_GNT_MIS", "WAIT_RVALID_MIS", "WAIT_GNT"}
\* ibex_core.sv: a denied request does not reach the bus.
bus_req(in)      == data_req_o(in) /\ ~data_pmp_err(in)

\* The address phase ends with a grant or, when the PMP denied it, without one.
\* Mutant: a denied access waits for the grant it will never get.
granted_or_denied_Granted(in) == in.gnt
granted_or_denied(in) == in.gnt \/ pmp_err_q
first_answered(in)    == in.rvalid \/ pmp_err_q

\* mtval needs the first failing address, so an error freezes it.
addr_update(in) ==
    CASE ls_fsm_cs = "IDLE"            -> in.lsu_req /\ in.gnt
      [] ls_fsm_cs = "WAIT_GNT_MIS"    -> granted_or_denied(in)
      [] ls_fsm_cs = "WAIT_RVALID_MIS" ->
            first_answered(in) /\ in.gnt /\ ~(in.err \/ pmp_err_q)
      [] ls_fsm_cs = "WAIT_GNT"        -> granted_or_denied(in) /\ ~lsu_err_q
      [] OTHER                         -> in.rvalid /\ ~in.err
ctrl_update(in) ==
    \/ ls_fsm_cs = "IDLE" /\ in.lsu_req /\ in.gnt
    \/ ls_fsm_cs \in {"WAIT_GNT_MIS", "WAIT_GNT"} /\ granted_or_denied(in)
rdata_update(in) ==
    /\ ~data_we_q
    /\ \/ ls_fsm_cs = "WAIT_RVALID_MIS" /\ first_answered(in)
       \/ ls_fsm_cs = "WAIT_RVALID_MIS_GNTS_DONE" /\ in.rvalid

(***************************************************************************)
(* The state machine, one action per state.                                *)
(***************************************************************************)
ls_fsm_ns(in) ==
    CASE ls_fsm_cs = "IDLE" /\ in.lsu_req ->
            IF in.gnt THEN (IF Split(in.acc) THEN "WAIT_RVALID_MIS" ELSE "IDLE")
                      ELSE (IF Split(in.acc) THEN "WAIT_GNT_MIS" ELSE "WAIT_GNT")
      [] ls_fsm_cs = "WAIT_GNT_MIS" /\ granted_or_denied(in) -> "WAIT_RVALID_MIS"
      [] ls_fsm_cs = "WAIT_RVALID_MIS" /\ first_answered(in) ->
            IF in.gnt THEN "IDLE" ELSE "WAIT_GNT"
      [] ls_fsm_cs = "WAIT_RVALID_MIS" /\ ~first_answered(in) /\ in.gnt ->
            "WAIT_RVALID_MIS_GNTS_DONE"
      [] ls_fsm_cs = "WAIT_GNT" /\ granted_or_denied(in) -> "IDLE"
      [] ls_fsm_cs = "WAIT_RVALID_MIS_GNTS_DONE" /\ in.rvalid -> "IDLE"
      [] OTHER -> ls_fsm_cs

Idle(in) ==
    /\ ls_fsm_cs = "IDLE"
    /\ pmp_err_q' = (in.lsu_req /\ data_pmp_err(in))
    /\ lsu_err_q' = (lsu_err_q /\ ~in.lsu_req)
    /\ handle_misaligned_q' = IF in.lsu_req /\ in.gnt THEN Split(in.acc)
                                                      ELSE handle_misaligned_q
WaitGntMis(in) ==
    /\ ls_fsm_cs = "WAIT_GNT_MIS"
    /\ handle_misaligned_q' = (granted_or_denied(in) \/ handle_misaligned_q)
    /\ UNCHANGED <<pmp_err_q, lsu_err_q>>
WaitRvalidMis(in) ==
    /\ ls_fsm_cs = "WAIT_RVALID_MIS"
    /\ pmp_err_q' = IF first_answered(in) THEN data_pmp_err(in) ELSE pmp_err_q
    /\ lsu_err_q' = IF first_answered(in) THEN in.err \/ pmp_err_q ELSE lsu_err_q
    /\ handle_misaligned_q' = IF first_answered(in) THEN ~in.gnt
                              ELSE handle_misaligned_q /\ ~in.gnt
WaitGnt(in) ==
    /\ ls_fsm_cs = "WAIT_GNT"
    /\ handle_misaligned_q' = (handle_misaligned_q /\ ~granted_or_denied(in))
    /\ UNCHANGED <<pmp_err_q, lsu_err_q>>
\* Mutant: the error of the first half is lost when the second is granted early.
WaitRvalidMisGntsDone_Forgets(in) ==
    /\ ls_fsm_cs = "WAIT_RVALID_MIS_GNTS_DONE"
    /\ pmp_err_q' = IF in.rvalid THEN data_pmp_err(in) ELSE pmp_err_q
    /\ UNCHANGED <<lsu_err_q, handle_misaligned_q>>
WaitRvalidMisGntsDone(in) ==
    /\ ls_fsm_cs = "WAIT_RVALID_MIS_GNTS_DONE"
    /\ pmp_err_q' = IF in.rvalid THEN data_pmp_err(in) ELSE pmp_err_q
    /\ lsu_err_q' = IF in.rvalid THEN in.err ELSE lsu_err_q
    /\ UNCHANGED handle_misaligned_q

(***************************************************************************)
(* The response.                                                           *)
(***************************************************************************)
lsu_req_done_o(in) ==
    (in.lsu_req \/ ls_fsm_cs # "IDLE") /\ ls_fsm_ns(in) = "IDLE"
lsu_resp_valid_o(in) == (in.rvalid \/ pmp_err_q) /\ ls_fsm_cs = "IDLE"

data_or_pmp_err(in)   == lsu_err_q \/ in.err \/ pmp_err_q
lsu_rdata_valid_o(in) ==
    ls_fsm_cs = "IDLE" /\ in.rvalid /\ ~data_or_pmp_err(in) /\ ~data_we_q
load_err_o(in)  == data_or_pmp_err(in) /\ ~data_we_q /\ lsu_resp_valid_o(in)
store_err_o(in) == data_or_pmp_err(in) /\ data_we_q /\ lsu_resp_valid_o(in)

\* The bytes on the bus.
data_rdata(in) == [j \in Lane |-> IF in.rvalid /\ j \in Head(bus_q).be
                                  THEN 4 * Head(bus_q).word + j ELSE NoByte]
\* The bytes of the result: from the word on the bus or, for the first bytes of
\* a split load, from the word kept.
lsu_rdata_o(in) ==
    [k \in 0..(data_type_q - 1) |->
        LET j == rdata_offset_q + k
        IN  CASE j > 3 -> data_rdata(in)[j - 4]
              [] j <= 3 /\ rdata_offset_q + data_type_q > 4 -> rdata_q[j]
              [] OTHER -> data_rdata(in)[j]]

(***************************************************************************)
(* The registers.                                                          *)
(***************************************************************************)
NoBytes == [j \in Lane |-> NoByte]

LsuInit ==
    /\ ls_fsm_cs = "IDLE" /\ handle_misaligned_q = FALSE
    /\ pmp_err_q = FALSE /\ lsu_err_q = FALSE
    /\ addr_last_q = 0 /\ rdata_q = NoBytes
    /\ rdata_offset_q = 0 /\ data_type_q = 4 /\ data_we_q = FALSE

\* rdata_q is only read for the second half of the load that set it.
LsuRegs(in) ==
    /\ ls_fsm_cs' = ls_fsm_ns(in)
    /\ Idle(in) \/ WaitGntMis(in) \/ WaitRvalidMis(in) \/ WaitGnt(in)
                \/ WaitRvalidMisGntsDone(in)
    /\ addr_last_q' = IF ~addr_update(in) THEN addr_last_q
                      ELSE IF addr_incr_req_o THEN Aligned(data_addr(in)) ELSE data_addr(in)
    /\ rdata_q' = CASE rdata_update(in) -> data_rdata(in)
                    [] ~rdata_update(in) /\ lsu_resp_valid_o(in) -> NoBytes
                    [] OTHER -> rdata_q
    /\ IF ctrl_update(in)
       THEN /\ rdata_offset_q' = Offset(data_addr(in))
            /\ data_type_q' = in.acc.size /\ data_we_q' = in.acc.we
       ELSE UNCHANGED <<rdata_offset_q, data_type_q, data_we_q>>

\* The memory side answers granted requests in order.
Bus(in) ==
    LET rest == IF in.rvalid THEN Tail(bus_q) ELSE bus_q
    IN  bus_q' = IF in.gnt
                 THEN Append(rest, [word |-> WordOf(data_addr(in)), be |-> data_be(in),
                                    acc |-> in.acc])
                 ELSE rest

LsuEnv(in) ==
    /\ in.gnt => bus_req(in)
    /\ in.rvalid => bus_q # <<>>
    /\ in.err => in.rvalid
=============================================================================
