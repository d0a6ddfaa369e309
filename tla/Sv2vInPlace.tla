---------------------------- MODULE Sv2vInPlace ----------------------------
(***************************************************************************)
(* sv2v_in_place.py rewrites a list of SystemVerilog files in place: each  *)
(* is converted into a temporary file, together with the packages it uses, *)
(* then all results are copied back, and at last the headers are emptied.  *)
(***************************************************************************)
EXTENDS Naturals, Sequences, FiniteSets, SequencesExt

CONSTANTS SvPaths, SvhPaths     \* the files, in order: *.sv, and *.svh

VARIABLES
    file,       \* what each file is: "original", "converted" or "empty"
    tmp,        \* what each converted file was made from: paths and their state
    sv2v_pc     \* "convert", "copy", "splat", or how it ended: "ok", "error"

sv2v_vars == <<file, tmp, sv2v_pc>>
Paths == Range(SvPaths) \cup Range(SvhPaths)

Sv2vInit ==
    /\ file = [p \in Paths |-> "original"]
    /\ tmp = <<>> /\ sv2v_pc = "convert"

\* transform_one for the next path: sv2v reads it, the packages and the headers.
TransformOne ==
    /\ sv2v_pc = "convert" /\ Len(tmp) < Len(SvPaths)
    /\ \/ tmp' = Append(tmp, file) /\ UNCHANGED sv2v_pc
       \/ sv2v_pc' = "error" /\ UNCHANGED tmp
    /\ UNCHANGED file

\* Mutant: each file is copied back as soon as it is converted.
CopyBack_AtOnce ==
    /\ sv2v_pc \in {"convert", "copy"}
    /\ LET left == SelectSeq(SubSeq(SvPaths, 1, Len(tmp)), LAMBDA p : file[p] = "original") IN
       IF left = <<>> THEN /\ Len(tmp) = Len(SvPaths)
                           /\ sv2v_pc' = "splat" /\ UNCHANGED file
       ELSE file' = [file EXCEPT ![Head(left)] = "converted"] /\ UNCHANGED sv2v_pc
    /\ UNCHANGED tmp

\* The loop over the paths is over; shutil.copy, path by path.
CopyBack ==
    /\ sv2v_pc \in {"convert", "copy"} /\ Len(tmp) = Len(SvPaths)
    /\ LET left == SelectSeq(SvPaths, LAMBDA p : file[p] = "original") IN
       IF left = <<>> THEN sv2v_pc' = "splat" /\ UNCHANGED file
       ELSE file' = [file EXCEPT ![Head(left)] = "converted"] /\ sv2v_pc' = "copy"
    /\ UNCHANGED tmp

Splat ==
    /\ sv2v_pc = "splat"
    /\ file' = [p \in Paths |-> IF p \in Range(SvhPaths) THEN "empty" ELSE file[p]]
    /\ sv2v_pc' = "ok" /\ UNCHANGED tmp

Sv2vNext == TransformOne \/ CopyBack \/ Splat
Sv2vSpec == Sv2vInit /\ [][Sv2vNext]_sv2v_vars
-----------------------------------------------------------------------------
\* No file is converted with the help of one that was already edited, and when sv2v
\* fails on any file all sources are as they were.
EditsLast ==
    /\ \A i \in DOMAIN tmp : \A p \in Paths : tmp[i][p] = "original"
    /\ sv2v_pc = "error" => \A p \in Paths : file[p] = "original"
=============================================================================
