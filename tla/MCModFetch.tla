----------------------------- MODULE MCModFetch -----------------------------
(***************************************************************************)
(* An instance of ModFetch for TLC: one file, which the host removes,      *)
(* makes a directory of, empties, lets grow and shrink, and replaces by a  *)
(* file as long; the longest is above the limit.                           *)
(***************************************************************************)
EXTENDS ModFetch

File(data) == [type |-> "file", data |-> data]

MCUris == [scheme : {"file:", "none"}, absolute : {TRUE}, path : Paths]
          \cup [scheme : {"file:", "other"}, absolute : {FALSE}, path : {"a"}]

MCHostFiles == {[type |-> "none", data |-> << >>], [type |-> "dir", data |-> << >>],
                File(<< >>), File(<<1>>), File(<<1, 2>>), File(<<3, 4>>),
                File(<<1, 2, 5>>)}
==============================================================================
