---------------------------- MODULE MCExportRace ----------------------------
(***************************************************************************)
(* An instance of ExportRace for TLC: two slots and three names, of which  *)
(* one ("ac") is a mixture of the two others, which have a character of    *)
(* their own each.                                                         *)
(***************************************************************************)
EXTENDS ExportRace
MCSpelling ==
    [ax |-> <<"a", "x", End>>, bc |-> <<"b", "c", End>>, ac |-> <<"a", "c", End>>,
     none |-> <<End, End, End>>]
MCNames == DOMAIN MCSpelling
MCBuiltins == [n \in {} |-> NULL]
==============================================================================
