------------------------------ MODULE MCLayout ------------------------------
(***************************************************************************)
(* Every image of three sections drawn from a few kinds, sizes and         *)
(* alignments, loaded once: where layout and page permissions can go       *)
(* wrong.  Pages have 4 bytes, so a section of 5 takes two of them and     *)
(* those of 0 and 3 share theirs.                                          *)
(***************************************************************************)
EXTENDS MCModLoader

Kinds == {<<TRUE, FALSE>>, <<FALSE, TRUE>>, <<FALSE, FALSE>>}   \* exec, write
SomeSections ==
    {Debug} \cup {Sect("nobits", TRUE, k[1], k[2], size, align) :
                     k \in Kinds, size \in {0, 3, 5}, align \in {1, 8}}

\* An entry at the beginning of a section, or beyond its first page.
AnyEntry(n, value) == [Entry EXCEPT !.shndx = n, !.value = value]
MCLayoutImages ==
    {Image(<<a, b, c>>, <<NullSym, AnyEntry(2, v)>>) :
        a \in SomeSections, b \in SomeSections, c \in SomeSections, v \in {1, 4}}
    \cup {[kind |-> "exec", size |-> n, rxSize |-> rx, entry |-> e] :
             n \in 1 .. 9, rx \in 0 .. 9, e \in {17, 21}}

\* One load, of any of them.
LayoutNext ==
    /\ ~mod.loaded
    /\ \/ pc = "idle" /\ result = NO_ERROR /\ \E m \in Images : LoadExec(m) \/ LoadRel(m)
       \/ LoadStep
LayoutSpec == Init /\ [][LayoutNext]_vars
==============================================================================
