------------------------------- MODULE ModSlot -------------------------------
(***************************************************************************)
(* What the loader promises its caller: one slot that is empty or holds    *)
(* one module.  A load either fails and changes nothing the caller can     *)
(* see, or puts a whole module in the empty slot: its sections at places   *)
(* that respect their alignment and do not overlap, and every symbol it    *)
(* exports found by its name at the address where it was placed.           *)
(***************************************************************************)
EXTENDS ElfImage

CONSTANTS
    Images,     \* the images callers load
    Names,      \* the names callers look up
    Base        \* the address of the slot

VARIABLES
    slot,       \* the module, or Empty
    place,      \* where each of its sections is, from Base
    view,       \* what looking up each name returns
    result      \* what the last call returned

vars == <<slot, place, view, result>>

Empty == [kind |-> "none"]

\* Sections are placed in the order of their headers (ARCHITECTURE.md, 6.1).
ValidLayout(m, at) ==
    /\ DOMAIN at = AllocSections(m)
    /\ \A s \in DOMAIN at :
          /\ m.sections[s].align > 1 => (Base + at[s]) % m.sections[s].align = 0
          /\ \A t \in DOMAIN at : s < t => at[s] + m.sections[s].size <= at[t]

\* The address of a symbol, by the formula of STAGES.md, 2.1.
AddressOf(sym, at) ==
    IF sym.shndx = SHN_ABS THEN sym.value ELSE Base + at[sym.shndx] + sym.value

\* The symbols m exports under a name; one without an address is none.
Exporting(m, name) ==
    {k \in DOMAIN m.symbols :
        /\ IsExport(m.symbols[k]) /\ m.symbols[k].name = name
        /\ \/ m.symbols[k].shndx \in AllocSections(m)
           \/ m.symbols[k].shndx = SHN_ABS /\ m.symbols[k].value # NULL}

ViewOf(m, at) ==
    [n \in Names |->
        IF m.kind = "rel" /\ Exporting(m, n) # {}
        THEN AddressOf(m.symbols[Min(Exporting(m, n))], at)
        ELSE NULL]

Nothing == [n \in Names |-> NULL]

Init ==
    /\ slot = Empty /\ place = << >> /\ view = Nothing
    /\ result = NO_ERROR

Load(m) ==
    /\ slot = Empty
    /\ slot' = m
    /\ IF m.kind = "rel" THEN ValidLayout(m, place') ELSE place' = << >>
    /\ view' = ViewOf(m, place')
    /\ result' = NO_ERROR

\* Only an occupied slot is refused as such, and only an empty one as empty.
Fail ==
    /\ UNCHANGED <<slot, place, view>>
    /\ result' \in Statuses \ {NO_ERROR}
    /\ result' = ALREADY_EXISTS => slot # Empty
    /\ result' \in {NOT_READY, NO_MEMORY, NOT_SUPPORTED, MMU_ERROR} => slot = Empty

Unload ==
    /\ slot # Empty
    /\ slot' = Empty /\ place' = << >> /\ view' = Nothing
    /\ result' = NO_ERROR

Next == (\E m \in Images : Load(m)) \/ Fail \/ Unload

Spec == Init /\ [][Next]_vars
==============================================================================
