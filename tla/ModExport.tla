------------------------------ MODULE ModExport ------------------------------
(***************************************************************************)
(* The registration interface of modloader_export.c: kernel threads        *)
(* register and unregister dynamic exports by name.                        *)
(***************************************************************************)
EXTENDS ExportTable, FiniteSets

CONSTANTS
    Names,      \* the names callers pass, NoName among them
    Addrs       \* the addresses callers pass, NULL among them

ASSUME CallAssumption ==
    /\ NoName \in Names
    /\ LongNames \subseteq Names
    /\ DOMAIN Builtins \subseteq Names
    /\ NULL \in Addrs
    /\ Addrs \subseteq Nat

VARIABLES
    dyn,        \* modloader_dyn_exports
    call,       \* the last call and its name
    status      \* what it returned

vars == <<dyn, call, status>>

Init ==
    /\ dyn = NoExports
    /\ call = << >>
    /\ status = NO_ERROR

Register(name, addr) ==
    /\ call' = <<"register", name>>
    /\ dyn' = RegisterExport(dyn, name, addr)
    /\ status' = RegisterStatus(dyn, name, addr)

Unregister(name) ==
    /\ call' = <<"unregister", name>>
    /\ dyn' = UnregisterExport(dyn, name)
    /\ status' = UnregisterStatus(dyn, name)

Next ==
    \/ \E n \in Names, a \in Addrs : Register(n, a)
    \/ \E n \in Names : Unregister(n)

Spec == Init /\ [][Next]_vars

------------------------------------------------------------------------------
\* The names a caller can bind: every other one is refused.
Bindable == Names \ ({NoName} \cup LongNames \cup DOMAIN Builtins)

Slot == [used : {TRUE}, name : Bindable, addr : Addrs \ {NULL}] \cup {FreeSlot}

\* Every slot is free and zeroed, or holds a name and an address that
\* modloader_export_register lets through (lines 50-64).
TypeOK ==
    /\ dyn \in [Slots -> Slot]
    /\ call \in {<< >>} \cup ({"register", "unregister"} \X Names)
    /\ status \in Statuses

\* No name is in two slots, whatever the order of registrations, replacements
\* and removals that left holes before it: the table is scanned from the first
\* slot, so a second copy would outlive modloader_export_unregister (lines 66-80).
NoDuplicateNames ==
    \A s, t \in Slots :
        dyn[s].used /\ dyn[t].used /\ dyn[s].name = dyn[t].name => s = t

\* What modloader_lookup_export returns for data symbols, as a map of the
\* dynamic names that are bound.
BoundNames == {n \in Bindable : LookupExport(dyn, n, FALSE) # NULL}

Map == INSTANCE ExportMap WITH
           Capacity <- MaxDyn,
           Reserved <- DOMAIN Builtins,
           Addrs <- Addrs \ {NULL},
           bound <- [n \in BoundNames |-> LookupExport(dyn, n, FALSE)]

\* The table, seen through modloader_lookup_export, is a map of at most MaxDyn
\* names: holes left by an unregister are used again, a name that is replaced
\* takes no second slot, an unregistered name is gone, and a registration is
\* refused for lack of room only when MaxDyn other names are bound.
ImplementsMap == Map!Spec
==============================================================================
