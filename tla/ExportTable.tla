----------------------------- MODULE ExportTable -----------------------------
(***************************************************************************)
(* The kernel export table of modloader_export.c as a value: the static    *)
(* table of built-in exports and the array of dynamic slots, with the      *)
(* functions that read and update it.  ModExport makes a state machine of  *)
(* it and ModLoader resolves the imports of a module against it.           *)
(***************************************************************************)
EXTENDS Lk, FiniteSetsExt

CONSTANTS
    MaxDyn,     \* MODLOADER_MAX_DYNAMIC_EXPORTS
    Builtins,   \* modloader_builtin_exports: a function from names to addresses
    LongNames   \* the names of MODLOADER_EXPORT_NAME_MAX characters and more

ASSUME ExportAssumption ==
    /\ MaxDyn \in Nat
    /\ Builtins \in [DOMAIN Builtins -> Nat \ {NULL}]
    /\ NoName \notin DOMAIN Builtins
    /\ LongNames \cap DOMAIN Builtins = {}

Slots == 1 .. MaxDyn
FreeSlot == [used |-> FALSE, name |-> NoName, addr |-> NULL]
NoExports == [s \in Slots |-> FreeSlot]

SlotsOf(table, name) == {s \in Slots : table[s].used /\ table[s].name = name}
FreeSlots(table) == {s \in Slots : ~table[s].used}

\* Two mistakes in the order of the checks, for the mutation runs: a built-in
\* name is let through, and a full table refuses the names that are in it.
RegisterBuiltin(table, name, addr) ==
    IF name = NoName \/ addr = NULL THEN INVALID_ARGS
    ELSE IF name \in LongNames THEN TOO_BIG
    ELSE IF SlotsOf(table, name) \cup FreeSlots(table) = {} THEN NO_MEMORY
    ELSE NO_ERROR

RegisterWhenRoom(table, name, addr) ==
    IF name = NoName \/ addr = NULL THEN INVALID_ARGS
    ELSE IF name \in LongNames THEN TOO_BIG
    ELSE IF name \in DOMAIN Builtins THEN ALREADY_EXISTS
    ELSE IF FreeSlots(table) = {} THEN NO_MEMORY
    ELSE NO_ERROR

RegisterStatus(table, name, addr) ==
    IF name = NoName \/ addr = NULL THEN INVALID_ARGS
    ELSE IF name \in LongNames THEN TOO_BIG
    ELSE IF name \in DOMAIN Builtins THEN ALREADY_EXISTS
    ELSE IF SlotsOf(table, name) \cup FreeSlots(table) = {} THEN NO_MEMORY
    ELSE NO_ERROR

\* The same with one loop for both searches, for the mutation runs.
PlaceFirstFit(table, name, addr) ==
    [table EXCEPT ![Min(SlotsOf(table, name) \cup FreeSlots(table))] =
        [used |-> TRUE, name |-> name, addr |-> addr]]

\* A name that is already there keeps its slot; a new one takes the first free.
PlaceExport(table, name, addr) ==
    IF SlotsOf(table, name) # {}
    THEN [table EXCEPT ![Min(SlotsOf(table, name))].addr = addr]
    ELSE [table EXCEPT ![Min(FreeSlots(table))] =
             [used |-> TRUE, name |-> name, addr |-> addr]]

RegisterExport(table, name, addr) ==
    IF RegisterStatus(table, name, addr) = NO_ERROR
    THEN PlaceExport(table, name, addr)
    ELSE table

UnregisterStatus(table, name) ==
    IF name = NoName THEN INVALID_ARGS
    ELSE IF SlotsOf(table, name) = {} THEN NOT_FOUND
    ELSE NO_ERROR

UnregisterExport(table, name) ==
    IF UnregisterStatus(table, name) = NO_ERROR
    THEN [table EXCEPT ![Min(SlotsOf(table, name))] = FreeSlot]
    ELSE table

ExportVaddr(addr, isFunc) == IF isFunc THEN SetBit0(addr) ELSE addr

LookupExport(table, name, isFunc) ==
    IF name \in DOMAIN Builtins THEN ExportVaddr(Builtins[name], isFunc)
    ELSE IF SlotsOf(table, name) # {}
    THEN ExportVaddr(table[Min(SlotsOf(table, name))].addr, isFunc)
    ELSE NULL
==============================================================================
