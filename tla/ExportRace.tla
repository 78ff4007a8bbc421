----------------------------- MODULE ExportRace -----------------------------
(***************************************************************************)
(* modloader_export.c as two threads see it that preempt each other: there *)
(* is no lock, so a registration, a removal and a lookup are sequences of  *)
(* reads and writes of the slots, byte by byte where they are of a name.   *)
(* Registrations and removals are taken to come one at a time, as they do  *)
(* when one thread makes them; the loader's thread looks names up          *)
(* meanwhile.  A slot's address is an aligned word, read and written at    *)
(* once.  ModExport, whose calls are single steps, is what is to be seen.  *)
(***************************************************************************)
EXTENDS ExportTable

CONSTANTS
    Names, Addrs,   \* of ModExport, the null name and address among them
    NameMax,        \* MODLOADER_EXPORT_NAME_MAX, the size of a slot's name
    Spelling        \* the characters of each name, the first NameMax of them

End == "NUL"
Positions == 1 .. NameMax
Chars == {Spelling[n][k] : n \in Names, k \in Positions} \cup {End}
Blank == [k \in Positions |-> End]

\* strcmp finds two strings equal when it meets their ends at one place.
SameString(a, b) ==
    \E k \in Positions : a[k] = End /\ \A j \in 1 .. k : a[j] = b[j]

\* The names a slot can have.
Storable == Names \ ({NoName} \cup LongNames \cup DOMAIN Builtins)

ASSUME RaceAssumption ==
    /\ NoName \in Names /\ NULL \in Addrs
    /\ NameMax \in Nat \ {0}
    /\ Spelling \in [Names -> [Positions -> Chars]]
    /\ \A n \in Names, k \in Positions :
          /\ n \in LongNames => Spelling[n][k] # End
          /\ Spelling[n][k] = End => \A j \in k .. NameMax : Spelling[n][j] = End
    /\ \A n \in Names \ LongNames : Spelling[n][NameMax] = End
    /\ \A m, n \in Names : SameString(Spelling[m], Spelling[n]) => m = n
    /\ Spelling[NoName] = Blank

VARIABLES
    dyn,        \* modloader_dyn_exports
    writer,     \* the registration or removal: its place, arguments and loops
    reader,     \* the same of the lookup
    value,      \* what the last lookup returned, null while one runs
    call, status,   \* the last registration or removal that took effect
    granted,    \* history: the names calls have bound, and their addresses
    lived,      \* history: addresses names were bound to during the lookup
    own         \* history: those its name had, none once it was being removed

history == <<granted, lived, own>>
raceVars == <<dyn, writer, reader, value, call, status, history>>

\* The parts of a slot that memset zeroes: the bytes of the name are its positions.
Fields == {"used", "addr"}
Parts == (Fields \X {0}) \cup ({"name"} \X Positions)

Zeroed == [used |-> FALSE, text |-> Blank, addr |-> NULL]
Resting == [pc |-> "idle", name |-> NoName, addr |-> NULL, slot |-> 1, at |-> 1,
            left |-> {}]
NoLookup == [pc |-> "idle", name |-> NoName, slot |-> 1, at |-> 1]

RaceInit ==
    /\ dyn = [s \in Slots |-> Zeroed]
    /\ writer = Resting
    /\ reader = NoLookup /\ value = NULL
    /\ call = << >> /\ status = NO_ERROR
    /\ granted = [n \in Names |-> NULL] /\ lived = {} /\ own = {}

------------------------------------------------------------------------------
\* A name is bound to addr, or to nothing, which a lookup lives through.
Grant(name, addr) ==
    /\ granted' = [granted EXCEPT ![name] = addr]
    /\ IF reader = NoLookup THEN UNCHANGED <<lived, own>>
       ELSE /\ lived' = lived \cup {addr}
            /\ own' = IF name # reader.name \/ own = {} THEN own
                      ELSE IF addr = NULL THEN {} ELSE own \cup {addr}

Goto(pc, slot) == writer' = [writer EXCEPT !.pc = pc, !.slot = slot]

\* The call takes effect, and returns.
Effect(op, name, st) == call' = <<op, name>> /\ status' = st
Return == writer' = Resting

\* strcmp in the loops of modloader_export_register and _unregister: nobody
\* else writes a slot.
Holds(slot, name) == dyn[slot].used /\ SameString(dyn[slot].text, Spelling[name])

Refusal(name, addr) ==
    IF name = NoName \/ addr = NULL THEN INVALID_ARGS
    ELSE IF name \in LongNames THEN TOO_BIG
    ELSE IF name \in DOMAIN Builtins THEN ALREADY_EXISTS
    ELSE NO_ERROR

\* The first loop forgotten, for the mutation runs.
RegisterAnew(name, addr) ==
    /\ writer = Resting
    /\ Refusal(name, addr) = NO_ERROR
    /\ writer' = [writer EXCEPT !.pc = "free", !.name = name, !.addr = addr]
    /\ UNCHANGED <<dyn, reader, value, call, status, history>>

Register(name, addr) ==
    /\ writer = Resting
    /\ IF Refusal(name, addr) # NO_ERROR
       THEN Effect("register", name, Refusal(name, addr)) /\ UNCHANGED writer
       ELSE /\ writer' = [writer EXCEPT !.pc = "search", !.name = name, !.addr = addr]
            /\ UNCHANGED <<call, status>>
    /\ UNCHANGED <<dyn, reader, value, history>>

Search ==
    /\ writer.pc = "search"
    /\ IF writer.slot > MaxDyn THEN Goto("free", 1)
       ELSE IF Holds(writer.slot, writer.name) THEN Goto("replace", writer.slot)
       ELSE Goto("search", writer.slot + 1)
    /\ UNCHANGED <<dyn, reader, value, call, status, history>>

\* The address is written: the end of both ways through the call.
WriteAddr ==
    /\ writer.pc \in {"replace", "addr"}
    /\ dyn' = [dyn EXCEPT ![writer.slot].addr = writer.addr]
    /\ Effect("register", writer.name, NO_ERROR) /\ Return
    /\ Grant(writer.name, writer.addr)
    /\ UNCHANGED <<reader, value>>

\* The last slot read beyond, for the mutation runs.
FindFreeBeyond ==
    /\ writer.pc = "free"
    /\ IF writer.slot <= MaxDyn /\ dyn[writer.slot].used
       THEN Goto("free", writer.slot + 1)
       ELSE Goto("take", writer.slot)
    /\ UNCHANGED <<dyn, reader, value, call, status, history>>

FindFree ==
    /\ writer.pc = "free"
    /\ \/ /\ writer.slot > MaxDyn
          /\ Effect("register", writer.name, NO_MEMORY) /\ Return
       \/ /\ writer.slot <= MaxDyn
          /\ IF dyn[writer.slot].used
             THEN Goto("free", writer.slot + 1)
             ELSE Goto("take", writer.slot)
          /\ UNCHANGED <<call, status>>
    /\ UNCHANGED <<dyn, reader, value, history>>

TakeSlot ==
    /\ writer.pc = "take"
    /\ dyn' = [dyn EXCEPT ![writer.slot].used = TRUE]
    /\ Goto("name", writer.slot)
    /\ UNCHANGED <<reader, value, call, status, history>>

\* strlcpy writes the name from its first character to its end.
WriteName ==
    LET char == Spelling[writer.name][writer.at] IN
    /\ writer.pc = "name"
    /\ dyn' = [dyn EXCEPT ![writer.slot].text[writer.at] = char]
    /\ IF char = End THEN Goto("addr", writer.slot)
       ELSE writer' = [writer EXCEPT !.at = @ + 1]
    /\ UNCHANGED <<reader, value, call, status, history>>

------------------------------------------------------------------------------
Unregister(name) ==
    /\ writer = Resting
    /\ IF name = NoName
       THEN Effect("unregister", name, INVALID_ARGS) /\ UNCHANGED writer
       ELSE /\ writer' = [writer EXCEPT !.pc = "find", !.name = name]
            /\ UNCHANGED <<call, status>>
    /\ UNCHANGED <<dyn, reader, value, history>>

Find ==
    /\ writer.pc = "find"
    /\ \/ /\ writer.slot > MaxDyn
          /\ Effect("unregister", writer.name, NOT_FOUND) /\ Return
          /\ UNCHANGED own
       \/ /\ writer.slot <= MaxDyn /\ ~Holds(writer.slot, writer.name)
          /\ Goto("find", writer.slot + 1)
          /\ UNCHANGED <<call, status, own>>
       \/ /\ writer.slot <= MaxDyn /\ Holds(writer.slot, writer.name)
          /\ writer' = [writer EXCEPT !.pc = "clear", !.left = Parts]
          /\ own' = IF reader.name = writer.name THEN {} ELSE own
          /\ UNCHANGED <<call, status>>
    /\ UNCHANGED <<dyn, reader, value, granted, lived>>

Without(slot, part) ==
    CASE part[1] = "used" -> [slot EXCEPT !.used = FALSE]
      [] part[1] = "addr" -> [slot EXCEPT !.addr = NULL]
      [] OTHER -> [slot EXCEPT !.text[part[2]] = End]

\* A slot that has a name and an address, as far as a caller can tell.
Whole(slot) == slot.used /\ slot.addr # NULL

\* Only used is reset, for the mutation runs.
ClearUsed(part) ==
    /\ writer.pc = "clear" /\ part = <<"used", 0>>
    /\ dyn' = [dyn EXCEPT ![writer.slot].used = FALSE]
    /\ Effect("unregister", writer.name, NO_ERROR) /\ Grant(writer.name, NULL)
    /\ Return
    /\ UNCHANGED <<reader, value>>

\* memset zeroes a part of the slot, in some order.  The removal takes effect
\* when used or the address is the first of the two to go.
Clear(part) ==
    /\ writer.pc = "clear" /\ part \in writer.left
    /\ dyn' = [dyn EXCEPT ![writer.slot] = Without(@, part)]
    /\ IF Whole(dyn[writer.slot]) /\ ~Whole(dyn'[writer.slot])
       THEN Effect("unregister", writer.name, NO_ERROR) /\ Grant(writer.name, NULL)
       ELSE UNCHANGED <<call, status, history>>
    /\ IF writer.left = {part} THEN Return
       ELSE writer' = [writer EXCEPT !.left = @ \ {part}]
    /\ UNCHANGED <<reader, value>>

------------------------------------------------------------------------------
\* modloader_lookup_export of a name that is not in the static table.
Answer(addr) ==
    /\ reader' = NoLookup /\ value' = addr
    /\ lived' = {} /\ own' = {} /\ UNCHANGED granted

Look(pc, slot, at) ==
    /\ reader' = [reader EXCEPT !.pc = pc, !.slot = slot, !.at = at]
    /\ UNCHANGED <<value, history>>

Lookup(name) ==
    /\ reader = NoLookup
    /\ reader' = [NoLookup EXCEPT !.pc = "used", !.name = name]
    /\ lived' = {granted[n] : n \in Names}
    /\ own' = IF writer.pc = "clear" /\ writer.name = name THEN {}
              ELSE {granted[name]} \ {NULL}
    /\ value' = NULL
    /\ UNCHANGED <<dyn, writer, call, status, granted>>

\* The last slot forgotten, for the mutation runs.
ReadUsedShort ==
    /\ reader.pc = "used"
    /\ IF reader.slot >= MaxDyn THEN Answer(NULL)
       ELSE IF dyn[reader.slot].used THEN Look("name", reader.slot, 1)
       ELSE Look("used", reader.slot + 1, 1)
    /\ UNCHANGED <<dyn, writer, call, status>>

ReadUsed ==
    /\ reader.pc = "used"
    /\ IF reader.slot > MaxDyn THEN Answer(NULL)
       ELSE IF dyn[reader.slot].used THEN Look("name", reader.slot, 1)
       ELSE Look("used", reader.slot + 1, 1)
    /\ UNCHANGED <<dyn, writer, call, status>>

\* One turn of strcmp's loop.
CompareByte ==
    LET char == dyn[reader.slot].text[reader.at] IN
    /\ reader.pc = "name"
    /\ IF char # Spelling[reader.name][reader.at] THEN Look("used", reader.slot + 1, 1)
       ELSE IF char = End THEN Look("addr", reader.slot, reader.at)
       ELSE Look("name", reader.slot, reader.at + 1)
    /\ UNCHANGED <<dyn, writer, call, status>>

\* Whether the caller asks for a function matters only here.
ReadAddr(isFunc) ==
    /\ reader.pc = "addr"
    /\ Answer(ExportVaddr(dyn[reader.slot].addr, isFunc))
    /\ UNCHANGED <<dyn, writer, call, status>>

------------------------------------------------------------------------------
CallStep ==
    \/ \E n \in Names, a \in Addrs : Register(n, a)
    \/ \E n \in Names : Unregister(n)

WriterStep ==
    \/ Search \/ WriteAddr \/ FindFree \/ TakeSlot \/ WriteName
    \/ Find \/ \E part \in Parts : Clear(part)

ReaderStep == ReadUsed \/ CompareByte \/ \E f \in BOOLEAN : ReadAddr(f)

RaceNext ==
    \/ CallStep \/ WriterStep
    \/ \E n \in Names \ ({NoName} \cup DOMAIN Builtins) : Lookup(n)
    \/ ReaderStep

RaceSpec == RaceInit /\ [][RaceNext]_raceVars

------------------------------------------------------------------------------
Spelled(slot) == Whole(slot) /\ \E n \in Storable : slot.text = Spelling[n]

\* Both threads are at a place of the code with a slot of the table in hand, and
\* a slot that is half written or half zeroed is so by the thread that does it.
RaceTypeOK ==
    /\ dyn \in [Slots -> [used : BOOLEAN, text : [Positions -> Chars], addr : Addrs]]
    /\ writer.slot \in 1 .. MaxDyn + 1 /\ writer.at \in Positions
    /\ writer.pc \in {"replace", "take", "name", "addr", "clear"} => writer.slot \in Slots
    /\ reader.slot \in 1 .. MaxDyn + 1 /\ reader.at \in Positions
    /\ reader.pc \in {"name", "addr"} => reader.slot \in Slots
    /\ \A s \in Slots : dyn[s] = Zeroed \/ Spelled(dyn[s]) \/
          (writer.slot = s /\ writer.pc \in {"name", "addr", "clear"})

LookupEnds == reader # NoLookup /\ reader' = NoLookup

\* A lookup answers null or an address that some name was bound to while it
\* ran (null with the Thumb bit, 1, when a function's slot is half written),
\* never what an earlier occupant left in a slot that is taken again: memset
\* zeroes the address before anybody else can have the slot.  It may be another
\* name's: the name is compared and the address read one after the other, the
\* name byte by byte, and the slot may change hands between any two.
AnswerLived ==
    [][LookupEnds =>
          \E a \in lived \cup {NULL}, f \in BOOLEAN : value' = ExportVaddr(a, f)]_raceVars

\* The places where a name has a character that no other has there.
TellingAt(name) ==
    {k \in Positions :
        /\ Spelling[name][k] # End
        /\ \A n \in Storable \ {name} : Spelling[n][k] # Spelling[name][k]}

\* A name that is bound all through a lookup is found, at an address it had
\* meanwhile, however many others come and go and however it is rebound: names
\* never move between slots.  It has to have a character of its own: strcmp
\* may read the beginning of one occupant of a slot and the rest of the next,
\* and a name that is such a mixture ("ac", of "ax" and "bc"), or a beginning
\* of one that is being written, is answered from that slot, with another
\* name's address or null.
StableNameFound ==
    [][LookupEnds /\ own # {} /\ TellingAt(reader.name) # {}
          => \E a \in own, f \in BOOLEAN : value' = ExportVaddr(a, f)]_raceVars

\* The name a whole slot has; one that is being zeroed has it until it is gone.
NameOf(s) ==
    IF writer.pc = "clear" /\ writer.slot = s THEN writer.name
    ELSE CHOOSE n \in Storable : Spelling[n] = dyn[s].text

Settled ==
    [s \in Slots |->
        IF Whole(dyn[s]) THEN [used |-> TRUE, name |-> NameOf(s), addr |-> dyn[s].addr]
        ELSE FreeSlot]

Atomic == INSTANCE ModExport WITH dyn <- Settled

\* Registrations and removals that come one at a time are single steps to
\* everybody, and see all that came before: a registration takes effect when
\* the address, which is written last, is there, a removal with the first of
\* used and the address that is zeroed.
ImplementsCalls == Atomic!Spec
==============================================================================
