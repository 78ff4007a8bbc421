-------------------------- MODULE ExportRaceProofs --------------------------
(***************************************************************************)
(* What a lookup sees of a table that is written byte by byte meanwhile,   *)
(* for any number of slots, names, addresses and characters.               *)
(***************************************************************************)
EXTENDS ExportRace, ExportTableProofs

Pcs == {"idle", "search", "replace", "free", "take", "name", "addr", "find", "clear"}
Registering == {"search", "replace", "free", "take", "name", "addr"}
Writing == {"name", "addr", "clear"}

Entries == [used : BOOLEAN, text : [Positions -> Chars], addr : Addrs]
Writers == [pc : Pcs, name : Names, addr : Addrs, slot : 1 .. MaxDyn + 1,
            at : Positions, left : SUBSET Parts]
Sought == Names \ ({NoName} \cup DOMAIN Builtins)
Lookups == [pc : {"used", "name", "addr"}, name : Sought, slot : 1 .. MaxDyn + 1,
            at : Positions]

Typed ==
    /\ dyn \in [Slots -> Entries] /\ granted \in [Names -> Addrs]
    /\ writer \in Writers
    /\ reader = NoLookup \/ reader \in Lookups
    /\ reader.pc \in {"name", "addr"} => reader.slot \in Slots

\* A slot has a name for good, or until its removal takes effect.
Leaving(s) == writer.pc = "clear" /\ writer.slot = s
Bound(s, n) ==
    /\ Whole(dyn[s])
    /\ IF Leaving(s) THEN n = writer.name ELSE dyn[s].text = Spelling[n]

\* What is left of a slot while memset zeroes it.
UsedPart == <<"used", 0>>
AddrPart == <<"addr", 0>>
NamePart(k) == <<"name", k>>

Fading(slot, name, left) ==
    /\ slot.used <=> UsedPart \in left
    /\ slot.addr # NULL <=> AddrPart \in left
    /\ \A k \in Positions :
          slot.text[k] = IF NamePart(k) \in left THEN Spelling[name][k] ELSE End

\* The name of a slot as far as strlcpy has written it.
Begun(slot, name, at) ==
    \A k \in Positions :
        /\ slot.text[k] = IF k < at THEN Spelling[name][k] ELSE End
        /\ k < at => Spelling[name][k] # End

\* What a call knows of its arguments and of the slots, at each of its places.
Given ==
    /\ writer.pc \in Registering => writer.name \in Storable /\ writer.addr # NULL
    /\ writer.pc = "clear" => writer.name \in Storable

Searched ==
    /\ writer.pc = "search" => \A s \in Slots : s < writer.slot => ~Bound(s, writer.name)
    /\ writer.pc = "replace" => writer.slot \in Slots /\ Bound(writer.slot, writer.name)
    /\ writer.pc \in {"free", "take", "name", "addr"} =>
          \A s \in Slots : ~Bound(s, writer.name)
    /\ writer.pc = "clear" =>
          \A s \in Slots : Bound(s, writer.name) => s = writer.slot
    /\ writer.pc \in {"take", "name", "addr", "clear"} => writer.slot \in Slots

Written ==
    LET slot == dyn[writer.slot] IN
    /\ writer.pc = "take" => slot = Zeroed
    /\ writer.pc \in {"name", "addr"} => slot.used /\ slot.addr = NULL
    /\ writer.pc = "name" => Begun(slot, writer.name, writer.at)
    /\ writer.pc = "addr" => slot.text = Spelling[writer.name]
    /\ writer.pc = "clear" => writer.left # {} /\ Fading(slot, writer.name, writer.left)
    /\ writer.pc \in {"idle", "search", "replace", "free", "take", "find"} => writer.at = 1

\* Only the slot in hand is neither zeroed nor spelled.
InHand(s) == writer.slot = s /\ writer.pc \in Writing
Others == \A s \in Slots : InHand(s) \/ dyn[s] = Zeroed \/ Spelled(dyn[s])

\* No name is in two slots, and the slots' names are those calls have bound.
Unique == \A s, t \in Slots, n \in Names : Bound(s, n) /\ Bound(t, n) => s = t
Accounted ==
    /\ \A s \in Slots, n \in Names : Bound(s, n) => granted[n] = dyn[s].addr
    /\ \A n \in Names : granted[n] # NULL => \E s \in Slots : Bound(s, n)

\* A lookup has every address names were bound to since it began in lived, and
\* is in no slot with another; and the slot of a name that stays bound is not
\* behind it.  In a slot before, it has not passed a character of the name's own.
Passing ==
    TellingAt(reader.name) # {} =>
        /\ reader.pc # "addr"
        /\ reader.pc = "name" => \A k \in TellingAt(reader.name) : reader.at <= k

Ahead(s) ==
    /\ Bound(s, reader.name) /\ ~Leaving(s)
    /\ dyn[s].addr \in own
    /\ reader.slot <= s
    /\ reader.slot # s => Passing

Reading ==
    reader # NoLookup =>
        /\ \A n \in Names : granted[n] \in lived
        /\ reader.pc \in {"name", "addr"} => dyn[reader.slot].addr \in lived \cup {NULL}
        /\ own # {} => \E s \in Slots : Ahead(s)

WriterInv == Given /\ Searched /\ Written /\ Others
RInv == Typed /\ WriterInv /\ Unique /\ Accounted /\ Reading

------------------------------------------------------------------------------
LEMMA Ranges ==
    /\ MaxDyn \in Nat /\ Slots = 1 .. MaxDyn /\ Slots \subseteq 1 .. MaxDyn + 1
    /\ NameMax \in Nat /\ 1 \in Positions /\ NameMax \in Positions
    /\ Positions = 1 .. NameMax
    /\ End \in Chars /\ Spelling \in [Names -> [Positions -> Chars]]
    /\ Storable \subseteq Names /\ NoName \in Names /\ NULL \in Addrs
BY ExportAssumption, RaceAssumption DEF Slots, Positions, Chars, Storable

LEMMA RestingFacts ==
    /\ Resting \in Writers /\ Resting.pc = "idle" /\ Resting.slot = 1 /\ Resting.at = 1
    /\ NoLookup.pc = "idle" /\ NoLookup \notin Lookups
    /\ NoLookup.slot = 1 /\ NoLookup.at = 1 /\ NoLookup.name = NoName
BY Ranges DEF Resting, Writers, Pcs, NoLookup, Lookups

LEMMA ZeroedFacts ==
    /\ Zeroed \in Entries /\ ~Zeroed.used /\ Zeroed.text = Blank /\ Zeroed.addr = NULL
    /\ ~Whole(Zeroed) /\ ~Spelled(Zeroed)
    /\ \A k \in Positions : Blank[k] = End
BY Ranges DEF Zeroed, Entries, Blank, Whole, Spelled

\* The spelling of a name that a slot can have ends within the slot.
LEMMA StorableFacts ==
    ASSUME NEW n \in Storable
    PROVE  /\ n \in Names /\ n # NoName
           /\ Spelling[n] \in [Positions -> Chars]
           /\ Spelling[n][NameMax] = End
           /\ \A j, k \in Positions : Spelling[n][k] = End /\ k <= j => Spelling[n][j] = End
<1>1. n \in Names \ LongNames /\ n # NoName
  BY DEF Storable
<1>2. \A j, k \in Positions : k <= j => j \in k .. NameMax
  BY Ranges
<1> QED
  BY <1>1, <1>2, Ranges, RaceAssumption

\* A string that ends has a first end.
LEMMA SameSelf ==
    ASSUME NEW n \in Storable
    PROVE  SameString(Spelling[n], Spelling[n])
<1>1. 1 .. NameMax \subseteq Positions
  BY DEF Positions
<1> QED
  BY <1>1, Ranges, StorableFacts DEF SameString

\* strcmp tells the names of slots from all others.
LEMMA StrcmpTells ==
    ASSUME NEW m \in Storable, NEW n \in Names
    PROVE  /\ SameString(Spelling[m], Spelling[n]) <=> m = n
           /\ Spelling[m] = Spelling[n] <=> m = n
BY SameSelf, StorableFacts, RaceAssumption

LEMMA PartFacts ==
    /\ UsedPart \in Parts /\ AddrPart \in Parts /\ UsedPart # AddrPart
    /\ \A k \in Positions : NamePart(k) \in Parts
    /\ \A k \in Positions : NamePart(k) # UsedPart /\ NamePart(k) # AddrPart
    /\ \A j, k \in Positions : NamePart(j) = NamePart(k) => j = k
    /\ \A p \in Parts : p = UsedPart \/ p = AddrPart \/ \E k \in Positions : p = NamePart(k)
<1>1. /\ UsedPart \in Parts /\ AddrPart \in Parts /\ UsedPart # AddrPart
      /\ \A k \in Positions : NamePart(k) \in Parts
  BY DEF UsedPart, AddrPart, NamePart, Parts, Fields
<1>2. \A k \in Positions : NamePart(k) # UsedPart /\ NamePart(k) # AddrPart
  BY DEF UsedPart, AddrPart, NamePart
<1>3. \A j, k \in Positions : NamePart(j) = NamePart(k) => j = k
  BY DEF NamePart
<1>4. ASSUME NEW p \in Parts
      PROVE  p = UsedPart \/ p = AddrPart \/ \E k \in Positions : p = NamePart(k)
  BY <1>4 DEF UsedPart, AddrPart, NamePart, Parts, Fields
<1> QED
  BY <1>1, <1>2, <1>3, <1>4

------------------------------------------------------------------------------
\* The names of slots.
LEMMA BoundFacts ==
    ASSUME Typed, WriterInv, NEW s \in Slots
    PROVE  /\ Whole(dyn[s]) => \E n \in Storable : Bound(s, n)
           /\ \A n \in Names : Bound(s, n) => n \in Storable
           /\ \A m, n \in Names : Bound(s, m) /\ Bound(s, n) => m = n
<1>1. CASE Leaving(s)
  BY <1>1, Ranges DEF Bound, Leaving, WriterInv, Given
<1>2. CASE ~Leaving(s)
  <2>1. Whole(dyn[s]) => Spelled(dyn[s])
    BY <1>2, ZeroedFacts DEF WriterInv, Others, InHand, Writing, Leaving, Written, Whole
  <2>2. ASSUME Whole(dyn[s])
        PROVE  \E m \in Storable : \A n \in Names : Bound(s, n) <=> n = m
    <3>1. PICK m \in Storable : dyn[s].text = Spelling[m]
      BY <2>1, <2>2 DEF Spelled
    <3> QED
      BY <1>2, <2>2, <3>1, StrcmpTells DEF Bound
  <2> QED
    BY <2>2, Ranges DEF Bound
<1> QED
  BY <1>1, <1>2

\* Every character in a slot is of a name that is bound there or in hand there.
LEMMA TextFacts ==
    ASSUME Typed, WriterInv, NEW s \in Slots, NEW k \in Positions
    PROVE  \/ dyn[s].text[k] = End
           \/ \E n \in Storable :
                 /\ dyn[s].text[k] = Spelling[n][k]
                 /\ Bound(s, n) \/ (InHand(s) /\ n = writer.name)
<1>1. CASE dyn[s] = Zeroed
  BY <1>1, ZeroedFacts
<1>2. CASE Spelled(dyn[s]) /\ ~InHand(s)
  BY <1>2 DEF Spelled, Bound, Leaving, InHand, Writing
<1>3. CASE InHand(s)
  <2>1. writer.name \in Storable
    BY <1>3 DEF InHand, Writing, WriterInv, Given, Registering
  <2>2. dyn[s].text[k] = End \/ dyn[s].text[k] = Spelling[writer.name][k]
    BY <1>3 DEF InHand, Writing, WriterInv, Written, Begun, Fading
  <2> QED
    BY <1>3, <2>1, <2>2
<1> QED
  BY <1>1, <1>2, <1>3 DEF WriterInv, Others

LEMMA LastIsEnd ==
    ASSUME Typed, WriterInv, NEW s \in Slots
    PROVE  dyn[s].text[NameMax] = End
BY TextFacts, StorableFacts, Ranges

\* A character of a name's own is in no slot but the name's.
LEMMA Foreign ==
    ASSUME RInv, NEW n \in Names, NEW s \in Slots, Bound(s, n), ~Leaving(s),
           NEW t \in Slots, t # s, NEW k \in TellingAt(n)
    PROVE  dyn[t].text[k] # Spelling[n][k]
<1>1. k \in Positions /\ Spelling[n][k] # End
  BY DEF TellingAt
<1>2. ASSUME NEW m \in Storable, Bound(t, m) \/ (InHand(t) /\ m = writer.name)
      PROVE  m # n
  <2>1. CASE Bound(t, m)
    BY <2>1, Ranges DEF RInv, Unique
  <2>2. CASE InHand(t) /\ m = writer.name
    BY <2>2 DEF RInv, WriterInv, Searched, InHand, Writing, Bound
  <2> QED
    BY <1>2, <2>1, <2>2
<1>3. \A m \in Storable \ {n} : Spelling[m][k] # Spelling[n][k]
  BY DEF TellingAt
<1> QED
  BY <1>1, <1>2, <1>3, TextFacts DEF RInv

------------------------------------------------------------------------------
\* The steps that neither bind a name nor take one away.
LEMMA AllStays == RInv /\ UNCHANGED <<dyn, writer, reader, history>> => RInv'
BY DEF RInv, Typed, WriterInv, Given, Searched, Written, Others, Unique, Accounted,
   Reading, history, InHand, Bound, Leaving, Ahead, Passing

LEMMA Moves ==
    ASSUME Typed, NEW p \in Pcs, NEW k \in 1 .. MaxDyn + 1, Goto(p, k)
    PROVE  /\ writer' \in Writers /\ writer'.pc = p /\ writer'.slot = k
           /\ writer'.name = writer.name /\ writer'.addr = writer.addr
           /\ writer'.at = writer.at /\ writer'.left = writer.left
BY DEF Typed, Goto, Writers

LEMMA BoundStays ==
    ASSUME UNCHANGED dyn, writer.pc # "clear", writer'.pc # "clear"
    PROVE  \A s, n : Bound(s, n)' <=> Bound(s, n)
BY DEF Bound, Leaving

LEMMA Steady ==
    ASSUME RInv, dyn' \in [Slots -> Entries], writer' \in Writers,
           UNCHANGED <<reader, granted, lived>>, own' = own \/ own' = {},
           own' # {} => \A s \in Slots : Ahead(s) => ~Leaving(s)',
           \A s \in Slots :
               /\ \A n \in Names : Bound(s, n)' <=> Bound(s, n)
               /\ dyn'[s].addr = dyn[s].addr \/ dyn'[s].addr = NULL
    PROVE  Typed' /\ Unique' /\ Accounted' /\ Reading'
<1>1. Typed'
  BY DEF RInv, Typed
<1>2. \A s \in Slots, n \in Names : Bound(s, n) => dyn'[s].addr = dyn[s].addr
  BY DEF Bound, Whole
<1>3. Unique' /\ Accounted'
  BY <1>2 DEF RInv, Unique, Accounted
<1>4. CASE reader = NoLookup
  BY <1>1, <1>3, <1>4 DEF Reading
<1>5. CASE reader # NoLookup
  <2>1. reader \in Lookups /\ reader.name \in Names
    BY <1>5 DEF RInv, Typed, Lookups, Sought
  <2>2. ASSUME own' # {}, NEW s \in Slots, Ahead(s) PROVE Ahead(s)'
    BY <1>2, <2>1, <2>2 DEF Ahead, Passing
  <2>3. reader.pc \in {"name", "addr"} => dyn'[reader.slot].addr \in lived \cup {NULL}
    BY <1>5 DEF RInv, Typed, Reading
  <2> QED
    BY <1>1, <1>3, <1>5, <2>2, <2>3 DEF RInv, Reading
<1> QED
  BY <1>4, <1>5

\* A place of a call from which the table is only read.
LEMMA QuietStep ==
    ASSUME RInv, UNCHANGED <<dyn, reader, history>>, writer' \in Writers,
           writer.pc \notin Writing, writer'.pc \notin Writing,
           Given', Searched', Written'
    PROVE  RInv'
<1>1. \A s, n : Bound(s, n)' <=> Bound(s, n)
  BY BoundStays DEF Writing
<1>2. \A s : ~Leaving(s)'
  BY DEF Leaving, Writing
<1>3. Typed' /\ Unique' /\ Accounted' /\ Reading'
  BY <1>1, <1>2, Steady DEF RInv, Typed, history
<1>4. Others'
  BY DEF RInv, WriterInv, Others, InHand
<1> QED
  BY <1>3, <1>4 DEF RInv, WriterInv

LEMMA Returns ==
    ASSUME RInv, UNCHANGED <<dyn, reader, history>>, writer.pc \notin Writing, Return
    PROVE  RInv'
<1>1. writer' = Resting
  BY DEF Return
<1>2. Given' /\ Searched' /\ Written'
  BY <1>1, RestingFacts DEF Given, Searched, Written, Registering
<1> QED
  BY <1>1, <1>2, RestingFacts, QuietStep DEF Writing

LEMMA CallKeeps ==
    ASSUME RInv, CallStep
    PROVE  RInv'
<1>1. writer = Resting /\ UNCHANGED <<dyn, reader, history>>
  BY DEF CallStep, Register, Unregister
<1>2. CASE UNCHANGED writer
  BY <1>1, <1>2, AllStays
<1>3. ASSUME NEW n \in Names, NEW a \in Addrs, Register(n, a), writer' # writer
      PROVE  RInv'
  <2>1. /\ Refusal(n, a) = NO_ERROR
        /\ writer' = [Resting EXCEPT !.pc = "search", !.name = n, !.addr = a]
    BY <1>1, <1>3 DEF Register
  <2>2. /\ writer' \in Writers /\ writer'.pc = "search" /\ writer'.name = n
        /\ writer'.addr = a /\ writer'.slot = 1 /\ writer'.at = 1
    BY <2>1, RestingFacts DEF Writers, Pcs
  <2>3. n \in Storable /\ a # NULL
    BY <2>1 DEF Refusal, Storable, NO_ERROR, INVALID_ARGS, TOO_BIG, ALREADY_EXISTS
  <2>4. \A s \in Slots : ~(s < 1)
    BY Ranges
  <2>5. Given' /\ Searched' /\ Written'
    BY <2>2, <2>3, <2>4 DEF Given, Searched, Written
  <2> QED
    BY <1>1, <2>2, <2>5, RestingFacts, QuietStep DEF Writing
<1>4. ASSUME NEW n \in Names, Unregister(n), writer' # writer
      PROVE  RInv'
  <2>1. writer' = [Resting EXCEPT !.pc = "find", !.name = n]
    BY <1>1, <1>4 DEF Unregister
  <2>2. /\ writer' \in Writers /\ writer'.pc = "find" /\ writer'.at = 1
    BY <2>1, RestingFacts DEF Writers, Pcs
  <2>3. Given' /\ Searched' /\ Written'
    BY <2>2 DEF Given, Searched, Written, Registering
  <2> QED
    BY <1>1, <2>2, <2>3, RestingFacts, QuietStep DEF Writing
<1> QED
  BY <1>2, <1>3, <1>4 DEF CallStep

\* strcmp finds the slot a name is bound in, when none is half written.
LEMMA HoldsFacts ==
    ASSUME RInv, writer.pc \notin Writing, NEW s \in Slots
    PROVE  /\ dyn[s] = Zeroed \/ Spelled(dyn[s])
           /\ \A n \in Names : Holds(s, n) <=> Bound(s, n)
<1>1. dyn[s] = Zeroed \/ Spelled(dyn[s])
  BY DEF RInv, WriterInv, Others, InHand
<1>2. ~Leaving(s)
  BY DEF Leaving, Writing
<1>3. CASE dyn[s] = Zeroed
  BY <1>3, ZeroedFacts DEF Holds, Bound
<1>4. CASE Spelled(dyn[s])
  <2>1. PICK m \in Storable : dyn[s].text = Spelling[m]
    BY <1>4 DEF Spelled
  <2> QED
    BY <1>2, <1>4, <2>1, StrcmpTells DEF Holds, Bound, Spelled, Whole
<1> QED
  BY <1>1, <1>3, <1>4

LEMMA NextSlot ==
    ASSUME Typed
    PROVE  /\ writer.slot \in 1 .. MaxDyn + 1 /\ writer.name \in Names
           /\ writer.slot > MaxDyn => \A s \in Slots : s < writer.slot
           /\ ~(writer.slot > MaxDyn) => writer.slot \in Slots /\ writer.slot + 1 \in 1 .. MaxDyn + 1
           /\ writer.slot <= MaxDyn <=> ~(writer.slot > MaxDyn)
           /\ \A s \in Slots : s < writer.slot + 1 => s < writer.slot \/ s = writer.slot
BY Ranges DEF Typed, Writers

LEMMA SearchKeeps ==
    ASSUME RInv, Search
    PROVE  RInv'
<1>1. /\ UNCHANGED <<dyn, reader, history>> /\ writer.pc = "search" /\ Typed
      /\ writer.name \in Storable /\ writer.addr # NULL /\ writer.at = 1
      /\ \A s \in Slots : s < writer.slot => ~Bound(s, writer.name)
  BY DEF Search, RInv, WriterInv, Given, Searched, Written, Registering
<1>2. ASSUME NEW p \in {"free", "replace", "search"}, NEW k \in 1 .. MaxDyn + 1, Goto(p, k),
             p = "free" => \A s \in Slots : ~Bound(s, writer.name),
             p = "replace" => k \in Slots /\ Bound(k, writer.name),
             p = "search" => \A s \in Slots : s < k => ~Bound(s, writer.name)
      PROVE  RInv'
  <2>1. p \in Pcs
    BY DEF Pcs
  <2>2. /\ writer' \in Writers /\ writer'.pc = p /\ writer'.slot = k /\ writer'.at = 1
        /\ writer'.name = writer.name /\ writer'.addr = writer.addr
    BY <1>1, <1>2, <2>1, Moves
  <2>3. \A s, n : Bound(s, n)' <=> Bound(s, n)
    BY <1>1, <2>2, BoundStays
  <2>4. Given' /\ Searched' /\ Written'
    BY <1>1, <1>2, <2>2, <2>3 DEF Given, Searched, Written
  <2> QED
    BY <1>1, <2>2, <2>4, QuietStep DEF Writing
<1>3. CASE writer.slot > MaxDyn
  <2>1. Goto("free", 1) /\ 1 \in 1 .. MaxDyn + 1
    BY <1>3, Ranges DEF Search
  <2> QED
    BY <1>1, <1>2, <1>3, <2>1, NextSlot
<1>4. CASE ~(writer.slot > MaxDyn) /\ Holds(writer.slot, writer.name)
  <2>1. Goto("replace", writer.slot) /\ writer.slot \in Slots
    BY <1>1, <1>4, NextSlot DEF Search
  <2>2. Bound(writer.slot, writer.name)
    BY <1>1, <1>4, <2>1, NextSlot, HoldsFacts DEF Writing
  <2> QED
    BY <1>1, <1>2, <2>1, <2>2, NextSlot
<1>5. CASE ~(writer.slot > MaxDyn) /\ ~Holds(writer.slot, writer.name)
  <2>1. Goto("search", writer.slot + 1) /\ writer.slot \in Slots
    BY <1>1, <1>5, NextSlot DEF Search
  <2>2. ~Bound(writer.slot, writer.name)
    BY <1>1, <1>5, <2>1, NextSlot, HoldsFacts DEF Writing
  <2> QED
    BY <1>1, <1>2, <1>5, <2>1, <2>2, NextSlot
<1> QED
  BY <1>3, <1>4, <1>5

LEMMA FreeKeeps ==
    ASSUME RInv, FindFree
    PROVE  RInv'
<1>1. /\ UNCHANGED <<dyn, reader, history>> /\ writer.pc = "free" /\ Typed
      /\ writer.name \in Storable /\ writer.addr # NULL /\ writer.at = 1
      /\ \A s \in Slots : ~Bound(s, writer.name)
  BY DEF FindFree, RInv, WriterInv, Given, Searched, Written, Registering
<1>2. CASE Return
  BY <1>1, <1>2, Returns DEF Writing
<1>3. ASSUME NEW p \in {"free", "take"}, NEW k \in 1 .. MaxDyn + 1, Goto(p, k),
             p = "take" => k \in Slots /\ dyn[k] = Zeroed
      PROVE  RInv'
  <2>1. p \in Pcs
    BY DEF Pcs
  <2>2. /\ writer' \in Writers /\ writer'.pc = p /\ writer'.slot = k /\ writer'.at = 1
        /\ writer'.name = writer.name /\ writer'.addr = writer.addr
    BY <1>1, <1>3, <2>1, Moves
  <2>3. \A s, n : Bound(s, n)' <=> Bound(s, n)
    BY <1>1, <2>2, BoundStays
  <2>4. Given' /\ Searched' /\ Written'
    BY <1>1, <1>3, <2>2, <2>3 DEF Given, Searched, Written
  <2> QED
    BY <1>1, <2>2, <2>4, QuietStep DEF Writing
<1>4. CASE ~(writer.slot > MaxDyn) /\ dyn[writer.slot].used /\ ~Return
  <2>1. Goto("free", writer.slot + 1)
    BY <1>1, <1>4, NextSlot DEF FindFree
  <2> QED
    BY <1>1, <1>3, <1>4, <2>1, NextSlot
<1>5. CASE ~(writer.slot > MaxDyn) /\ ~dyn[writer.slot].used /\ ~Return
  <2>1. Goto("take", writer.slot) /\ writer.slot \in Slots
    BY <1>1, <1>5, NextSlot DEF FindFree
  <2>2. dyn[writer.slot] = Zeroed
    BY <1>1, <1>5, <2>1, HoldsFacts DEF Writing, Spelled, Whole
  <2> QED
    BY <1>1, <1>3, <2>1, <2>2, NextSlot
<1> QED
  BY <1>1, <1>2, <1>4, <1>5, NextSlot DEF FindFree

LEMMA FindKeeps ==
    ASSUME RInv, Find
    PROVE  RInv'
<1>1. /\ UNCHANGED <<dyn, reader, granted, lived>> /\ writer.pc = "find" /\ Typed
      /\ writer.at = 1
  BY DEF Find, RInv, WriterInv, Written
<1>2. CASE Return /\ UNCHANGED own
  BY <1>1, <1>2, Returns DEF Writing, history
<1>3. CASE writer.slot <= MaxDyn /\ Goto("find", writer.slot + 1) /\ UNCHANGED own
  <2>1. "find" \in Pcs /\ writer.slot + 1 \in 1 .. MaxDyn + 1
    BY <1>1, <1>3, NextSlot DEF Pcs
  <2>2. /\ writer' \in Writers /\ writer'.pc = "find" /\ writer'.at = 1
    BY <1>1, <1>3, <2>1, Moves
  <2>3. Given' /\ Searched' /\ Written'
    BY <2>2 DEF Given, Searched, Written, Registering
  <2> QED
    BY <1>1, <1>3, <2>2, <2>3, QuietStep DEF Writing, history
<1>4. CASE /\ writer.slot <= MaxDyn /\ Holds(writer.slot, writer.name)
           /\ writer' = [writer EXCEPT !.pc = "clear", !.left = Parts]
           /\ own' = IF reader.name = writer.name THEN {} ELSE own
  <2> DEFINE k == writer.slot
  <2>1. k \in Slots /\ writer.name \in Names /\ k \in 1 .. MaxDyn + 1
    BY <1>1, <1>4, NextSlot
  <2>2. /\ writer' \in Writers /\ writer'.pc = "clear" /\ writer'.left = Parts
        /\ writer'.name = writer.name /\ writer'.slot = k /\ writer'.at = 1
    BY <1>1, <1>4 DEF Typed, Writers, Pcs
  <2>3. Bound(k, writer.name)
    BY <1>1, <1>4, <2>1, HoldsFacts DEF Writing
  <2>4. writer.name \in Storable /\ \A n \in Names : Bound(k, n) => n = writer.name
    BY <2>1, <2>3, BoundFacts DEF RInv
  <2>5. dyn[k].text = Spelling[writer.name] /\ Whole(dyn[k])
    BY <1>1, <2>3 DEF Bound, Leaving
  <2>6. \A s \in Slots : Leaving(s)' <=> s = k
    BY <2>2 DEF Leaving
  <2>7. \A s \in Slots, n \in Names : Bound(s, n)' <=> Bound(s, n)
    <3> SUFFICES ASSUME NEW s \in Slots, NEW n \in Names PROVE Bound(s, n)' <=> Bound(s, n)
      OBVIOUS
    <3>1. CASE s = k
      BY <1>1, <2>2, <2>3, <2>4, <2>5, <2>6, <3>1 DEF Bound
    <3>2. CASE s # k
      BY <1>1, <2>6, <3>2 DEF Bound, Leaving
    <3> QED
      BY <3>1, <3>2
  <2>8. ASSUME own' # {}, NEW s \in Slots, Ahead(s) PROVE ~Leaving(s)'
    <3>1. reader.name # writer.name
      BY <1>4, <2>8
    <3>2. reader.name \in Names
      BY <1>1, RestingFacts, Ranges DEF Typed, Lookups, Sought
    <3> QED
      BY <2>4, <2>6, <2>8, <3>1, <3>2 DEF Ahead
  <2>9. Typed' /\ Unique' /\ Accounted' /\ Reading'
    BY <1>1, <1>4, <2>2, <2>7, <2>8, Steady DEF Typed
  <2>10. Given' /\ Searched'
    <3>1. \A s \in Slots : Bound(s, writer.name) => s = k
      BY <2>1, <2>3 DEF RInv, Unique
    <3> QED
      BY <2>1, <2>2, <2>4, <2>7, <3>1 DEF Given, Searched, Registering
  <2>11. Written'
    BY <1>1, <2>2, <2>5, PartFacts DEF Written, Fading, Whole
  <2>12. Others'
    BY <1>1, <2>2 DEF RInv, WriterInv, Others, InHand, Writing
  <2> QED
    BY <2>9, <2>10, <2>11, <2>12 DEF RInv, WriterInv
<1> QED
  BY <1>2, <1>3, <1>4 DEF Find

------------------------------------------------------------------------------
\* The steps that write the slot in hand, which is the only one they change.
Put(k, e) == dyn' = [dyn EXCEPT ![k] = e]

LEMMA PutFacts ==
    ASSUME Typed, NEW k \in Slots, NEW e \in Entries, Put(k, e)
    PROVE  /\ dyn' \in [Slots -> Entries] /\ dyn'[k] = e
           /\ \A s \in Slots : s # k => dyn'[s] = dyn[s]
BY DEF Typed, Put

\* The entry that results from writing one field, or one character.
LEMMA WithUsed ==
    ASSUME NEW e \in Entries, NEW u \in BOOLEAN
    PROVE  /\ [e EXCEPT !.used = u] \in Entries /\ [e EXCEPT !.used = u].used = u
           /\ [e EXCEPT !.used = u].text = e.text /\ [e EXCEPT !.used = u].addr = e.addr
BY DEF Entries

LEMMA WithAddr ==
    ASSUME NEW e \in Entries, NEW a \in Addrs
    PROVE  /\ [e EXCEPT !.addr = a] \in Entries /\ [e EXCEPT !.addr = a].addr = a
           /\ [e EXCEPT !.addr = a].text = e.text /\ [e EXCEPT !.addr = a].used = e.used
BY DEF Entries

LEMMA WithChar ==
    ASSUME NEW e \in Entries, NEW k \in Positions, NEW c \in Chars
    PROVE  /\ [e EXCEPT !.text[k] = c] \in Entries
           /\ [e EXCEPT !.text[k] = c].used = e.used /\ [e EXCEPT !.text[k] = c].addr = e.addr
           /\ [e EXCEPT !.text[k] = c].text[k] = c
           /\ \A j \in Positions : j # k => [e EXCEPT !.text[k] = c].text[j] = e.text[j]
BY DEF Entries

LEMMA PutFields ==
    ASSUME NEW k, NEW c, NEW j
    PROVE  /\ [dyn EXCEPT ![k].used = c] = [dyn EXCEPT ![k] = [dyn[k] EXCEPT !.used = c]]
           /\ [dyn EXCEPT ![k].addr = c] = [dyn EXCEPT ![k] = [dyn[k] EXCEPT !.addr = c]]
           /\ [dyn EXCEPT ![k].text[j] = c] = [dyn EXCEPT ![k] = [dyn[k] EXCEPT !.text[j] = c]]
OBVIOUS

\* In the other slots nothing changes.
LEMMA OtherSlots ==
    ASSUME NEW k \in Slots, writer.slot = k, writer'.pc = "clear" => writer'.slot = k,
           NEW s \in Slots, s # k, dyn'[s] = dyn[s]
    PROVE  /\ \A n : Bound(s, n)' <=> Bound(s, n)
           /\ ~Leaving(s) /\ ~Leaving(s)'
BY DEF Bound, Leaving

\* A slot that is not whole, before and after: no lookup finds another address.
LEMMA HalfWrite ==
    ASSUME RInv, NEW k \in Slots, NEW e \in Entries, Put(k, e), writer.slot = k,
           writer' \in Writers, writer'.pc # "clear",
           UNCHANGED <<reader, history>>,
           ~Whole(dyn[k]), ~Whole(e), e.addr = NULL
    PROVE  Typed' /\ Unique' /\ Accounted' /\ Reading' /\ \A s \in Slots, n \in Names :
               Bound(s, n)' <=> Bound(s, n)
<1>1. dyn' \in [Slots -> Entries] /\ dyn'[k] = e /\ \A s \in Slots : s # k => dyn'[s] = dyn[s]
  BY PutFacts DEF RInv
<1>2. \A s \in Slots : ~Leaving(s)'
  BY DEF Leaving
<1>3. ASSUME NEW s \in Slots
      PROVE  /\ \A n \in Names : Bound(s, n)' <=> Bound(s, n)
             /\ dyn'[s].addr = dyn[s].addr \/ dyn'[s].addr = NULL
  <2>1. CASE s = k
    BY <1>1, <2>1 DEF Bound
  <2>2. CASE s # k
    BY <1>1, <2>2, OtherSlots
  <2> QED
    BY <2>1, <2>2
<1>4. Typed' /\ Unique' /\ Accounted' /\ Reading'
  BY <1>1, <1>2, <1>3, Steady DEF history
<1> QED
  BY <1>3, <1>4

LEMMA TakeKeeps ==
    ASSUME RInv, TakeSlot
    PROVE  RInv'
<1> DEFINE k == writer.slot
           e == [dyn[k] EXCEPT !.used = TRUE]
<1>1. /\ writer.pc = "take" /\ Typed /\ k \in Slots /\ k \in 1 .. MaxDyn + 1
      /\ writer.name \in Storable /\ writer.addr # NULL /\ writer.at = 1
      /\ \A s \in Slots : ~Bound(s, writer.name)
      /\ dyn[k] = Zeroed
  BY Ranges DEF TakeSlot, RInv, WriterInv, Given, Searched, Written, Registering
<1>2. dyn[k] \in Entries
  BY <1>1 DEF Typed
<1>3. Put(k, e)
  BY PutFields DEF TakeSlot, Put
<1>4. e \in Entries /\ e.used /\ e.text = Blank /\ e.addr = NULL /\ ~Whole(e)
  BY <1>1, <1>2, ZeroedFacts, WithUsed DEF Whole
<1>5. /\ writer' \in Writers /\ writer'.pc = "name" /\ writer'.slot = k /\ writer'.at = 1
      /\ writer'.name = writer.name /\ writer'.addr = writer.addr
  BY <1>1, Moves DEF TakeSlot, Pcs
<1>6. dyn'[k] = e /\ \A s \in Slots : s # k => dyn'[s] = dyn[s]
  BY <1>1, <1>3, <1>4, PutFacts
<1> HIDE DEF e
<1>7. /\ Typed' /\ Unique' /\ Accounted' /\ Reading'
      /\ \A s \in Slots, n \in Names : Bound(s, n)' <=> Bound(s, n)
  BY <1>1, <1>3, <1>4, <1>5, ZeroedFacts, HalfWrite DEF TakeSlot
<1>8. Given' /\ Searched'
  BY <1>1, <1>5, <1>7, Ranges DEF Given, Searched, Registering
<1>9. Written'
  <2>1. \A j \in Positions : Blank[j] = End /\ ~(j < 1)
    BY ZeroedFacts, Ranges
  <2> QED
    BY <1>4, <1>5, <1>6, <2>1 DEF Written, Begun
<1>10. Others'
  BY <1>1, <1>5, <1>6 DEF RInv, WriterInv, Others, InHand, Writing
<1> QED
  BY <1>7, <1>8, <1>9, <1>10 DEF RInv, WriterInv

LEMMA NameKeeps ==
    ASSUME RInv, WriteName
    PROVE  RInv'
<1> DEFINE k == writer.slot
           j == writer.at
           name == writer.name
           char == Spelling[name][j]
           e == [dyn[k] EXCEPT !.text[j] = char]
<1>1. /\ writer.pc = "name" /\ Typed /\ k \in Slots /\ k \in 1 .. MaxDyn + 1
      /\ name \in Storable /\ writer.addr # NULL
      /\ \A s \in Slots : ~Bound(s, name)
      /\ dyn[k].used /\ dyn[k].addr = NULL /\ Begun(dyn[k], name, j)
  BY Ranges DEF WriteName, RInv, WriterInv, Given, Searched, Written, Registering
<1>2. dyn[k] \in Entries /\ j \in Positions /\ char \in Chars
  BY <1>1, StorableFacts DEF Typed, Writers
<1>3. Put(k, e)
  BY PutFields DEF WriteName, Put
<1>4. /\ e \in Entries /\ e.used /\ e.addr = NULL /\ ~Whole(e) /\ ~Whole(dyn[k])
      /\ e.text[j] = char /\ \A i \in Positions : i # j => e.text[i] = dyn[k].text[i]
  BY <1>1, <1>2, WithChar DEF Whole
<1>5. /\ writer' \in Writers /\ writer'.slot = k /\ writer'.name = name
      /\ writer'.addr = writer.addr
      /\ \/ char = End /\ writer'.pc = "addr"
         \/ char # End /\ writer'.pc = "name" /\ writer'.at = j + 1
  <2>1. CASE char = End
    BY <1>1, <2>1, Moves DEF WriteName, Pcs
  <2>2. CASE char # End
    <3>1. j # NameMax
      BY <1>1, <2>2, StorableFacts
    <3>2. j + 1 \in Positions
      BY <1>2, <3>1, Ranges
    <3>3. writer' = [writer EXCEPT !.at = j + 1]
      BY <2>2 DEF WriteName
    <3> QED
      BY <1>1, <2>2, <3>2, <3>3 DEF Typed, Writers
  <2> QED
    BY <2>1, <2>2
<1>6. dyn'[k] = e /\ \A s \in Slots : s # k => dyn'[s] = dyn[s]
  BY <1>1, <1>3, <1>4, PutFacts
<1>7. /\ Typed' /\ Unique' /\ Accounted' /\ Reading'
      /\ \A s \in Slots, n \in Names : Bound(s, n)' <=> Bound(s, n)
  <2> HIDE DEF e, char
  <2> QED
    BY <1>1, <1>3, <1>4, <1>5, HalfWrite DEF WriteName
<1>8. Given' /\ Searched'
  <2> HIDE DEF e, char
  <2> QED
    BY <1>1, <1>5, <1>7, Ranges DEF Given, Searched, Registering
<1>9. Written'
  <2>1. e.text \in [Positions -> Chars]
    BY <1>4 DEF Entries
  <2>2. ASSUME char = End PROVE e.text = Spelling[name]
    <3>1. \A i \in Positions : i < j => e.text[i] = Spelling[name][i]
      BY <1>1, <1>4 DEF Begun
    <3>2. \A i \in Positions : ~(i < j) => e.text[i] = End /\ Spelling[name][i] = End
      <4>1. \A i \in Positions : ~(i < j) => j <= i
        BY <1>2, Ranges
      <4> QED
        BY <1>1, <1>2, <1>4, <2>2, <4>1, StorableFacts DEF Begun
    <3>3. \A i \in Positions : e.text[i] = Spelling[name][i]
      BY <3>1, <3>2
    <3> HIDE DEF e
    <3> QED
      BY <1>1, <2>1, <3>3, StorableFacts
  <2>3. ASSUME char # End PROVE Begun(e, name, j + 1)
    <3>1. \A i \in Positions : i < j + 1 <=> i < j \/ i = j
      BY <1>2, Ranges
    <3>2. \A i \in Positions : i = j => ~(i < j)
      BY <1>2, Ranges
    <3> HIDE DEF e
    <3> QED
      BY <1>1, <1>4, <2>3, <3>1, <3>2 DEF Begun
  <2> HIDE DEF e, char
  <2> QED
    BY <1>4, <1>5, <1>6, <2>2, <2>3 DEF Written
<1>10. Others'
  <2> HIDE DEF e, char
  <2> QED
    BY <1>1, <1>5, <1>6 DEF RInv, WriterInv, Others, InHand, Writing
<1> QED
  BY <1>7, <1>8, <1>9, <1>10 DEF RInv, WriterInv

\* A registration or a removal takes effect: the slot in hand becomes, stays or
\* ceases to be the name's, and no other is.
LEMMA Granted ==
    ASSUME RInv, NEW k \in Slots, NEW e \in Entries, Put(k, e), writer.slot = k,
           writer' \in Writers, writer'.pc = "clear" => writer'.slot = k,
           NEW name \in Storable, NEW a \in Addrs, Grant(name, a), UNCHANGED reader,
           e.addr \in {dyn[k].addr, a, NULL},
           \A n \in Names : Bound(k, n) => n = name,
           \A s \in Slots : s # k => ~Bound(s, name),
           \A n \in Names : Bound(k, n)' <=> n = name /\ a # NULL,
           a # NULL => e.addr = a /\ writer'.pc # "clear"
    PROVE  Typed' /\ Unique' /\ Accounted' /\ Reading'
<1>1. dyn' \in [Slots -> Entries] /\ dyn'[k] = e /\ \A s \in Slots : s # k => dyn'[s] = dyn[s]
  BY PutFacts DEF RInv
<1>2. \A s \in Slots : s # k => (\A n : Bound(s, n)' <=> Bound(s, n)) /\ ~Leaving(s) /\ ~Leaving(s)'
  BY <1>1, OtherSlots
<1>3. /\ name \in Names /\ granted' \in [Names -> Addrs]
      /\ granted'[name] = a /\ \A n \in Names : n # name => granted'[n] = granted[n]
  BY Ranges DEF Grant, RInv, Typed
<1>4. Typed'
  BY <1>1, <1>3 DEF RInv, Typed
<1>5. Unique'
  BY <1>2, <1>3 DEF RInv, Unique
<1>6. Accounted'
  <2>1. \A s \in Slots, n \in Names : Bound(s, n)' => granted'[n] = dyn'[s].addr
    <3> SUFFICES ASSUME NEW s \in Slots, NEW n \in Names, Bound(s, n)'
                 PROVE  granted'[n] = dyn'[s].addr
      OBVIOUS
    <3>1. CASE s = k
      BY <1>1, <1>3, <3>1
    <3>2. CASE s # k
      BY <1>1, <1>2, <1>3, <3>2 DEF RInv, Accounted
    <3> QED
      BY <3>1, <3>2
  <2>2. ASSUME NEW n \in Names, granted'[n] # NULL PROVE \E s \in Slots : Bound(s, n)'
    <3>1. CASE n = name
      BY <1>3, <2>2, <3>1
    <3>2. CASE n # name
      <4>1. PICK s \in Slots : Bound(s, n)
        BY <1>3, <2>2, <3>2 DEF RInv, Accounted
      <4> QED
        BY <1>2, <3>2, <4>1
    <3> QED
      BY <3>1, <3>2
  <2> QED
    BY <2>1, <2>2 DEF Accounted
<1>7. CASE reader = NoLookup
  BY <1>4, <1>5, <1>6, <1>7 DEF Reading
<1>8. CASE reader # NoLookup
  <2>1. /\ reader.name \in Names /\ lived' = lived \cup {a}
        /\ own' = IF name # reader.name \/ own = {} THEN own
                  ELSE IF a = NULL THEN {} ELSE own \cup {a}
        /\ \A n \in Names : granted[n] \in lived
        /\ reader.pc \in {"name", "addr"} =>
              reader.slot \in Slots /\ dyn[reader.slot].addr \in lived \cup {NULL}
    BY <1>8 DEF RInv, Typed, Reading, Lookups, Sought, Grant
  <2>2. \A n \in Names : granted'[n] \in lived'
    BY <1>3, <2>1
  <2>3. reader.pc \in {"name", "addr"} => dyn'[reader.slot].addr \in lived' \cup {NULL}
    BY <1>1, <2>1
  <2>4. ASSUME own' # {} PROVE \E s \in Slots : Ahead(s)'
    <3>1. PICK s \in Slots : Ahead(s)
      BY <1>8, <2>1, <2>4 DEF RInv, Reading
    <3>2. Passing' <=> Passing
      BY DEF Passing
    <3>3. CASE s = k
      <4>1. reader.name = name /\ a # NULL /\ own' = own \cup {a}
        BY <2>1, <2>4, <3>1, <3>3 DEF Ahead
      <4>2. Bound(k, name)' /\ ~Leaving(k)' /\ dyn'[k].addr \in own'
        BY <1>1, <1>3, <4>1 DEF Leaving
      <4> QED
        BY <3>1, <3>2, <3>3, <4>1, <4>2 DEF Ahead
    <3>4. CASE s # k
      <4>1. own \subseteq own' /\ dyn'[s] = dyn[s]
        BY <1>1, <2>1, <2>4, <3>4
      <4> QED
        BY <1>2, <3>1, <3>2, <3>4, <4>1 DEF Ahead
    <3> QED
      BY <3>3, <3>4
  <2> QED
    BY <1>4, <1>5, <1>6, <2>2, <2>3, <2>4 DEF Reading
<1> QED
  BY <1>7, <1>8

\* A call ends with its slot zeroed, or with a name and an address.
LEMMA Ends ==
    ASSUME RInv, NEW k \in Slots, NEW e \in Entries, Put(k, e), writer.slot = k, Return,
           e = Zeroed \/ Spelled(e)
    PROVE  WriterInv'
<1>1. dyn'[k] = e /\ \A s \in Slots : s # k => dyn'[s] = dyn[s]
  BY PutFacts DEF RInv
<1>2. writer' = Resting
  BY DEF Return
<1>3. Given' /\ Searched' /\ Written'
  BY <1>2, RestingFacts DEF Given, Searched, Written, Registering
<1>4. Others'
  BY <1>1 DEF RInv, WriterInv, Others, InHand
<1> QED
  BY <1>3, <1>4 DEF WriterInv

LEMMA AddrKeeps ==
    ASSUME RInv, WriteAddr
    PROVE  RInv'
<1>1. PICK k \in Slots, name \in Storable, a \in Addrs :
          k = writer.slot /\ name = writer.name /\ a = writer.addr /\ a # NULL
  BY DEF WriteAddr, RInv, Typed, Writers, WriterInv, Given, Searched, Registering
<1>2. PICK e : e = [dyn[k] EXCEPT !.addr = a]
  OBVIOUS
<1>3. /\ writer.pc \in {"replace", "addr"} /\ Typed /\ name \in Names
      /\ Return /\ Grant(name, a) /\ UNCHANGED reader /\ Put(k, e) /\ dyn[k] \in Entries
  BY <1>1, <1>2, PutFields, Ranges DEF WriteAddr, Put, RInv, Typed
<1>4. /\ \A s \in Slots : s # k => ~Bound(s, name)
      /\ \A n \in Names : Bound(k, n) => n = name
      /\ dyn[k].text = Spelling[name] /\ dyn[k].used
  <2>1. CASE writer.pc = "replace"
    <3>1. Bound(k, name) /\ ~Leaving(k)
      BY <1>1, <2>1 DEF RInv, WriterInv, Searched, Leaving
    <3>2. \A s \in Slots : s # k => ~Bound(s, name)
      BY <1>3, <3>1 DEF RInv, Unique
    <3>3. \A n \in Names : Bound(k, n) => n = name
      BY <1>3, <3>1, BoundFacts DEF RInv
    <3> QED
      BY <3>1, <3>2, <3>3 DEF Bound, Whole
  <2>2. CASE writer.pc = "addr"
    <3>1. ~Whole(dyn[k])
      BY <1>1, <2>2 DEF RInv, WriterInv, Written, Whole
    <3> QED
      BY <1>1, <2>2, <3>1 DEF RInv, WriterInv, Searched, Written, Bound
  <2> QED
    BY <1>3, <2>1, <2>2
<1>5. e \in Entries /\ e.addr = a /\ e.text = Spelling[name] /\ e.used
  BY <1>2, <1>3, <1>4, WithAddr
<1>6. Whole(e) /\ Spelled(e)
  BY <1>1, <1>5 DEF Whole, Spelled
<1>7. writer' \in Writers /\ writer'.pc = "idle"
  BY <1>3, RestingFacts DEF Return
<1>8. \A n \in Names : Bound(k, n)' <=> n = name
  <2>1. dyn'[k] = e /\ ~Leaving(k)'
    BY <1>3, <1>5, <1>7, PutFacts DEF Leaving
  <2> QED
    BY <1>5, <1>6, <2>1, StrcmpTells DEF Bound
<1>9. Typed' /\ Unique' /\ Accounted' /\ Reading'
  BY <1>1, <1>3, <1>4, <1>5, <1>7, <1>8, Granted
<1>10. WriterInv'
  BY <1>1, <1>3, <1>5, <1>6, Ends
<1> QED
  BY <1>9, <1>10 DEF RInv

\* What memset leaves of an entry when it zeroes one more part.
LEMMA WithoutFacts ==
    ASSUME NEW e \in Entries, NEW name \in Storable, NEW left, NEW part \in Parts,
           part \in left, Fading(e, name, left)
    PROVE  /\ Without(e, part) \in Entries
           /\ Fading(Without(e, part), name, left \ {part})
           /\ Without(e, part).addr \in {e.addr, NULL}
           /\ Whole(Without(e, part)) => Whole(e)
<1>1. CASE part = UsedPart
  <2>1. Without(e, part) = [e EXCEPT !.used = FALSE]
    BY <1>1 DEF Without, UsedPart
  <2>2. /\ Without(e, part) \in Entries /\ ~Without(e, part).used
        /\ Without(e, part).text = e.text /\ Without(e, part).addr = e.addr
    BY <2>1, WithUsed
  <2>3. /\ UsedPart \notin left \ {part} /\ (AddrPart \in left \ {part} <=> AddrPart \in left)
        /\ \A k \in Positions : NamePart(k) \in left \ {part} <=> NamePart(k) \in left
    BY <1>1, PartFacts
  <2> QED
    BY <2>2, <2>3 DEF Fading, Whole
<1>2. CASE part = AddrPart
  <2>1. Without(e, part) = [e EXCEPT !.addr = NULL]
    BY <1>2 DEF Without, AddrPart
  <2> QED
    BY <1>2, <2>1, WithAddr, PartFacts, Ranges DEF Fading, Whole
<1>3. ASSUME NEW k \in Positions, part = NamePart(k)
      PROVE  /\ Without(e, part) \in Entries
             /\ Fading(Without(e, part), name, left \ {part})
             /\ Without(e, part).addr \in {e.addr, NULL}
             /\ Whole(Without(e, part)) => Whole(e)
  <2>1. Without(e, part) = [e EXCEPT !.text[k] = End]
    BY <1>3 DEF Without, NamePart
  <2> QED
    BY <1>3, <2>1, WithChar, PartFacts, Ranges DEF Fading, Whole
<1> QED
  BY <1>1, <1>2, <1>3, PartFacts

\* When no part is left the slot is zeroed.
LEMMA Faded ==
    ASSUME NEW e \in Entries, NEW name, Fading(e, name, {})
    PROVE  e = Zeroed
<1>1. e.text = Blank
  BY DEF Fading, Entries, Blank
<1> QED
  BY <1>1 DEF Fading, Entries, Zeroed

LEMMA ClearKeeps ==
    ASSUME RInv, NEW part \in Parts, Clear(part)
    PROVE  RInv'
<1>1. PICK k \in Slots, name \in Storable, left \in SUBSET Parts :
          k = writer.slot /\ name = writer.name /\ left = writer.left
  BY DEF Clear, RInv, Typed, Writers, WriterInv, Given, Searched
<1>2. PICK e : e = Without(dyn[k], part)
  OBVIOUS
<1>3. /\ writer.pc = "clear" /\ Typed /\ name \in Names /\ part \in left
      /\ UNCHANGED reader /\ Put(k, e) /\ dyn[k] \in Entries
      /\ Fading(dyn[k], name, left)
  <2>1. dyn' = [dyn EXCEPT ![k] = Without(dyn[k], part)]
    BY <1>1 DEF Clear
  <2> QED
    BY <1>1, <1>2, <2>1, Ranges DEF Clear, Put, RInv, Typed, WriterInv, Written
<1>4. /\ e \in Entries /\ Fading(e, name, left \ {part})
      /\ e.addr \in {dyn[k].addr, NULL} /\ (Whole(e) => Whole(dyn[k]))
  BY <1>2, <1>3, WithoutFacts
<1>5. dyn' \in [Slots -> Entries] /\ dyn'[k] = e /\ \A s \in Slots : s # k => dyn'[s] = dyn[s]
  BY <1>3, <1>4, PutFacts
<1>6. \/ left = {part} /\ Return
      \/ left # {part} /\ writer' = [writer EXCEPT !.left = left \ {part}]
  BY <1>1 DEF Clear
<1>7. /\ writer' \in Writers
      /\ \/ writer'.pc = "idle" /\ left = {part}
         \/ /\ writer'.pc = "clear" /\ writer'.slot = k /\ writer'.name = name
            /\ writer'.left = left \ {part} /\ writer'.left # {}
  <2>1. CASE left = {part} /\ Return
    BY <2>1, RestingFacts DEF Return
  <2>2. CASE left # {part} /\ writer' = [writer EXCEPT !.left = left \ {part}]
    BY <1>1, <1>3, <2>2 DEF Typed, Writers
  <2> QED
    BY <1>6, <2>1, <2>2
<1>8. /\ \A n \in Names : Bound(k, n) <=> Whole(dyn[k]) /\ n = name
      /\ \A s \in Slots : s # k => ~Bound(s, name)
  BY <1>1, <1>3 DEF Bound, Leaving, RInv, WriterInv, Searched
<1>9. left = {part} => e = Zeroed /\ ~Whole(e)
  <2>1. left = {part} => left \ {part} = {}
    OBVIOUS
  <2> QED
    BY <1>4, <2>1, Faded, ZeroedFacts
<1>10. \A n \in Names : Bound(k, n)' <=> Whole(e) /\ n = name
  BY <1>5, <1>7, <1>9 DEF Bound, Leaving
<1>11. Typed' /\ Unique' /\ Accounted' /\ Reading'
  <2>1. CASE Whole(dyn[k]) /\ ~Whole(e)
    <3>1. Grant(name, NULL)
      BY <1>1, <1>5, <2>1 DEF Clear
    <3>2. NULL \in Addrs
      BY Ranges
    <3> QED
      BY <1>1, <1>3, <1>4, <1>7, <1>8, <1>10, <2>1, <3>1, <3>2, Granted
  <2>2. CASE Whole(e) <=> Whole(dyn[k])
    <3>1. UNCHANGED history
      BY <1>1, <1>5, <2>2 DEF Clear
    <3>2. ASSUME NEW s \in Slots, s # k
          PROVE  (\A n \in Names : Bound(s, n)' <=> Bound(s, n)) /\ ~Leaving(s)'
      BY <1>1, <1>5, <1>7, <3>2, OtherSlots
    <3>3. \A s \in Slots, n \in Names : Bound(s, n)' <=> Bound(s, n)
      BY <1>8, <1>10, <2>2, <3>2
    <3>4. \A s \in Slots : Ahead(s) => ~Leaving(s)'
      BY <1>1, <1>3, <3>2 DEF Ahead, Leaving
    <3>5. \A s \in Slots : dyn'[s].addr = dyn[s].addr \/ dyn'[s].addr = NULL
      BY <1>4, <1>5
    <3> QED
      BY <1>3, <1>5, <1>7, <3>1, <3>3, <3>4, <3>5, Steady DEF history
  <2> QED
    BY <1>4, <2>1, <2>2
<1>12. WriterInv'
  <2>1. CASE left = {part}
    BY <1>1, <1>3, <1>4, <1>6, <1>9, <2>1, Ends
  <2>2. CASE left # {part}
    <3>1. /\ writer'.pc = "clear" /\ writer'.slot = k /\ writer'.name = name
          /\ writer'.left = left \ {part} /\ writer'.left # {}
      BY <1>7, <2>2
    <3>2. Given'
      BY <3>1 DEF Given, Registering
    <3>3. Searched'
      BY <1>1, <1>3, <1>5, <1>8, <3>1, OtherSlots DEF Searched
    <3>4. Written'
      BY <1>4, <1>5, <3>1 DEF Written
    <3>5. Others'
      BY <1>1, <1>5, <3>1 DEF RInv, WriterInv, Others, InHand, Writing
    <3> QED
      BY <3>2, <3>3, <3>4, <3>5 DEF WriterInv
  <2> QED
    BY <2>1, <2>2
<1> QED
  BY <1>11, <1>12 DEF RInv

------------------------------------------------------------------------------
\* The steps of the lookup.
LEMMA TableStays ==
    RInv /\ UNCHANGED <<dyn, writer, granted>> => WriterInv' /\ Unique' /\ Accounted'
BY DEF RInv, WriterInv, Given, Searched, Written, Others, Unique, Accounted, InHand,
   Bound, Leaving

LEMMA LookupKeeps ==
    ASSUME RInv, NEW name \in Sought, Lookup(name)
    PROVE  RInv'
<1>1. /\ dyn' = dyn /\ writer' = writer /\ granted' = granted
      /\ reader' = [NoLookup EXCEPT !.pc = "used", !.name = name]
      /\ lived' = {granted[n] : n \in Names}
      /\ own' = IF writer.pc = "clear" /\ writer.name = name THEN {}
                ELSE {granted[name]} \ {NULL}
  BY DEF Lookup
<1>2. /\ reader' \in Lookups /\ reader'.pc = "used" /\ reader'.name = name
      /\ reader'.slot = 1
  <2>1. reader' = [pc |-> "used", name |-> name, slot |-> 1, at |-> 1]
    BY <1>1 DEF NoLookup
  <2> QED
    BY <2>1, Ranges DEF Lookups
<1>3. ASSUME own' # {} PROVE \E s \in Slots : Ahead(s)'
  <2>1. name \in Names /\ granted[name] # NULL /\ own' = {granted[name]}
    BY <1>1, <1>3 DEF Sought
  <2>2. PICK s \in Slots : Bound(s, name)
    BY <2>1 DEF RInv, Accounted
  <2>3. ~Leaving(s)
    BY <1>1, <1>3, <2>2 DEF Bound, Leaving
  <2>4. dyn[s].addr \in own' /\ 1 <= s
    BY <2>1, <2>2, Ranges DEF RInv, Accounted
  <2>5. Bound(s, name)' /\ ~Leaving(s)'
    BY <1>1, <2>2, <2>3 DEF Bound, Leaving
  <2> QED
    BY <1>1, <1>2, <2>4, <2>5 DEF Ahead, Passing
<1>4. Reading'
  BY <1>1, <1>2, <1>3 DEF Reading
<1>5. Typed'
  BY <1>1, <1>2 DEF RInv, Typed
<1> QED
  BY <1>1, <1>4, <1>5, TableStays DEF RInv

LEMMA AnswerKeeps ==
    ASSUME RInv, NEW a, Answer(a), UNCHANGED <<dyn, writer>>
    PROVE  RInv'
<1>1. Reading' /\ Typed'
  BY RestingFacts DEF Answer, Reading, RInv, Typed
<1> QED
  BY <1>1, TableStays DEF RInv, Answer

\* A lookup goes on: from a slot that is not used, or has another name, to the
\* next, and from one that is used through its name to its address.
LEMMA LookKeeps ==
    ASSUME RInv, NEW p \in {"used", "name", "addr"}, NEW k \in 1 .. MaxDyn + 1,
           NEW j \in Positions, Look(p, k, j), UNCHANGED <<dyn, writer>>, reader \in Lookups,
           p \in {"name", "addr"} => k \in Slots /\ dyn[k].addr \in lived \cup {NULL},
           \A s \in Slots : Ahead(s) =>
               /\ k <= s
               /\ k # s /\ TellingAt(reader.name) # {} =>
                     p # "addr" /\ (p = "name" => \A i \in TellingAt(reader.name) : j <= i)
    PROVE  RInv'
<1>1. /\ reader' \in Lookups /\ reader'.pc = p /\ reader'.slot = k /\ reader'.at = j
      /\ reader'.name = reader.name
  BY DEF Look, Lookups
<1>2. /\ UNCHANGED <<granted, lived, own>> /\ reader # NoLookup
  BY RestingFacts DEF Look, history
<1>3. ASSUME NEW s \in Slots, Ahead(s) PROVE Ahead(s)'
  <2>1. Bound(s, reader.name)' /\ ~Leaving(s)'
    BY <1>1, <1>3 DEF Ahead, Bound, Leaving
  <2>2. dyn'[s].addr \in own' /\ k <= s
    BY <1>2, <1>3 DEF Ahead
  <2>3. k # s => Passing'
    BY <1>1, <1>3 DEF Passing
  <2> QED
    BY <1>1, <2>1, <2>2, <2>3 DEF Ahead
<1>4. Reading'
  BY <1>1, <1>2, <1>3 DEF Reading, RInv
<1>5. Typed'
  BY <1>1, <1>2 DEF RInv, Typed
<1> QED
  BY <1>2, <1>4, <1>5, TableStays DEF RInv

LEMMA ReaderTypes ==
    ASSUME RInv, reader.pc \in {"used", "name", "addr"}
    PROVE  /\ reader # NoLookup /\ reader \in Lookups /\ reader.name \in Names
           /\ reader.pc \in {"name", "addr"} => reader.slot \in Slots
           /\ reader.slot \in 1 .. MaxDyn + 1 /\ reader.at \in Positions
           /\ ~(reader.slot > MaxDyn) => reader.slot \in Slots
           /\ reader.slot \in Slots => reader.slot + 1 \in 1 .. MaxDyn + 1
           /\ \A s \in Slots : reader.slot <= s /\ s # reader.slot => reader.slot + 1 <= s
<1>1. reader # NoLookup
  BY RestingFacts
<1>2. reader \in Lookups /\ (reader.pc \in {"name", "addr"} => reader.slot \in Slots)
  BY <1>1 DEF RInv, Typed
<1>3. reader.name \in Names /\ reader.slot \in 1 .. MaxDyn + 1 /\ reader.at \in Positions
  BY <1>2 DEF Lookups, Sought
<1> QED
  BY <1>1, <1>2, <1>3, Ranges

LEMMA UsedKeeps ==
    ASSUME RInv, ReadUsed
    PROVE  RInv'
<1>1. PICK k \in 1 .. MaxDyn + 1 : k = reader.slot
  BY ReaderTypes DEF ReadUsed
<1>2. /\ UNCHANGED <<dyn, writer>> /\ reader.pc = "used"
      /\ IF k > MaxDyn THEN Answer(NULL)
         ELSE IF dyn[k].used THEN Look("name", k, 1) ELSE Look("used", k + 1, 1)
  BY <1>1 DEF ReadUsed
<1>3. /\ reader # NoLookup /\ reader \in Lookups /\ (~(k > MaxDyn) => k \in Slots)
      /\ k \in Slots => k + 1 \in 1 .. MaxDyn + 1
      /\ \A s \in Slots : k <= s /\ s # k => k + 1 <= s
  BY <1>1, <1>2, ReaderTypes
<1>4. CASE k > MaxDyn
  BY <1>2, <1>4, AnswerKeeps
<1>5. CASE ~(k > MaxDyn) /\ dyn[k].used
  <2>1. Look("name", k, 1) /\ k \in Slots
    BY <1>2, <1>3, <1>5
  <2>2. dyn[k].addr \in lived \cup {NULL}
    <3> SUFFICES ASSUME dyn[k].addr # NULL PROVE dyn[k].addr \in lived
      OBVIOUS
    <3>1. PICK n \in Names : Bound(k, n)
      BY <1>5, <2>1, BoundFacts, Ranges DEF RInv, Whole
    <3> QED
      BY <1>3, <2>1, <3>1 DEF RInv, Accounted, Reading
  <2>3. \A s \in Slots : Ahead(s) => k <= s
    BY <1>1 DEF Ahead
  <2>4. 1 \in Positions /\ \A i \in TellingAt(reader.name) : 1 <= i
    BY Ranges DEF TellingAt
  <2> QED
    BY <1>2, <1>3, <2>1, <2>2, <2>3, <2>4, LookKeeps
<1>6. CASE ~(k > MaxDyn) /\ ~dyn[k].used
  <2>1. Look("used", k + 1, 1) /\ k + 1 \in 1 .. MaxDyn + 1 /\ 1 \in Positions
    BY <1>2, <1>3, <1>6, Ranges
  <2>2. \A s \in Slots : Ahead(s) => k + 1 <= s
    BY <1>1, <1>3, <1>6 DEF Ahead, Bound, Whole
  <2> QED
    BY <1>2, <1>3, <2>1, <2>2, LookKeeps
<1> QED
  BY <1>4, <1>5, <1>6

\* In a slot that is not its name's, strcmp stops at the character of its own.
LEMMA ByteKeeps ==
    ASSUME RInv, CompareByte
    PROVE  RInv'
<1>1. PICK k \in Slots, j \in Positions, name \in Names :
          k = reader.slot /\ j = reader.at /\ name = reader.name
  BY ReaderTypes DEF CompareByte
<1>2. PICK char : char = dyn[k].text[j]
  OBVIOUS
<1>3. /\ UNCHANGED <<dyn, writer>> /\ reader.pc = "name"
      /\ IF char # Spelling[name][j] THEN Look("used", k + 1, 1)
         ELSE IF char = End THEN Look("addr", k, j)
         ELSE Look("name", k, j + 1)
  BY <1>1, <1>2 DEF CompareByte
<1>4. /\ reader # NoLookup /\ reader \in Lookups
      /\ k \in 1 .. MaxDyn + 1 /\ k + 1 \in 1 .. MaxDyn + 1
      /\ \A s \in Slots : k <= s /\ s # k => k + 1 <= s
      /\ dyn[k].addr \in lived \cup {NULL}
  BY <1>1, <1>3, ReaderTypes DEF RInv, Reading
<1>5. ASSUME NEW s \in Slots, Ahead(s)
      PROVE  /\ k <= s /\ Bound(s, name) /\ ~Leaving(s)
             /\ k = s => char = Spelling[name][j]
             /\ k # s => \A i \in TellingAt(name) : j <= i
  BY <1>1, <1>2, <1>3, <1>5 DEF Ahead, Bound, Passing
<1>6. CASE char # Spelling[name][j]
  <2>1. Look("used", k + 1, 1) /\ 1 \in Positions
    BY <1>3, <1>6, Ranges
  <2>2. \A s \in Slots : Ahead(s) => k + 1 <= s
    BY <1>4, <1>5, <1>6
  <2> QED
    BY <1>3, <1>4, <2>1, <2>2, LookKeeps
<1>7. CASE char = Spelling[name][j]
  <2>1. ASSUME NEW s \in Slots, Ahead(s), k # s
        PROVE  \A i \in TellingAt(name) : j < i /\ char # End
    <3> SUFFICES ASSUME NEW i \in TellingAt(name) PROVE j < i /\ char # End
      OBVIOUS
    <3>1. Bound(s, name) /\ ~Leaving(s) /\ j <= i
      BY <1>5, <2>1
    <3>2. i # j
      BY <1>2, <1>7, <2>1, <3>1, Foreign
    <3>3. i \in Positions /\ Spelling[name][i] # End
      BY DEF TellingAt
    <3>4. j < i
      BY <3>1, <3>2, <3>3, Ranges
    <3>5. name \in Storable
      BY <3>1, BoundFacts DEF RInv
    <3> QED
      BY <1>7, <3>1, <3>3, <3>4, <3>5, StorableFacts
  <2>2. CASE char = End
    <3>1. Look("addr", k, j)
      BY <1>3, <1>7, <2>2
    <3>2. \A s \in Slots : Ahead(s) => k <= s /\ (k # s => TellingAt(name) = {})
      BY <1>5, <2>1, <2>2
    <3> QED
      BY <1>1, <1>3, <1>4, <3>1, <3>2, LookKeeps
  <2>3. CASE char # End
    <3>1. j # NameMax
      BY <1>2, <2>3, LastIsEnd DEF RInv
    <3>2. Look("name", k, j + 1) /\ j + 1 \in Positions
      BY <1>3, <1>7, <2>3, <3>1, Ranges
    <3>3. \A s \in Slots : Ahead(s) =>
              k <= s /\ (k # s => \A i \in TellingAt(name) : j + 1 <= i)
      BY <1>5, <2>1, Ranges DEF TellingAt
    <3> QED
      BY <1>1, <1>3, <1>4, <3>2, <3>3, LookKeeps
  <2> QED
    BY <2>2, <2>3
<1> QED
  BY <1>6, <1>7

------------------------------------------------------------------------------
LEMMA InitRInv == RaceInit => RInv
<1> SUFFICES ASSUME RaceInit PROVE RInv
  OBVIOUS
<1>1. /\ dyn \in [Slots -> Entries] /\ \A s \in Slots : dyn[s] = Zeroed
      /\ granted \in [Names -> Addrs] /\ \A n \in Names : granted[n] = NULL
      /\ writer = Resting /\ reader = NoLookup
  BY ZeroedFacts, Ranges DEF RaceInit
<1>2. \A s \in Slots, n \in Names : ~Bound(s, n)
  BY <1>1, ZeroedFacts DEF Bound
<1>3. Typed /\ Unique /\ Accounted /\ Reading
  BY <1>1, <1>2, RestingFacts DEF Typed, Unique, Accounted, Reading
<1>4. WriterInv
  BY <1>1, RestingFacts DEF WriterInv, Given, Searched, Written, Others, Registering
<1> QED
  BY <1>3, <1>4 DEF RInv

LEMMA NextRInv == RInv /\ [RaceNext]_raceVars => RInv'
<1> SUFFICES ASSUME RInv, [RaceNext]_raceVars PROVE RInv'
  OBVIOUS
<1>1. CASE CallStep
  BY <1>1, CallKeeps
<1>2. CASE WriterStep
  BY <1>2, SearchKeeps, FreeKeeps, FindKeeps, TakeKeeps, NameKeeps, AddrKeeps, ClearKeeps
  DEF WriterStep
<1>3. ASSUME NEW n \in Names \ ({NoName} \cup DOMAIN Builtins), Lookup(n) PROVE RInv'
  BY <1>3, LookupKeeps DEF Sought
<1>4. CASE ReaderStep
  BY <1>4, UsedKeeps, ByteKeeps, AnswerKeeps DEF ReaderStep, ReadAddr
<1>5. CASE UNCHANGED raceVars
  BY <1>5, AllStays DEF raceVars
<1> QED
  BY <1>1, <1>2, <1>3, <1>4, <1>5 DEF RaceNext

LEMMA RaceInvariance == RaceSpec => []RInv
BY InitRInv, NextRInv, PTL DEF RaceSpec

------------------------------------------------------------------------------
\* No slot is left half written or half zeroed by a call that has returned, and
\* every loop stays in the table and in the name (modloader_export.c, lines 66-113).
THEOREM RaceTypes == RaceSpec => []RaceTypeOK
<1>1. RInv => RaceTypeOK
  <2> SUFFICES ASSUME RInv PROVE RaceTypeOK
    OBVIOUS
  <2>1. dyn \in [Slots -> [used : BOOLEAN, text : [Positions -> Chars], addr : Addrs]]
    BY DEF RInv, Typed, Entries
  <2>2. /\ writer.slot \in 1 .. MaxDyn + 1 /\ writer.at \in Positions
        /\ writer.pc \in {"replace", "take", "name", "addr", "clear"} => writer.slot \in Slots
    BY DEF RInv, Typed, Writers, WriterInv, Searched
  <2>3. reader.slot \in 1 .. MaxDyn + 1 /\ reader.at \in Positions
    BY RestingFacts, Ranges DEF RInv, Typed, Lookups
  <2>4. reader.pc \in {"name", "addr"} => reader.slot \in Slots
    BY DEF RInv, Typed
  <2>5. \A s \in Slots : dyn[s] = Zeroed \/ Spelled(dyn[s]) \/
           (writer.slot = s /\ writer.pc \in {"name", "addr", "clear"})
    BY DEF RInv, WriterInv, Others, InHand, Writing
  <2> QED
    BY <2>1, <2>2, <2>3, <2>4, <2>5 DEF RaceTypeOK
<1> QED
  BY <1>1, RaceInvariance, PTL

\* The address a lookup answers with.
LEMMA Answered ==
    ASSUME RInv, [RaceNext]_raceVars, LookupEnds
    PROVE  \/ ReadUsed /\ reader.slot > MaxDyn /\ value' = NULL
           \/ \E f \in BOOLEAN :
                 reader.pc = "addr" /\ value' = ExportVaddr(dyn[reader.slot].addr, f)
<1>1. reader # NoLookup /\ reader' # reader
  BY DEF LookupEnds
<1>2. ReaderStep
  BY <1>1 DEF RaceNext, raceVars, CallStep, WriterStep, Register, Unregister, Search,
     WriteAddr, FindFree, TakeSlot, WriteName, Find, Clear, Lookup
<1>3. reader \in Lookups
  BY <1>1 DEF RInv, Typed
<1>4. \A p \in {"used", "name", "addr"} : \A k, j : Look(p, k, j) => reader'.pc # "idle"
  BY <1>3 DEF Look, Lookups
<1>5. reader'.pc = "idle"
  BY DEF LookupEnds, NoLookup
<1>6. ~CompareByte
  BY <1>4, <1>5 DEF CompareByte
<1>7. ReadUsed => reader.slot > MaxDyn /\ value' = NULL
  BY <1>4, <1>5 DEF ReadUsed, Answer
<1> QED
  BY <1>2, <1>6, <1>7 DEF ReaderStep, ReadAddr, Answer

\* Whatever happens between the reads of a lookup, it answers with null or an
\* address a name was bound to meanwhile: a slot that is used has an address
\* that is bound, or null, and keeps it or null until it is bound again
\* (modloader_export.c, lines 97-115).
THEOREM AnswersLived == RaceSpec => AnswerLived
<1>1. RInv /\ [RaceNext]_raceVars =>
          [LookupEnds => \E a \in lived \cup {NULL}, f \in BOOLEAN :
                             value' = ExportVaddr(a, f)]_raceVars
  <2> SUFFICES ASSUME RInv, [RaceNext]_raceVars, LookupEnds
               PROVE  \E a \in lived \cup {NULL}, f \in BOOLEAN : value' = ExportVaddr(a, f)
    OBVIOUS
  <2>1. reader # NoLookup
    BY DEF LookupEnds
  <2>2. CASE value' = NULL
    <3>1. value' = ExportVaddr(NULL, FALSE)
      BY <2>2 DEF ExportVaddr
    <3> QED
      BY <3>1
  <2>3. ASSUME NEW f \in BOOLEAN, reader.pc = "addr",
               value' = ExportVaddr(dyn[reader.slot].addr, f)
        PROVE  \E a \in lived \cup {NULL}, g \in BOOLEAN : value' = ExportVaddr(a, g)
    <3>1. dyn[reader.slot].addr \in lived \cup {NULL}
      BY <2>1, <2>3 DEF RInv, Reading
    <3> QED
      BY <2>3, <3>1
  <2> QED
    BY <2>2, <2>3, Answered
<1> QED
  BY <1>1, RaceInvariance, PTL DEF RaceSpec, AnswerLived

\* A name that is bound while a lookup runs is found, for any spelling of the
\* names in which it has a character of its own: its slot is ahead of the lookup
\* until it is there, because a rebound name keeps its slot, and no mixture of
\* names that pass through another slot is taken for it.
THEOREM StableNamesFound == RaceSpec => StableNameFound
<1>1. RInv /\ [RaceNext]_raceVars =>
          [LookupEnds /\ own # {} /\ TellingAt(reader.name) # {}
              => \E a \in own, f \in BOOLEAN : value' = ExportVaddr(a, f)]_raceVars
  <2> SUFFICES ASSUME RInv, [RaceNext]_raceVars, LookupEnds, own # {},
                      TellingAt(reader.name) # {}
               PROVE  \E a \in own, f \in BOOLEAN : value' = ExportVaddr(a, f)
    OBVIOUS
  <2>1. reader # NoLookup
    BY DEF LookupEnds
  <2>2. PICK s \in Slots : Ahead(s)
    BY <2>1 DEF RInv, Reading
  <2>3. ~(reader.slot > MaxDyn)
    <3>1. reader.slot \in Nat
      BY <2>1, Ranges DEF RInv, Typed, Lookups
    <3> QED
      BY <2>2, <3>1, Ranges DEF Ahead
  <2>4. PICK f \in BOOLEAN :
            reader.pc = "addr" /\ value' = ExportVaddr(dyn[reader.slot].addr, f)
    BY <2>3, Answered
  <2>5. dyn[reader.slot].addr \in own
    BY <2>1, <2>2, <2>4 DEF Ahead, Passing
  <2> QED
    BY <2>4, <2>5
<1> QED
  BY <1>1, RaceInvariance, PTL DEF RaceSpec, StableNameFound
==============================================================================
