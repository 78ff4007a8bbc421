-------------------------- MODULE ExportTableProofs --------------------------
(***************************************************************************)
(* Facts about the export table, for any number of slots.                  *)
(***************************************************************************)
EXTENDS ExportTable, WellFoundedInduction, TLAPS

\* A set of natural numbers that is not empty has a least element.
LEMMA MinFacts ==
    ASSUME NEW S \in SUBSET Nat, S # {}
    PROVE  /\ Min(S) \in S
           /\ \A x \in S : Min(S) <= x
<1> DEFINE R == {ss \in Nat \X Nat : ss[1] < ss[2]}
<1>1. IsWellFoundedOn(R, Nat)
  BY NatLessThanWellFounded DEF OpToRel
<1> HIDE DEF R
<1>2. \E x \in S : \A y \in S : ~(<<y, x>> \in R)
  BY <1>1, WFMin, Zenon
<1>3. PICK x \in S : \A y \in S : ~(<<y, x>> \in R)
  BY <1>2
<1>4. \A y \in S : x <= y
  <2> SUFFICES ASSUME NEW y \in S, y < x PROVE FALSE
    BY SMT
  <2>1. <<y, x>> \in Nat \X Nat /\ <<y, x>>[1] = y /\ <<y, x>>[2] = x
    BY SMT
  <2>2. <<y, x>> \in R
    BY <2>1 DEF R
  <2> QED
    BY <1>3, <2>2
<1> QED
  BY <1>4 DEF Min

\* The slots of a table hold names of a set N and addresses of a set A.
Filled(N, A) == [used : {TRUE}, name : N, addr : A]
Tables(N, A) == [Slots -> Filled(N, A) \cup {FreeSlot}]

Distinct(table) ==
    \A s, t \in Slots :
        table[s].used /\ table[t].used /\ table[s].name = table[t].name => s = t

LEMMA NoExportsFacts ==
    ASSUME NEW N, NEW A
    PROVE  NoExports \in Tables(N, A) /\ Distinct(NoExports)
BY DEF NoExports, Tables, FreeSlot, Distinct

LEMMA SlotSets ==
    ASSUME NEW table, NEW name
    PROVE  /\ SlotsOf(table, name) \in SUBSET Nat /\ FreeSlots(table) \in SUBSET Nat
           /\ SlotsOf(table, name) \subseteq Slots /\ FreeSlots(table) \subseteq Slots
BY ExportAssumption DEF SlotsOf, FreeSlots, Slots

\* Registering a name that is not refused keeps the table well formed.
LEMMA RegisterFacts ==
    ASSUME NEW N, NEW A, NEW table \in Tables(N, A), Distinct(table),
           NEW name \in N, NEW addr \in A
    PROVE  /\ RegisterExport(table, name, addr) \in Tables(N, A)
           /\ Distinct(RegisterExport(table, name, addr))
<1>1. CASE RegisterStatus(table, name, addr) # NO_ERROR
  BY <1>1 DEF RegisterExport
<1>2. CASE RegisterStatus(table, name, addr) = NO_ERROR
  <2>1. SlotsOf(table, name) \cup FreeSlots(table) # {}
    BY <1>2 DEF RegisterStatus, NO_ERROR, INVALID_ARGS, TOO_BIG, ALREADY_EXISTS, NO_MEMORY
  <2>2. CASE SlotsOf(table, name) # {}
    <3> DEFINE k == Min(SlotsOf(table, name))
    <3>1. k \in Slots /\ table[k].used /\ table[k].name = name
      BY <2>2, SlotSets, MinFacts DEF SlotsOf
    <3>2. RegisterExport(table, name, addr) = [table EXCEPT ![k].addr = addr]
      BY <1>2, <2>2 DEF RegisterExport, PlaceExport
    <3> HIDE DEF k
    <3>3. table[k] \in Filled(N, A)
      BY <3>1 DEF Tables, FreeSlot
    <3>4. [table[k] EXCEPT !.addr = addr] \in Filled(N, A)
      BY <3>3 DEF Filled
    <3>5. [table EXCEPT ![k].addr = addr] = [table EXCEPT ![k] = [@ EXCEPT !.addr = addr]]
      OBVIOUS
    <3> DEFINE entry == [table[k] EXCEPT !.addr = addr]
    <3>6. entry.used = table[k].used /\ entry.name = table[k].name
      BY <3>3 DEF Filled
    <3>7. entry \in Filled(N, A)
      BY <3>4
    <3>8. RegisterExport(table, name, addr) = [table EXCEPT ![k] = entry]
      BY <3>2, <3>5
    <3> HIDE DEF entry
    <3>9. [table EXCEPT ![k] = entry] \in Tables(N, A)
      BY <3>1, <3>7 DEF Tables
    <3>10. Distinct([table EXCEPT ![k] = entry])
      BY <3>1, <3>6 DEF Tables, Distinct
    <3> QED
      BY <3>8, <3>9, <3>10
  <2>3. CASE SlotsOf(table, name) = {}
    <3> DEFINE k == Min(FreeSlots(table))
               new == [used |-> TRUE, name |-> name, addr |-> addr]
    <3>1. k \in Slots /\ ~table[k].used
      BY <2>1, <2>3, SlotSets, MinFacts DEF FreeSlots
    <3>2. RegisterExport(table, name, addr) = [table EXCEPT ![k] = new]
      BY <1>2, <2>3 DEF RegisterExport, PlaceExport
    <3>3. \A s \in Slots : ~(table[s].used /\ table[s].name = name)
      BY <2>3 DEF SlotsOf
    <3>4. new \in Filled(N, A)
      BY DEF Filled
    <3> HIDE DEF k
    <3> QED
      BY <3>1, <3>2, <3>3, <3>4 DEF Tables, Distinct
  <2> QED
    BY <2>2, <2>3
<1> QED
  BY <1>1, <1>2

LEMMA UnregisterFacts ==
    ASSUME NEW N, NEW A, NEW table \in Tables(N, A), Distinct(table), NEW name
    PROVE  /\ UnregisterExport(table, name) \in Tables(N, A)
           /\ Distinct(UnregisterExport(table, name))
BY DEF UnregisterExport, Tables, Distinct, FreeSlot

LEMMA LookupFacts ==
    ASSUME NEW N, NEW table \in Tables(N, Nat), NEW name, NEW isFunc
    PROVE  LookupExport(table, name, isFunc) \in Nat
<1>1. \A a \in Nat : ExportVaddr(a, isFunc) \in Nat
  BY DEF ExportVaddr, SetBit0
<1>2. CASE name \in DOMAIN Builtins
  BY <1>1, <1>2, ExportAssumption DEF LookupExport
<1>3. CASE name \notin DOMAIN Builtins /\ SlotsOf(table, name) # {}
  <2>1. Min(SlotsOf(table, name)) \in Slots
    BY <1>3, SlotSets, MinFacts
  <2>2. table[Min(SlotsOf(table, name))].addr \in Nat
    <3>1. table[Min(SlotsOf(table, name))] \in Filled(N, Nat) \cup {FreeSlot}
      BY <2>1 DEF Tables
    <3>2. \A entry \in Filled(N, Nat) : entry.addr \in Nat
      BY DEF Filled
    <3>3. FreeSlot.addr \in Nat
      BY DEF FreeSlot, NULL
    <3> QED
      BY <3>1, <3>2, <3>3
  <2> QED
    BY <1>1, <1>3, <2>2 DEF LookupExport
<1>4. CASE name \notin DOMAIN Builtins /\ SlotsOf(table, name) = {}
  BY <1>4 DEF LookupExport, NULL
<1> QED
  BY <1>2, <1>3, <1>4
==============================================================================
