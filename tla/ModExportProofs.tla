--------------------------- MODULE ModExportProofs ---------------------------
(***************************************************************************)
(* The export table is well formed and names each name once, whatever its  *)
(* size, whatever names and addresses callers pass and in whatever order.  *)
(***************************************************************************)
EXTENDS ModExport, ExportTableProofs, FiniteSetTheorems

IInv == TypeOK /\ NoDuplicateNames

LEMMA SlotTables == [Slots -> Slot] = Tables(Bindable, Addrs \ {NULL})
BY DEF Slot, Tables, Filled

LEMMA StatusTypes ==
    ASSUME NEW table, NEW name, NEW addr
    PROVE  /\ RegisterStatus(table, name, addr) \in Statuses
           /\ UnregisterStatus(table, name) \in Statuses
BY DEF RegisterStatus, UnregisterStatus, Statuses

\* A name or an address that cannot be bound is refused.
LEMMA BoundArgs ==
    ASSUME NEW table, NEW name \in Names, NEW addr \in Addrs,
           RegisterStatus(table, name, addr) = NO_ERROR
    PROVE  name \in Bindable /\ addr \in Addrs \ {NULL}
BY DEF RegisterStatus, Bindable, NO_ERROR, INVALID_ARGS, TOO_BIG, ALREADY_EXISTS, NO_MEMORY

LEMMA InitIInv == Init => IInv
<1> SUFFICES ASSUME Init PROVE IInv
  OBVIOUS
<1>1. dyn \in Tables(Bindable, Addrs \ {NULL}) /\ Distinct(dyn)
  BY NoExportsFacts DEF Init
<1>2. NO_ERROR \in Statuses
  BY DEF Statuses
<1> QED
  BY <1>1, <1>2, SlotTables DEF IInv, Init, TypeOK, NoDuplicateNames, Distinct

LEMMA NextIInv == IInv /\ [Next]_vars => IInv'
<1> SUFFICES ASSUME IInv, [Next]_vars PROVE IInv'
  OBVIOUS
<1>1. dyn \in Tables(Bindable, Addrs \ {NULL}) /\ Distinct(dyn)
  BY SlotTables DEF IInv, TypeOK, NoDuplicateNames, Distinct
<1>2. ASSUME NEW n \in Names, NEW a \in Addrs, Register(n, a) PROVE IInv'
  <2>1. dyn' \in Tables(Bindable, Addrs \ {NULL}) /\ Distinct(dyn')
    <3>1. CASE RegisterStatus(dyn, n, a) = NO_ERROR
      <4>1. n \in Bindable /\ a \in Addrs \ {NULL}
        BY <3>1, BoundArgs
      <4> QED
        BY <1>1, <1>2, <4>1, RegisterFacts DEF Register
    <3>2. CASE RegisterStatus(dyn, n, a) # NO_ERROR
      BY <1>1, <1>2, <3>2 DEF Register, RegisterExport
    <3> QED
      BY <3>1, <3>2
  <2>2. status' \in Statuses
    BY <1>2, StatusTypes DEF Register
  <2> QED
    BY <1>2, <2>1, <2>2, SlotTables
    DEF Register, IInv, TypeOK, NoDuplicateNames, Distinct
<1>3. ASSUME NEW n \in Names, Unregister(n) PROVE IInv'
  <2>1. dyn' \in Tables(Bindable, Addrs \ {NULL}) /\ Distinct(dyn')
    BY <1>1, <1>3, UnregisterFacts DEF Unregister
  <2>2. status' \in Statuses
    BY <1>3, StatusTypes DEF Unregister
  <2> QED
    BY <1>3, <2>1, <2>2, SlotTables
    DEF Unregister, IInv, TypeOK, NoDuplicateNames, Distinct
<1>4. CASE UNCHANGED vars
  BY <1>4 DEF vars, IInv, TypeOK, NoDuplicateNames
<1> QED
  BY <1>2, <1>3, <1>4 DEF Next

\* A slot never holds half an entry, the null name, a name that is too long or
\* built in, or a null address (modloader_export_register, lines 50-82).
THEOREM ExportTypes == Spec => []TypeOK
<1>1. Spec => []IInv
  BY InitIInv, NextIInv, PTL DEF Spec
<1>2. IInv => TypeOK
  BY DEF IInv
<1> QED
  BY <1>1, <1>2, PTL

\* No sequence of registrations, replacements and removals leaves a name in two
\* slots, so one modloader_export_unregister removes it (lines 66-95).
THEOREM UniqueNames == Spec => []NoDuplicateNames
<1>1. Spec => []IInv
  BY InitIInv, NextIInv, PTL DEF Spec
<1>2. IInv => NoDuplicateNames
  BY DEF IInv
<1> QED
  BY <1>1, <1>2, PTL

------------------------------------------------------------------------------
\* A table, seen as the map of ExportMap.
Bound(table) == {n \in Bindable : LookupExport(table, n, FALSE) # NULL}
MapOf(table) == [n \in Bound(table) |-> LookupExport(table, n, FALSE)]

GoodTable(table) == table \in Tables(Bindable, Addrs \ {NULL}) /\ Distinct(table)

UsedSlots(table) == {s \in Slots : table[s].used}

\* The map binds the names of the used slots to their addresses, no other name.
LEMMA MapFacts ==
    ASSUME NEW table, GoodTable(table)
    PROVE  /\ \A s \in UsedSlots(table) :
                  /\ table[s].name \in Bound(table)
                  /\ MapOf(table)[table[s].name] = table[s].addr
           /\ \A n \in Bound(table) : \E s \in UsedSlots(table) : table[s].name = n
<1>1. \A s \in UsedSlots(table) :
          /\ table[s] \in Filled(Bindable, Addrs \ {NULL})
          /\ table[s].name \in Bindable /\ table[s].addr \in Addrs \ {NULL}
  <2>1. \A s \in UsedSlots(table) : table[s] \in Filled(Bindable, Addrs \ {NULL})
    BY DEF GoodTable, Tables, UsedSlots, FreeSlot
  <2> QED
    BY <2>1 DEF Filled
<1>2. ASSUME NEW n \in Bindable, SlotsOf(table, n) = {}
      PROVE  n \notin Bound(table)
  BY <1>2 DEF Bound, LookupExport, Bindable
<1>3. ASSUME NEW n \in Bindable, SlotsOf(table, n) # {}
      PROVE  /\ Min(SlotsOf(table, n)) \in UsedSlots(table)
             /\ table[Min(SlotsOf(table, n))].name = n
             /\ LookupExport(table, n, FALSE) = table[Min(SlotsOf(table, n))].addr
  <2>1. Min(SlotsOf(table, n)) \in SlotsOf(table, n)
    BY <1>3, SlotSets, MinFacts
  <2>2. LookupExport(table, n, FALSE) = table[Min(SlotsOf(table, n))].addr
    BY <1>3 DEF LookupExport, ExportVaddr, Bindable
  <2> QED
    BY <2>1, <2>2 DEF SlotsOf, UsedSlots
<1>4. ASSUME NEW s \in UsedSlots(table)
      PROVE  LookupExport(table, table[s].name, FALSE) = table[s].addr
  <2> DEFINE n == table[s].name
             k == Min(SlotsOf(table, n))
  <2>1. n \in Bindable /\ SlotsOf(table, n) # {}
    BY <1>1 DEF SlotsOf, UsedSlots
  <2>2. k \in UsedSlots(table) /\ table[k].name = n
        /\ LookupExport(table, n, FALSE) = table[k].addr
    BY <1>3, <2>1
  <2>3. k = s
    BY <2>2 DEF UsedSlots, GoodTable, Distinct
  <2> QED
    BY <2>2, <2>3
<1>5. ASSUME NEW s \in UsedSlots(table)
      PROVE  table[s].name \in Bound(table) /\ MapOf(table)[table[s].name] = table[s].addr
  <2>1. table[s].name \in Bound(table)
    BY <1>1, <1>4, <1>5 DEF Bound
  <2> QED
    BY <1>4, <2>1, <1>5 DEF MapOf
<1>6. ASSUME NEW n \in Bound(table)
      PROVE  \E s \in UsedSlots(table) : table[s].name = n
  BY <1>2, <1>3, <1>6 DEF Bound
<1> QED
  BY <1>5, <1>6

\* A table is the map whose names and addresses its used slots hold.
LEMMA MapIs ==
    ASSUME NEW table, GoodTable(table), NEW map,
           map = [n \in DOMAIN map |-> map[n]],
           \A s \in UsedSlots(table) :
               table[s].name \in DOMAIN map /\ table[s].addr = map[table[s].name],
           \A n \in DOMAIN map : \E s \in UsedSlots(table) : table[s].name = n
    PROVE  MapOf(table) = map
<1>1. Bound(table) = DOMAIN map
  <2>1. \A n \in Bound(table) : n \in DOMAIN map
    BY MapFacts
  <2>2. \A n \in DOMAIN map : n \in Bound(table)
    BY MapFacts
  <2> QED
    BY <2>1, <2>2
<1>2. \A n \in DOMAIN map : MapOf(table)[n] = map[n]
  BY MapFacts
<1> QED
  BY <1>1, <1>2 DEF MapOf

\* As many names are bound as slots are used.
LEMMA BoundCount ==
    ASSUME NEW table, GoodTable(table)
    PROVE  /\ FreeSlots(table) = {} => Cardinality(Bound(table)) = MaxDyn
           /\ FreeSlots(table) # {} => Cardinality(Bound(table)) < MaxDyn
<1>1. IsFiniteSet(Slots) /\ Cardinality(Slots) = MaxDyn
  BY FS_Interval, ExportAssumption DEF Slots
<1>2. /\ IsFiniteSet(UsedSlots(table))
      /\ Cardinality(UsedSlots(table)) <= Cardinality(Slots)
      /\ Cardinality(Slots) = Cardinality(UsedSlots(table)) => Slots = UsedSlots(table)
  <2>1. UsedSlots(table) \in SUBSET Slots
    BY DEF UsedSlots
  <2> QED
    BY <1>1, <2>1, FS_Subset
<1>3. Cardinality(Bound(table)) = Cardinality(UsedSlots(table))
  <2> DEFINE f == [s \in UsedSlots(table) |-> table[s].name]
  <2>1. f \in [UsedSlots(table) -> Bound(table)]
    BY MapFacts
  <2>2. \A s, t \in UsedSlots(table) : f[s] = f[t] => s = t
    BY DEF UsedSlots, GoodTable, Distinct
  <2>3. \A n \in Bound(table) : \E s \in UsedSlots(table) : f[s] = n
    BY MapFacts
  <2> HIDE DEF f
  <2>4. f \in Bijection(UsedSlots(table), Bound(table))
    BY <2>1, <2>2, <2>3 DEF Bijection, Injection, Surjection, IsInjective
  <2>5. ExistsBijection(UsedSlots(table), Bound(table))
    BY <2>4 DEF ExistsBijection
  <2> QED
    BY <1>2, <2>5, FS_Bijection
<1>4. FreeSlots(table) = {} <=> Slots = UsedSlots(table)
  BY DEF FreeSlots, UsedSlots
<1>5. Cardinality(UsedSlots(table)) \in Nat /\ MaxDyn \in Nat
  BY <1>2, FS_CardinalityType, ExportAssumption
<1> QED
  BY <1>1, <1>2, <1>3, <1>4, <1>5

\* A registration that is not refused puts the name in its own slot, or in a
\* free one when no slot holds it.
Entry(entry, name, addr) == entry.used /\ entry.name = name /\ entry.addr = addr

LEMMA RegisterPlace ==
    ASSUME NEW table, GoodTable(table), NEW name, NEW addr,
           RegisterStatus(table, name, addr) = NO_ERROR
    PROVE  \E k \in Slots : \E entry :
               /\ RegisterExport(table, name, addr) = [table EXCEPT ![k] = entry]
               /\ Entry(entry, name, addr)
               /\ \/ k \in UsedSlots(table) /\ table[k].name = name
                  \/ k \notin UsedSlots(table) /\ SlotsOf(table, name) = {}
<1>1. SlotsOf(table, name) \cup FreeSlots(table) # {}
  BY DEF RegisterStatus, NO_ERROR, INVALID_ARGS, TOO_BIG, ALREADY_EXISTS, NO_MEMORY
<1>2. CASE SlotsOf(table, name) # {}
  <2> DEFINE k == Min(SlotsOf(table, name))
             entry == [table[k] EXCEPT !.addr = addr]
  <2>1. k \in Slots /\ table[k].used /\ table[k].name = name
    BY <1>2, SlotSets, MinFacts DEF SlotsOf
  <2>2. RegisterExport(table, name, addr) = [table EXCEPT ![k].addr = addr]
    BY <1>2 DEF RegisterExport, PlaceExport
  <2> HIDE DEF k
  <2>3. table[k] \in Filled(Bindable, Addrs \ {NULL})
    BY <2>1 DEF GoodTable, Tables, FreeSlot
  <2>4. entry.used = table[k].used /\ entry.name = table[k].name /\ entry.addr = addr
    BY <2>3 DEF Filled
  <2>5. [table EXCEPT ![k].addr = addr] = [table EXCEPT ![k] = [@ EXCEPT !.addr = addr]]
    OBVIOUS
  <2>6. RegisterExport(table, name, addr) = [table EXCEPT ![k] = entry]
    BY <2>2, <2>5
  <2> HIDE DEF entry
  <2> QED
    BY <2>1, <2>4, <2>6 DEF UsedSlots, Entry
<1>3. CASE SlotsOf(table, name) = {}
  <2> DEFINE k == Min(FreeSlots(table))
             entry == [used |-> TRUE, name |-> name, addr |-> addr]
  <2>1. k \in Slots /\ k \notin UsedSlots(table)
    BY <1>1, <1>3, SlotSets, MinFacts DEF FreeSlots, UsedSlots
  <2>2. RegisterExport(table, name, addr) = [table EXCEPT ![k] = entry]
    BY <1>3 DEF RegisterExport, PlaceExport
  <2>3. Entry(entry, name, addr)
    BY DEF Entry
  <2> HIDE DEF k, entry
  <2> QED
    BY <1>3, <2>1, <2>2, <2>3
<1> QED
  BY <1>2, <1>3

\* Registering a name binds it and leaves every other name as it was.
Rebound(table, name, addr) ==
    [n \in Bound(table) \cup {name} |-> IF n = name THEN addr ELSE MapOf(table)[n]]

LEMMA RegisterMaps ==
    ASSUME NEW table, GoodTable(table), NEW name \in Names, NEW addr \in Addrs,
           RegisterStatus(table, name, addr) = NO_ERROR
    PROVE  MapOf(RegisterExport(table, name, addr)) = Rebound(table, name, addr)
<1> DEFINE after == RegisterExport(table, name, addr)
           map == [n \in Bound(table) \cup {name} |->
                      IF n = name THEN addr ELSE MapOf(table)[n]]
<1>1. GoodTable(after)
  BY BoundArgs, RegisterFacts DEF GoodTable
<1>2. PICK k \in Slots : \E entry :
          /\ after = [table EXCEPT ![k] = entry]
          /\ Entry(entry, name, addr)
          /\ \/ k \in UsedSlots(table) /\ table[k].name = name
             \/ k \notin UsedSlots(table) /\ SlotsOf(table, name) = {}
  BY RegisterPlace
<1>3. /\ Entry(after[k], name, addr)
      /\ \A s \in Slots \ {k} : after[s] = table[s]
  BY <1>2 DEF GoodTable, Tables
<1>4. \A s \in UsedSlots(table) \ {k} : table[s].name # name
  BY <1>2 DEF GoodTable, Distinct, UsedSlots, SlotsOf
<1> HIDE DEF after
<1>5. /\ UsedSlots(after) = UsedSlots(table) \cup {k}
      /\ after[k].name = name /\ after[k].addr = addr
      /\ \A s \in UsedSlots(table) \ {k} : after[s] = table[s]
  BY <1>3 DEF UsedSlots, Entry
<1>6. \A s \in UsedSlots(after) :
          after[s].name \in DOMAIN map /\ after[s].addr = map[after[s].name]
  BY <1>4, <1>5, MapFacts
<1>7. ASSUME NEW n \in DOMAIN map
      PROVE  \E s \in UsedSlots(after) : after[s].name = n
  <2>1. CASE n = name
    BY <1>5, <2>1
  <2>2. CASE n # name
    <3>1. PICK s \in UsedSlots(table) : table[s].name = n
      BY <1>7, <2>2, MapFacts
    <3>2. s # k
      BY <1>2, <2>2, <3>1
    <3> QED
      BY <1>5, <3>1, <3>2
  <2> QED
    BY <2>1, <2>2
<1>8. map = [n \in DOMAIN map |-> map[n]]
  OBVIOUS
<1> HIDE DEF map
<1>9. MapOf(after) = map
  BY <1>1, <1>6, <1>7, <1>8, MapIs
<1> QED
  BY <1>9 DEF after, map, Rebound

\* Unregistering a bound name forgets it and leaves every other name as it was.
LEMMA UnregisterMaps ==
    ASSUME NEW table, GoodTable(table), NEW name,
           UnregisterStatus(table, name) = NO_ERROR
    PROVE  /\ name \in Bound(table)
           /\ MapOf(UnregisterExport(table, name)) =
                  Restrict(MapOf(table), Bound(table) \ {name})
<1> DEFINE after == UnregisterExport(table, name)
           map == [n \in Bound(table) \ {name} |-> MapOf(table)[n]]
           k == Min(SlotsOf(table, name))
<1>1. GoodTable(after)
  BY UnregisterFacts DEF GoodTable
<1>2. SlotsOf(table, name) # {}
  BY DEF UnregisterStatus, NO_ERROR, INVALID_ARGS, NOT_FOUND
<1>3. k \in UsedSlots(table) /\ table[k].name = name
  BY <1>2, SlotSets, MinFacts DEF SlotsOf, UsedSlots
<1>4. after = [table EXCEPT ![k] = FreeSlot]
  BY DEF UnregisterExport
<1> HIDE DEF k
<1>5. /\ after[k] = FreeSlot
      /\ \A s \in Slots \ {k} : after[s] = table[s]
  BY <1>3, <1>4 DEF GoodTable, Tables, UsedSlots
<1> HIDE DEF after
<1>6. \A s \in UsedSlots(table) \ {k} : table[s].name # name
  BY <1>3 DEF GoodTable, Distinct, UsedSlots
<1>7. /\ UsedSlots(after) = UsedSlots(table) \ {k}
      /\ \A s \in UsedSlots(after) : after[s] = table[s]
  BY <1>5 DEF UsedSlots, FreeSlot
<1>8. \A s \in UsedSlots(after) :
          after[s].name \in DOMAIN map /\ after[s].addr = map[after[s].name]
  BY <1>6, <1>7, MapFacts
<1>9. \A n \in DOMAIN map : \E s \in UsedSlots(after) : after[s].name = n
  BY <1>3, <1>7, MapFacts
<1>10. map = [n \in DOMAIN map |-> map[n]]
  OBVIOUS
<1>11. name \in Bound(table)
  BY <1>3, MapFacts
<1> HIDE DEF map
<1>12. MapOf(after) = map
  BY <1>1, <1>8, <1>9, <1>10, MapIs
<1> QED
  BY <1>11, <1>12 DEF after, map, Restrict

------------------------------------------------------------------------------
\* The map of ModExport's instance of ExportMap.
LEMMA BoundMap ==
    /\ [n \in BoundNames |-> LookupExport(dyn, n, FALSE)] = MapOf(dyn)
    /\ [n \in BoundNames |-> LookupExport(dyn, n, FALSE)]' = MapOf(dyn')
    /\ BoundNames = Bound(dyn) /\ DOMAIN MapOf(dyn) = Bound(dyn)
BY DEF BoundNames, Bound, MapOf

LEMMA MapCardinality == \A S : Map!Cardinality(S) = Cardinality(S)
BY Zenon DEF Map!Cardinality, Cardinality, Map!IsFiniteSet, IsFiniteSet

LEMMA RegisterSteps ==
    ASSUME IInv, NEW n \in Names, NEW a \in Addrs, Register(n, a)
    PROVE  Map!Next
<1> DEFINE st == RegisterStatus(dyn, n, a)
<1>1. GoodTable(dyn)
  BY SlotTables DEF IInv, TypeOK, NoDuplicateNames, Distinct, GoodTable
<1>2. Map!Answer("register", n, st)
  BY DEF Register, Map!Answer
<1>3. CASE st = NO_ERROR
  <2>1. n \in Bindable /\ a \in Addrs \ {NULL}
    BY <1>3, BoundArgs
  <2>2. MapOf(dyn') = [x \in Bound(dyn) \cup {n} |-> IF x = n THEN a ELSE MapOf(dyn)[x]]
    <3>1. MapOf(RegisterExport(dyn, n, a)) = Rebound(dyn, n, a)
      BY <1>1, <1>3, RegisterMaps
    <3> QED
      BY <3>1 DEF Register, Rebound
  <2>3. n \in Bound(dyn) \/ Cardinality(Bound(dyn)) < MaxDyn
    <3>1. CASE SlotsOf(dyn, n) # {}
      <4>1. PICK s \in SlotsOf(dyn, n) : TRUE
        BY <3>1
      <4> QED
        BY <1>1, <4>1, MapFacts DEF SlotsOf, UsedSlots
    <3>2. CASE SlotsOf(dyn, n) = {}
      <4>1. FreeSlots(dyn) # {}
        BY <1>3, <3>2
        DEF RegisterStatus, NO_ERROR, INVALID_ARGS, TOO_BIG, ALREADY_EXISTS, NO_MEMORY
      <4> QED
        BY <1>1, <4>1, BoundCount
    <3> QED
      BY <3>1, <3>2
  <2>4. Map!Bind(n, a)
    <3>1. Map!Answer("register", n, Map!NO_ERROR)
      BY <1>2, <1>3 DEF Map!NO_ERROR, NO_ERROR
    <3>2. \A S : Map!Cardinality(S) = Cardinality(S)
      BY MapCardinality
    <3> QED
      BY <2>2, <2>3, <3>1, <3>2, BoundMap DEF Map!Bind
  <2> QED
    BY <2>1, <2>4 DEF Map!Next
<1>4. CASE st # NO_ERROR
  <2>1. MapOf(dyn') = MapOf(dyn)
    BY <1>4 DEF Register, RegisterExport
  <2>2. CASE st = NO_MEMORY
    <3>1. n \in Bindable /\ SlotsOf(dyn, n) = {} /\ FreeSlots(dyn) = {}
      BY <2>2 DEF RegisterStatus, Bindable,
         NO_ERROR, INVALID_ARGS, TOO_BIG, ALREADY_EXISTS, NO_MEMORY
    <3>2. n \notin Bound(dyn)
      BY <1>1, <3>1, MapFacts DEF SlotsOf, UsedSlots
    <3>3. Cardinality(Bound(dyn)) = MaxDyn
      BY <1>1, <3>1, BoundCount
    <3>4. Map!NoRoom(n)
      BY <1>2, <2>1, <2>2, <3>2, <3>3, BoundMap, MapCardinality
      DEF Map!NoRoom, Map!NO_MEMORY, NO_MEMORY
    <3> QED
      BY <3>1, <3>4 DEF Map!Next
  <2>3. CASE st # NO_MEMORY
    <3>1. \/ n \in DOMAIN Builtins /\ st = ALREADY_EXISTS
          \/ st = INVALID_ARGS
          \/ n \notin Bindable /\ st = TOO_BIG
      BY <1>4, <2>3 DEF RegisterStatus, Bindable
    <3>2. Map!Refuse(n)
      BY <1>2, <2>1, <3>1, BoundMap
      DEF Map!Refuse, Map!ALREADY_EXISTS, Map!INVALID_ARGS, Map!TOO_BIG,
          ALREADY_EXISTS, INVALID_ARGS, TOO_BIG
    <3> QED
      BY <3>2 DEF Map!Next
  <2> QED
    BY <2>2, <2>3
<1> QED
  BY <1>3, <1>4

LEMMA UnregisterSteps ==
    ASSUME IInv, NEW n \in Names, Unregister(n)
    PROVE  Map!Next
<1> DEFINE st == UnregisterStatus(dyn, n)
<1>1. GoodTable(dyn)
  BY SlotTables DEF IInv, TypeOK, NoDuplicateNames, Distinct, GoodTable
<1>2. Map!Answer("unregister", n, st)
  BY DEF Unregister, Map!Answer
<1>3. CASE st = NO_ERROR
  <2>1. n \in Bound(dyn) /\ MapOf(dyn') = Restrict(MapOf(dyn), Bound(dyn) \ {n})
    BY <1>1, <1>3, UnregisterMaps DEF Unregister
  <2>2. Map!Forget(n)
    BY <1>2, <1>3, <2>1, BoundMap
    DEF Map!Forget, Map!NO_ERROR, NO_ERROR, Map!Restrict, Restrict
  <2> QED
    BY <2>1, <2>2 DEF Map!Next, Bound
<1>4. CASE st # NO_ERROR
  <2>1. MapOf(dyn') = MapOf(dyn)
    BY <1>4 DEF Unregister, UnregisterExport
  <2>2. \/ n \notin Bindable /\ st = INVALID_ARGS
        \/ SlotsOf(dyn, n) = {} /\ st = NOT_FOUND
    BY <1>4 DEF UnregisterStatus, Bindable
  <2>3. n \notin Bound(dyn)
    <3>1. CASE n \notin Bindable
      BY <3>1 DEF Bound
    <3>2. CASE SlotsOf(dyn, n) = {}
      BY <1>1, <3>2, MapFacts DEF SlotsOf, UsedSlots
    <3> QED
      BY <2>2, <3>1, <3>2
  <2>4. Map!NotBound(n)
    BY <1>2, <2>1, <2>2, <2>3, BoundMap
    DEF Map!NotBound, Map!INVALID_ARGS, Map!NOT_FOUND, INVALID_ARGS, NOT_FOUND
  <2> QED
    BY <2>4 DEF Map!Next
<1> QED
  BY <1>3, <1>4

\* Seen through modloader_lookup_export the table is a map: a hole an unregister
\* left is used again, a replaced name takes no second slot, an unregistered name
\* is gone, and only MaxDyn other names leave no room for a new one, whatever
\* MaxDyn, the names and the addresses (modloader_export.c, lines 46-120).
THEOREM ExportRefinesMap == Spec => ImplementsMap
<1>1. Init => Map!Init
  <2> SUFFICES ASSUME Init PROVE Map!Init
    OBVIOUS
  <2>1. GoodTable(dyn)
    BY NoExportsFacts DEF Init, GoodTable
  <2>2. UsedSlots(dyn) = {}
    BY DEF Init, NoExports, FreeSlot, UsedSlots
  <2>3. Bound(dyn) = {}
    BY <2>1, <2>2, MapFacts
  <2>4. MapOf(dyn) = << >>
    BY <2>3 DEF MapOf
  <2> QED
    BY <2>4, BoundMap DEF Init, Map!Init, Map!NO_ERROR, NO_ERROR
<1>2. IInv /\ [Next]_vars
          => [Map!Next]_<<[n \in BoundNames |-> LookupExport(dyn, n, FALSE)], call, status>>
  <2> SUFFICES ASSUME IInv, [Next]_vars
               PROVE  [Map!Next]_<<[n \in BoundNames |-> LookupExport(dyn, n, FALSE)],
                                    call, status>>
    OBVIOUS
  <2>1. CASE UNCHANGED vars
    BY <2>1, BoundMap DEF vars
  <2>2. CASE Next
    BY <2>2, RegisterSteps, UnregisterSteps DEF Next
  <2> QED
    BY <2>1, <2>2
<1>3. Spec => []IInv
  BY InitIInv, NextIInv, PTL DEF Spec
<1> QED
  BY <1>1, <1>2, <1>3, PTL DEF Spec, ImplementsMap, Map!Spec
==============================================================================
