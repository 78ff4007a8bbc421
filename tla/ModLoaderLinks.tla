--------------------------- MODULE ModLoaderLinks ---------------------------
(***************************************************************************)
(* What a resident module is: code that can run and that the processor     *)
(* fetches, references that go where their symbols are, and an index by    *)
(* which its exports are found; that is the slot of ModSlot.               *)
(***************************************************************************)
EXTENDS ModLoaderProofs

\* Every action of a load starts from its place in the code.
LEMMA LoadStepPc == LoadStep => pc \in LoadPcs
BY DEF LoadStep, LoadPcs, SyncBlob, LayoutSection, RefuseMap, MapRel, CopySections,
       AllocResolved, CallocFails, ProbeImport, BindImport, EndResolve, RelocSection, EndReloc,
       ProtectPage, ProtectFails, CommitExec, EndProtect, IndexSymbol, IndexFull,
       CommitRel

------------------------------------------------------------------------------
\* The caches are synced when the pages have their permissions.
SyncInv == pc = "index" \/ mod.loaded => ~dirty

LEMMA SyncKeeps == IInv /\ SyncInv /\ [Next]_vars => SyncInv'
<1> SUFFICES ASSUME IInv, SyncInv, [Next]_vars PROVE SyncInv'
  OBVIOUS
<1>1. pc \in LoadPcs => ~mod.loaded
  BY DEF IInv, CallInv
<1>2. ~mod.loaded => mod = NoModule
  BY DEF IInv, CallInv
<1> USE DEF SyncInv, LoadPcs, NoModule
<1>3. ASSUME NEW m \in Images, RefuseExec(m) \/ LoadExec(m) \/ RefuseRel(m) \/ LoadRel(m)
      PROVE  SyncInv'
  BY <1>1, <1>3 DEF RefuseExec, LoadExec, RefuseRel, LoadRel, Reject, locals
<1>4. CASE SyncBlob \/ LayoutSection \/ RefuseMap \/ MapRel \/ CopySections
  BY <1>1, <1>4 DEF SyncBlob, LayoutSection, RefuseMap, MapRel, CopySections, Forget,
                   FailPlain, FailLoad
<1>5. CASE AllocResolved \/ CallocFails \/ ProbeImport \/ BindImport \/ EndResolve
  BY <1>1, <1>5 DEF AllocResolved, CallocFails, ProbeImport, BindImport, StoreImport,
                   EndResolve, Forget, FailPlain, FailFreeing, FailLoad
<1>6. CASE RelocSection \/ EndReloc
  BY <1>1, <1>6 DEF RelocSection, EndReloc, Forget, FailFreeing, FailLeaking, FailLoad
<1>7. CASE ProtectPage \/ ProtectFails
  BY <1>1, <1>7 DEF ProtectPage, ProtectFails, Forget, FailPlain, FailLoad
<1>8. CASE CommitExec \/ EndProtect
  BY <1>8 DEF CommitExec, EndProtect, SyncCaches
<1>9. CASE IndexSymbol \/ IndexFull \/ CommitRel
  BY <1>1, <1>9 DEF IndexSymbol, IndexFull, CommitRel, Commit, Forget, FailPlain, FailLoad
<1>10. CASE Unload
  BY <1>10 DEF Unload, Reject, FreeRegion, locals
<1>11. CASE Run \/ Return \/ ExportChange
  BY <1>11 DEF Run, Return, ExportChange, Reject, locals
<1>12. CASE UNCHANGED vars
  BY <1>12 DEF vars, locals
<1> QED
  BY <1>3, <1>4, <1>5, <1>6, <1>7, <1>8, <1>9, <1>10, <1>11, <1>12
  DEF Next, Call, LoadStep

\* On no path does a module become resident with code in the data cache that
\* was written after arch_sync_cache_range (lines 55 and 604).
THEOREM SyncSafety == Spec => []CodeSynced
<1>1. Init => SyncInv
  BY DEF Init, SyncInv, NoModule
<1>2. SyncInv => CodeSynced
  BY DEF SyncInv, CodeSynced
<1> QED
  BY <1>1, <1>2, SyncKeeps, Invariance, PTL DEF Spec

------------------------------------------------------------------------------
\* The pages the loop has passed have the permissions of what is on them.
ExecInv ==
    /\ pc = "wx" => \A p \in DOMAIN pages : p < i => pages[p] = PageTarget(p)
    /\ pc = "index" \/ mod.loaded => \A p \in DOMAIN pages : pages[p] = PageTarget(p)

LEMMA LastPage ==
    ASSUME IInv, pc = "wx", ~MorePages
    PROVE  \A p \in DOMAIN pages : p < i
<1>1. NumPages(total) \in Nat
  BY NumPagesFacts DEF IInv, CallInv
<1>2. DOMAIN pages = 0 .. NumPages(total) - 1
  BY DEF IInv, RegionInv, Mapped, LoadPcs
<1> QED
  BY <1>1, <1>2 DEF MorePages, IInv, CallInv

LEMMA ExecKeeps == IInv /\ ExecInv /\ [Next]_vars => ExecInv'
<1> SUFFICES ASSUME IInv, ExecInv, [Next]_vars PROVE ExecInv'
  OBVIOUS
<1>1. pc \in LoadPcs => ~mod.loaded
  BY DEF IInv, CallInv
<1>2. /\ ~mod.loaded => mod = NoModule
      /\ pc \in {"idle", "running"} \cup LoadPcs
  BY DEF IInv, CallInv
<1>3. ASSUME UNCHANGED <<img, secAddr>> PROVE \A p : PageTarget(p)' = PageTarget(p)
  BY <1>3 DEF PageTarget
<1> USE DEF ExecInv, LoadPcs, NoModule
<1>4. ASSUME NEW m \in Images, RefuseExec(m) \/ LoadExec(m) \/ RefuseRel(m) \/ LoadRel(m)
      PROVE  ExecInv'
  <2>1. CASE LoadExec(m)
    BY <2>1 DEF LoadExec
  <2>2. CASE LoadRel(m)
    BY <2>2 DEF LoadRel, locals
  <2>3. CASE RefuseExec(m) \/ RefuseRel(m)
    BY <1>3, <2>3 DEF RefuseExec, RefuseRel, Reject, locals
  <2> QED
    BY <1>4, <2>1, <2>2, <2>3
<1>5. CASE SyncBlob \/ LayoutSection \/ RefuseMap \/ MapRel \/ CopySections
  <2>1. CASE SyncBlob
    <3>1. DOMAIN pages = 0 .. NumPages(total) - 1 /\ NumPages(total) \in Nat
      BY <2>1, NumPagesFacts DEF SyncBlob, IInv, CallInv, RegionInv, Mapped
    <3>2. pc' = "wx" /\ i' = 0 /\ pages' = pages /\ ~mod'.loaded
      BY <1>1, <2>1 DEF SyncBlob
    <3> QED
      BY <3>1, <3>2
  <2>2. CASE ~SyncBlob
    BY <1>1, <1>5, <2>2 DEF LayoutSection, RefuseMap, MapRel, CopySections, Forget, FailPlain,
                           FailLoad
  <2> QED
    BY <2>1, <2>2
<1>6. CASE AllocResolved \/ CallocFails \/ ProbeImport \/ BindImport \/ EndResolve
  BY <1>1, <1>6 DEF AllocResolved, CallocFails, ProbeImport, BindImport, StoreImport,
                   EndResolve, Forget, FailPlain, FailFreeing, FailLoad
<1>7. CASE RelocSection
  BY <1>1, <1>7 DEF RelocSection, Forget, FailFreeing, FailLeaking, FailLoad
<1>8. CASE EndReloc
  <2>1. CASE FailFreeing(NOT_FOUND)
    BY <1>1, <1>8, <2>1 DEF EndReloc, Forget, FailFreeing, FailLoad
  <2>2. CASE pc' = "wx" /\ i' = 0 /\ UNCHANGED <<mod, pages, img, secAddr, total>>
    <3>1. ~mod'.loaded
      BY <1>1, <1>8, <2>2 DEF EndReloc
    <3>2. DOMAIN pages = 0 .. NumPages(total) - 1 /\ NumPages(total) \in Nat
      BY <1>8, NumPagesFacts DEF EndReloc, IInv, CallInv, RegionInv, Mapped
    <3> QED
      BY <2>2, <3>1, <3>2
  <2> QED
    BY <1>8, <2>1, <2>2 DEF EndReloc
<1>9. CASE ProtectPage
  <2>1. /\ pc = "wx" /\ pc' = "wx" /\ i \in DOMAIN pages /\ i' = i + 1
        /\ pages' = [pages EXCEPT ![i] = PageTarget(i)]
        /\ UNCHANGED <<mod, img, secAddr>>
    BY <1>9 DEF ProtectPage, MorePages
  <2>2. DOMAIN pages' = DOMAIN pages
    BY <2>1
  <2>3. DOMAIN pages \subseteq Int /\ i \in Nat
    <3>1. DOMAIN pages = 0 .. NumPages(total) - 1
      BY <2>1 DEF IInv, RegionInv, Mapped
    <3> QED
      BY <3>1 DEF IInv, CallInv
  <2>4. ASSUME NEW p \in DOMAIN pages', p < i'
        PROVE  pages'[p] = PageTarget(p)
    <3>1. CASE p = i
      BY <2>1, <2>2, <3>1
    <3>2. CASE p # i
      <4>1. p < i
        BY <2>1, <2>2, <2>3, <2>4, <3>2
      <4> QED
        BY <2>1, <2>2, <3>2, <4>1
    <3> QED
      BY <3>1, <3>2
  <2> QED
    BY <1>1, <1>3, <2>1, <2>4
<1>10. CASE ProtectFails
  BY <1>1, <1>10 DEF ProtectFails, Forget, FailPlain, FailLoad
<1>11. CASE CommitExec \/ EndProtect
  <2>1. pc = "wx" /\ ~MorePages /\ pc' \in {"idle", "index"}
        /\ UNCHANGED <<pages, img, secAddr>>
    BY <1>11 DEF CommitExec, EndProtect, Commit
  <2>2. \A p \in DOMAIN pages : pages[p] = PageTarget(p)
    BY <2>1, LastPage
  <2> QED
    BY <1>3, <2>1, <2>2
<1>12. CASE IndexSymbol \/ CommitRel
  <2>1. pc = "index" /\ pc' \in {"idle", "index"} /\ UNCHANGED <<pages, img, secAddr>>
    BY <1>12 DEF IndexSymbol, CommitRel, Commit
  <2> QED
    BY <1>3, <2>1
<1>13. CASE IndexFull
  BY <1>1, <1>13 DEF IndexFull, Forget, FailPlain, FailLoad
<1>14. CASE Unload
  BY <1>3, <1>14 DEF Unload, Reject, FreeRegion, Forget, Unmapped, locals
<1>15. CASE Run \/ Return \/ ExportChange
  <2>1. UNCHANGED <<mod, pages, i, img, secAddr>> /\ (pc' = "wx" => pc = "wx")
        /\ (pc' = "index" => pc = "index")
    BY <1>15 DEF Run, Return, ExportChange, Reject, locals
  <2> QED
    BY <1>3, <2>1
<1>16. CASE UNCHANGED vars
  BY <1>3, <1>16 DEF vars, locals
<1> QED
  BY <1>4, <1>5, <1>6, <1>7, <1>8, <1>9, <1>10, <1>11, <1>12, <1>13, <1>14, <1>15, <1>16
  DEF Next, Call, LoadStep

\* A page that begins before the code of a blob ends is one of its first pages.
LEMMA SplitPage ==
    ASSUME NEW n \in Nat, NEW p \in Nat, p * PageSize < n
    PROVE  p < NumPages(n)
<1> DEFINE q == NumPages(n)
<1>1. PageSize \in Nat \ {0} /\ q \in Nat /\ q * PageSize >= n
  BY PageAssumption, NumPagesFacts
<1> HIDE DEF q
<1>2. SUFFICES ASSUME q <= p PROVE FALSE
  BY <1>1 DEF q
<1>3. q * PageSize <= p * PageSize
  BY <1>1, <1>2
<1>4. q * PageSize \in Nat /\ p * PageSize \in Nat
  BY <1>1
<1> QED
  BY <1>1, <1>3, <1>4

\* The entry is the one the image names.
EntryOf == IF img.kind = "exec" THEN img.entry ELSE FindEntry(img, Base, secAddr)

EntryInv ==
    /\ pc \in {"sync", "wx", "index"} => entry = EntryOf
    /\ mod.loaded => mod.entry = EntryOf
    /\ (pc \in {"sync", "wx"} \/ mod.loaded) /\ img.kind = "exec" => total = img.size

LEMMA EntryKeeps == IInv /\ EntryInv /\ [Next]_vars => EntryInv'
<1> SUFFICES ASSUME IInv, EntryInv, [Next]_vars PROVE EntryInv'
  OBVIOUS
<1>1. /\ pc \in LoadPcs => ~mod.loaded
      /\ pc \in LoadPcs \ {"sync", "wx"} => img.kind = "rel"
  BY DEF IInv, CallInv
<1>2. ASSUME UNCHANGED <<img, secAddr>> PROVE EntryOf' = EntryOf
  BY <1>2 DEF EntryOf
<1>3. ASSUME ~mod'.loaded, pc' \notin {"sync", "wx", "index"} PROVE EntryInv'
  BY <1>3 DEF EntryInv
<1>4. ASSUME UNCHANGED <<mod, img, secAddr, entry, total>>,
             pc' \in {"sync", "wx"} => pc \in {"sync", "wx"},
             pc' = "index" => pc \in {"wx", "index"}
      PROVE  EntryInv'
  BY <1>2, <1>4 DEF EntryInv
<1>5. CASE CommitExec \/ CommitRel
  <2>1. pc \in {"wx", "index"} /\ pc' = "idle" /\ mod'.entry = entry
        /\ UNCHANGED <<img, secAddr, total>>
        /\ (pc = "index" => img.kind = "rel")
    BY <1>1, <1>5 DEF CommitExec, CommitRel, Commit, LoadPcs
  <2> QED
    BY <1>2, <2>1 DEF EntryInv
<1>6. CASE EndReloc
  <2>1. CASE FailFreeing(NOT_FOUND)
    BY <1>1, <1>3, <1>6, <2>1 DEF EndReloc, FailFreeing, FailLoad, Forget, LoadPcs
  <2>2. CASE entry' = FindEntry(img, Base, secAddr) /\ UNCHANGED <<mod, img, secAddr>>
    <3>1. img.kind = "rel" /\ ~mod.loaded
      BY <1>1, <1>6 DEF EndReloc, LoadPcs
    <3> QED
      BY <2>2, <3>1 DEF EntryInv, EntryOf
  <2> QED
    BY <1>6, <2>1, <2>2 DEF EndReloc
<1>7. CASE LoadStep /\ ~CommitExec /\ ~CommitRel /\ ~EndReloc
  <2>1. pc \in LoadPcs /\ ~mod.loaded
    BY <1>1, <1>7, LoadStepPc
  <2>2. CASE \E st : FailLoad(st)
    BY <1>3, <2>1, <2>2 DEF FailLoad, Forget
  <2>3. CASE SyncBlob \/ ProtectPage \/ EndProtect \/ IndexSymbol
    BY <1>4, <2>3 DEF SyncBlob, ProtectPage, EndProtect, IndexSymbol
  <2>4. CASE LayoutSection \/ RefuseMap \/ MapRel \/ CopySections \/ AllocResolved
                \/ ProbeImport \/ BindImport \/ EndResolve \/ RelocSection
    <3>1. mod' = mod /\ pc' \notin {"sync", "wx", "index"}
      BY <2>4 DEF LayoutSection, RefuseMap, MapRel, CopySections, AllocResolved, ProbeImport,
         BindImport, StoreImport, EndResolve, RelocSection, FailPlain, FailFreeing,
         FailLeaking, FailLoad, Forget
    <3> QED
      BY <1>3, <2>1, <3>1
  <2> QED
    BY <1>7, <2>2, <2>3, <2>4 DEF LoadStep, CallocFails, ProtectFails, IndexFull, FailPlain
<1>8. ASSUME NEW m \in Images, LoadExec(m) PROVE EntryInv'
  <2>1. m.kind = "exec" /\ img' = m /\ entry' = m.entry /\ mod' = mod /\ ~mod.loaded
        /\ total' = m.size
    BY <1>8 DEF LoadExec
  <2> QED
    BY <2>1 DEF EntryInv, EntryOf
<1>9. ASSUME NEW m \in Images, LoadRel(m) PROVE EntryInv'
  <2>1. mod' = mod /\ ~mod.loaded /\ pc' \in {"idle", "layout"}
    BY <1>9 DEF LoadRel, locals
  <2> QED
    BY <1>3, <2>1
<1>10. ASSUME NEW st, Reject(st) PROVE EntryInv'
  BY <1>4, <1>10 DEF Reject, locals
<1>11. CASE Unload /\ mod.loaded
  BY <1>3, <1>11 DEF Unload, Reject, FreeRegion, Forget, NoModule
<1>12. CASE Run \/ Return \/ ExportChange \/ UNCHANGED vars
  BY <1>4, <1>10, <1>12 DEF Run, Return, ExportChange, vars, locals
<1> QED
  BY <1>5, <1>6, <1>7, <1>8, <1>9, <1>10, <1>11, <1>12
  DEF Next, Call, RefuseExec, RefuseRel, Unload

\* The address of a symbol, Thumb bit and all, is in its section when its value is.
LEMMA AddressInSection ==
    ASSUME NEW base \in Nat, NEW off \in Nat, NEW value \in Nat, NEW n \in Nat, value < n
    PROVE  LET a == base + off + ClearBit0(value)
               b == IF value % 2 = 1 THEN SetBit0(a) ELSE a
           IN  b - base \in Nat /\ off <= b - base /\ b - base < off + n
<1>1. CASE value % 2 = 0
  BY <1>1 DEF ClearBit0
<1>2. CASE value % 2 = 1
  <2>1. ClearBit0(value) = value - 1 /\ value >= 1
    BY <1>2 DEF ClearBit0
  <2>2. \A a \in Nat : SetBit0(a) \in {a, a + 1}
    BY DEF SetBit0
  <2> DEFINE a == base + off + (value - 1)
  <2>3. a \in Nat
    BY <2>1
  <2>4. SetBit0(a) \in {a, a + 1}
    BY <2>2, <2>3
  <2> QED
    BY <1>2, <2>1, <2>4
<1> QED
  BY <1>1, <1>2

\* A byte of the mapping is on a page of it.
LEMMA PageOf ==
    ASSUME NEW o \in Nat
    PROVE  /\ o \div PageSize \in Nat
           /\ (o \div PageSize) * PageSize <= o
           /\ o < (o \div PageSize + 1) * PageSize
BY PageAssumption

LEMMA PageMapped ==
    ASSUME IInv, mod.loaded, NEW o \in Nat, o < total
    PROVE  o \div PageSize \in DOMAIN pages
<1> DEFINE p == o \div PageSize
<1>1. p \in Nat /\ p * PageSize <= o
  BY PageOf
<1> HIDE DEF p
<1>2. p * PageSize \in Nat /\ total \in Nat
  BY <1>1, PageAssumption DEF IInv, CallInv
<1>3. p * PageSize < total
  BY <1>1, <1>2
<1>4. p < NumPages(total) /\ NumPages(total) \in Nat
  BY <1>1, <1>2, <1>3, SplitPage, NumPagesFacts
<1>5. DOMAIN pages = 0 .. NumPages(total) - 1
  BY DEF IInv, RegionInv, Mapped
<1> QED
  BY <1>1, <1>4, <1>5 DEF p

\* What a symbol defines in a section of code is on a page that can be executed.
LEMMA SymbolInCode ==
    ASSUME IInv, ExecInv, mod.loaded, img.kind = "rel", NEW sym,
           sym.shndx \in AllocSections(img), img.sections[sym.shndx].exec,
           sym.value \in Nat, sym.value < img.sections[sym.shndx].size
    PROVE  CodeAt(DefinedAddr(sym, Base, secAddr))
<1> DEFINE t == sym.shndx
           o == DefinedAddr(sym, Base, secAddr) - Base
           p == o \div PageSize
<1>1. img \in RelImage
  BY ImageTypes DEF IInv, CallInv
<1>2. t \in 1 .. Len(img.sections) /\ Len(img.sections) \in Nat
      /\ img.sections[t].size \in Nat
  BY <1>1, SectionTypes DEF AllocSections
<1>3. secAddr[t] \in Nat /\ secAddr[t] + img.sections[t].size <= total
  <2>1. Placed = Shnum(img)
    BY DEF Placed, IInv, CallInv, LoadPcs
  <2>2. t < Shnum(img)
    BY <1>2 DEF Shnum
  <2> QED
    BY <1>2, <2>1, <2>2 DEF IInv, LayoutInv
<1>4. o \in Nat /\ secAddr[t] <= o /\ o < secAddr[t] + img.sections[t].size
  <2>1. Base \in Nat
    BY LoaderAssumption
  <2> QED
    BY <1>2, <1>3, <2>1, AddressInSection DEF DefinedAddr
<1> HIDE DEF o
<1>5. p \in Nat /\ p * PageSize <= o /\ o < (p + 1) * PageSize
  BY <1>4, PageOf
<1>6. o < total /\ total \in Nat
  BY <1>2, <1>3, <1>4 DEF IInv, CallInv
<1>7. p \in DOMAIN pages
  BY <1>4, <1>6, PageMapped
<1> HIDE DEF p
<1>8. PageSize \in Nat /\ p * PageSize \in Nat /\ (p + 1) * PageSize \in Nat
  BY <1>5, PageAssumption
<1>9. t \in SectionsOnPage(img, secAddr, p)
  <2>1. p * PageSize < secAddr[t] + img.sections[t].size /\ secAddr[t] < (p + 1) * PageSize
    <3> DEFINE x == p * PageSize
               y == (p + 1) * PageSize
    <3>1. x \in Nat /\ y \in Nat /\ x <= o /\ o < y
      BY <1>5, <1>8
    <3> HIDE DEF x, y
    <3>2. x < secAddr[t] + img.sections[t].size /\ secAddr[t] < y
      BY <1>2, <1>3, <1>4, <3>1
    <3> QED
      BY <3>2 DEF x, y
  <2> QED
    BY <2>1 DEF SectionsOnPage
<1>10. pages[p] = "RX"
  <2>1. PageFlags(img, secAddr, p) = "RX"
    BY <1>9 DEF PageFlags
  <2> QED
    BY <1>7, <2>1 DEF ExecInv, PageTarget
<1> QED
  BY <1>7, <1>10 DEF CodeAt, p, o

\* An entry in the code of its image is where modloader_run can call it.
LEMMA EntryExecutable ==
    ASSUME IInv, ExecInv, EntryInv, mod.loaded, EntryInCode(img)
    PROVE  CodeAt(mod.entry)
<1>1. img \in Images /\ mod.entry = EntryOf
  BY DEF IInv, CallInv, EntryInv
<1>2. CASE img.kind = "exec"
  <2> DEFINE o == img.entry - Base
             p == o \div PageSize
  <2>1. img \in ExecImage /\ img.entry \in Nat /\ img.rxSize \in Nat /\ img.size \in Nat
    BY <1>1, <1>2, ImageTypes DEF ExecImage
  <2>2. o \in Nat /\ o < img.rxSize /\ o < img.size
    BY <1>2, <2>1, LoaderAssumption DEF EntryInCode
  <2>3. total = img.size
    BY <1>2 DEF EntryInv
  <2> HIDE DEF o
  <2>4. p \in Nat /\ p * PageSize <= o
    BY <2>2, PageOf
  <2>5. p \in DOMAIN pages
    BY <2>2, <2>3, PageMapped
  <2> HIDE DEF p
  <2>6. p * PageSize < img.rxSize
    <3>1. p * PageSize \in Nat
      BY <2>4, PageAssumption
    <3> QED
      BY <2>1, <2>2, <2>4, <3>1
  <2>7. p < NumPages(img.rxSize)
    BY <2>1, <2>4, <2>6, SplitPage
  <2>8. pages[p] = "RX"
    BY <1>2, <2>5, <2>7 DEF ExecInv, PageTarget, SplitFlags
  <2> QED
    BY <1>1, <1>2, <2>5, <2>8 DEF CodeAt, EntryOf, o, p
<1>3. CASE img.kind # "exec"
  <2> DEFINE k == Min(EntrySymbols(img))
  <2>1. img \in RelImage /\ img.kind = "rel"
    BY <1>1, <1>3, ImageTypes
  <2>2. /\ EntrySymbols(img) # {} /\ img.symbols[k].shndx \in AllocSections(img)
        /\ img.sections[img.symbols[k].shndx].exec
        /\ img.symbols[k].value < img.sections[img.symbols[k].shndx].size
    BY <1>3 DEF EntryInCode
  <2>3. k \in DOMAIN img.symbols
    <3>1. EntrySymbols(img) \in SUBSET Nat /\ EntrySymbols(img) \subseteq DOMAIN img.symbols
      BY <2>1, SymbolTypes DEF EntrySymbols
    <3> QED
      BY <2>2, <3>1, MinFacts
  <2>4. img.symbols[k].shndx \in 1 .. Len(img.sections) /\ Len(img.sections) \in Nat
    BY <2>1, <2>2, SectionTypes DEF AllocSections
  <2>5. img.symbols[k].value \in Nat
    BY <2>1, <2>3, SymbolTypes
  <2>6. FindEntry(img, Base, secAddr) = DefinedAddr(img.symbols[k], Base, secAddr)
    BY <2>2, <2>4 DEF FindEntry, SHN_UNDEF, Shnum
  <2>7. CodeAt(DefinedAddr(img.symbols[k], Base, secAddr))
    BY <2>1, <2>2, <2>5, SymbolInCode
  <2> QED
    BY <1>1, <1>3, <2>6, <2>7 DEF EntryOf
<1> QED
  BY <1>2, <1>3

\* A page with a byte of code on it is one the loop made executable.
LEMMA CodeFollows == IInv /\ ExecInv /\ EntryInv => CodeExecutable
<1> SUFFICES ASSUME IInv, ExecInv, EntryInv, mod.loaded, NEW p \in DOMAIN pages
             PROVE  IF img.kind = "exec"
                    THEN p * PageSize < img.rxSize => pages[p] = "RX"
                    ELSE \A s \in AllocSections(img) :
                            /\ img.sections[s].exec
                            /\ p * PageSize < secAddr[s] + img.sections[s].size
                            /\ secAddr[s] < (p + 1) * PageSize
                            => pages[p] = "RX"
  BY EntryExecutable DEF CodeExecutable
<1>1. pages[p] = PageTarget(p)
  BY DEF ExecInv
<1>2. CASE img.kind = "exec"
  <2>1. img.rxSize \in Nat
    BY <1>2, ImageTypes DEF IInv, CallInv, ExecImage
  <2>2. p \in Nat
    <3>1. DOMAIN pages = 0 .. NumPages(total) - 1
      BY DEF IInv, RegionInv, Mapped
    <3> QED
      BY <3>1
  <2>3. p * PageSize < img.rxSize => p < NumPages(img.rxSize)
    BY <2>1, <2>2, SplitPage
  <2> QED
    BY <1>1, <1>2, <2>3 DEF PageTarget, SplitFlags
<1>3. CASE img.kind # "exec"
  BY <1>1, <1>3 DEF PageTarget, PageFlags, SectionsOnPage
<1> QED
  BY <1>2, <1>3

\* The code of a resident module is on pages that can be executed, those it
\* shares with data included (modloader_wx.c:53-137), and so is its entry, where
\* modloader_find_entry or the metadata of a blob says, when it is in that code.
THEOREM ExecSafety == Spec => []CodeExecutable
<1>1. Init => ExecInv /\ EntryInv
  BY DEF Init, ExecInv, EntryInv, NoModule
<1> QED
  BY <1>1, CodeFollows, ExecKeeps, EntryKeeps, Invariance, PTL DEF Spec

------------------------------------------------------------------------------
\* The relocation sections below n have been applied, with these imports.
Linked(n, imports) ==
    \A t \in DOMAIN img.sections :
        t < n /\ RelocatesSection(img, img.sections[t])
        => /\ BadRelocs(img, img.sections[t]) = {}
           /\ Patches(img, img.sections[t], secAddr, imports) \subseteq patched

\* What the imports of img resolved to, while they are and after.
Imports == [DOMAIN img.symbols -> Nat]

LinkedSoFar ==
    \/ pc \in {"wx", "index"} /\ img.kind = "rel"
    \/ mod.loaded /\ img.kind = "rel"

LinkInv ==
    /\ pc = "reloc" => Linked(i, resolved)
    /\ LinkedSoFar => \E imports \in Imports : Linked(Shnum(img), imports)

LEMMA LinkedKeeps ==
    ASSUME UNCHANGED <<img, secAddr, patched>>, NEW n, NEW imports, Linked(n, imports)
    PROVE  Linked(n, imports)'
BY DEF Linked

\* One more section is applied.
LEMMA LinkSection ==
    ASSUME IInv, LinkInv, RelocSection, pc' = "reloc"
    PROVE  Linked(i, resolved)'
<1>1. /\ pc = "reloc" /\ i' = i + 1 /\ UNCHANGED <<img, secAddr, resolved>>
      /\ RelocatesSection(img, img.sections[i]) =>
             patched' = patched \cup Patches(img, img.sections[i], secAddr, resolved)
      /\ ~RelocatesSection(img, img.sections[i]) => patched' = patched
      /\ RelocatesSection(img, img.sections[i]) => BadRelocs(img, img.sections[i]) = {}
  BY DEF RelocSection, FailLeaking, FailFreeing, FailLoad, Forget
<1>2. i \in Nat /\ DOMAIN img.sections \subseteq Nat
  <2>1. img \in RelImage
    BY <1>1, ImageTypes DEF IInv, CallInv, LoadPcs
  <2> QED
    BY <2>1, SectionTypes DEF IInv, CallInv
<1>3. Linked(i, resolved) /\ patched \subseteq patched'
  BY <1>1 DEF LinkInv
<1>4. ASSUME NEW t \in DOMAIN img.sections, t < i + 1,
             RelocatesSection(img, img.sections[t])
      PROVE  /\ BadRelocs(img, img.sections[t]) = {}
             /\ Patches(img, img.sections[t], secAddr, resolved) \subseteq patched'
  <2>1. CASE t = i
    BY <1>1, <1>4, <2>1
  <2>2. CASE t # i
    <3>1. t < i
      BY <1>2, <1>4, <2>2
    <3> QED
      BY <1>3, <1>4, <3>1 DEF Linked
  <2> QED
    BY <2>1, <2>2
<1> QED
  BY <1>1, <1>4 DEF Linked

LEMMA LinkKeeps ==
    IInv /\ BufferInv /\ TypeInv /\ LinkInv /\ [Next]_vars => LinkInv'
<1> SUFFICES ASSUME IInv, BufferInv, TypeInv, LinkInv, [Next]_vars PROVE LinkInv'
  OBVIOUS
<1>1. /\ pc \in LoadPcs => ~mod.loaded
      /\ ~mod.loaded => mod = NoModule
      /\ pc \in LoadPcs \ {"sync", "wx"} => img.kind = "rel"
      /\ pc = "sync" => img.kind = "exec"
  BY DEF IInv, CallInv
<1>2. ASSUME UNCHANGED <<img, secAddr, patched>>, pc' # "reloc",
             LinkedSoFar' => LinkedSoFar
      PROVE  LinkInv'
  <2>1. ASSUME NEW imports \in Imports, Linked(Shnum(img), imports)
        PROVE  imports \in Imports' /\ Linked(Shnum(img), imports)'
    BY <1>2, <2>1, LinkedKeeps DEF Imports
  <2> QED
    BY <1>2, <2>1 DEF LinkInv
<1>3. ASSUME pc' = "idle", ~mod'.loaded PROVE LinkInv'
  BY <1>3 DEF LinkInv, LinkedSoFar
<1>4. ASSUME NEW st, FailLoad(st), pc \in LoadPcs PROVE LinkInv'
  BY <1>1, <1>3, <1>4 DEF FailLoad, Forget
<1>5. ASSUME NEW m \in Images, RefuseExec(m) \/ LoadExec(m) \/ RefuseRel(m) \/ LoadRel(m)
      PROVE  LinkInv'
  <2>1. CASE LoadExec(m)
    BY <2>1 DEF LoadExec, LinkInv, LinkedSoFar
  <2>2. CASE LoadRel(m)
    <3>1. mod' = mod /\ ~mod.loaded /\ pc' \in {"idle", "layout"}
      BY <2>2 DEF LoadRel, locals
    <3> QED
      BY <3>1 DEF LinkInv, LinkedSoFar
  <2>3. CASE RefuseExec(m) \/ RefuseRel(m)
    BY <1>2, <2>3 DEF RefuseExec, RefuseRel, Reject, locals, LinkedSoFar
  <2> QED
    BY <1>5, <2>1, <2>2, <2>3
<1>6. CASE SyncBlob \/ LayoutSection \/ RefuseMap \/ MapRel
  <2>1. CASE SyncBlob
    BY <1>1, <2>1 DEF SyncBlob, LoadPcs, LinkInv, LinkedSoFar
  <2>2. CASE ~SyncBlob
    <3>1. pc' \in {"idle", "layout", "copy"} /\ mod' = mod /\ ~mod.loaded
      BY <1>1, <1>6, <2>2 DEF LayoutSection, RefuseMap, MapRel, Forget, LoadPcs
    <3> QED
      BY <3>1 DEF LinkInv, LinkedSoFar
  <2> QED
    BY <2>1, <2>2
<1>7. CASE CopySections \/ CallocFails \/ ProtectFails \/ IndexFull
  <2>1. pc \in LoadPcs
    BY <1>7, LoadStepPc DEF LoadStep
  <2>2. CASE \E st : FailPlain(st)
    BY <1>4, <2>1, <2>2 DEF FailPlain
  <2>3. CASE pc' = "calloc" /\ UNCHANGED mod
    BY <1>1, <2>1, <2>3 DEF LinkInv, LinkedSoFar
  <2> QED
    BY <1>7, <2>2, <2>3 DEF CopySections, CallocFails, ProtectFails, IndexFull
<1>8. CASE AllocResolved \/ EndResolve
  <2>1. /\ pc' \in {"reloc", "resolve"} /\ mod' = mod /\ ~mod.loaded
        /\ pc' = "reloc" => i' = 1
        /\ UNCHANGED <<img, secAddr, patched>>
    BY <1>1, <1>8 DEF AllocResolved, EndResolve, LoadPcs
  <2>2. img \in RelImage
    BY <1>1, <1>8, ImageTypes DEF AllocResolved, EndResolve, IInv, CallInv, LoadPcs
  <2>3. \A t \in DOMAIN img.sections : ~(t < 1)
    BY <2>2, SectionTypes
  <2> QED
    BY <2>1, <2>3 DEF LinkInv, LinkedSoFar, Linked
<1>9. CASE ProbeImport
  BY <1>1, <1>9 DEF ProbeImport, LoadPcs, LinkInv, LinkedSoFar
<1>10. CASE BindImport
  <2>1. CASE FailFreeing(NOT_FOUND)
    BY <1>4, <1>10, <2>1 DEF FailFreeing, BindImport, LoadPcs
  <2>2. CASE StoreImport
    BY <1>1, <1>10, <2>2 DEF StoreImport, BindImport, LoadPcs, LinkInv, LinkedSoFar
  <2> QED
    BY <1>10, <2>1, <2>2 DEF BindImport
<1>11. CASE RelocSection
  <2>1. CASE \E st : FailLeaking(st) \/ FailFreeing(st)
    BY <1>4, <1>11, <2>1 DEF FailLeaking, FailFreeing, RelocSection, LoadPcs
  <2>2. CASE pc' = "reloc" /\ UNCHANGED mod
    <3>1. ~mod'.loaded
      BY <1>1, <1>11, <2>2 DEF RelocSection, LoadPcs
    <3>2. Linked(i, resolved)'
      BY <1>11, <2>2, LinkSection
    <3> QED
      BY <2>2, <3>1, <3>2 DEF LinkInv, LinkedSoFar
  <2>3. pc = "reloc"
    BY <1>11 DEF RelocSection
  <2> QED
    BY <1>11, <2>1, <2>2, <2>3 DEF RelocSection
<1>12. CASE EndReloc
  <2>1. CASE FailFreeing(NOT_FOUND)
    BY <1>4, <1>12, <2>1 DEF FailFreeing, EndReloc, LoadPcs
  <2>2. CASE pc' = "wx" /\ UNCHANGED <<mod, img, secAddr, patched>>
    <3>1. pc = "reloc" /\ i = Shnum(img)
      BY <1>12 DEF EndReloc
    <3>2. resolved \in Imports /\ Linked(Shnum(img), resolved)
      BY <3>1 DEF LinkInv, TypeInv, Imports
    <3>3. resolved \in Imports' /\ (\A v : Linked(Shnum(img), v) => Linked(Shnum(img), v)')
      BY <2>2, <3>2, LinkedKeeps DEF Imports
    <3> QED
      BY <2>2, <3>2, <3>3 DEF LinkInv
  <2> QED
    BY <1>12, <2>1, <2>2 DEF EndReloc
<1>13. CASE ProtectPage \/ CommitExec \/ EndProtect
  <2>1. /\ pc = "wx" /\ pc' # "reloc" /\ UNCHANGED <<img, secAddr, patched>>
        /\ CommitExec => img.kind = "exec"
    BY <1>13 DEF ProtectPage, CommitExec, EndProtect, Commit
  <2> QED
    BY <1>2, <2>1 DEF LinkedSoFar
<1>14. CASE IndexSymbol \/ CommitRel
  <2>1. pc = "index" /\ pc' # "reloc" /\ UNCHANGED <<img, secAddr, patched>>
    BY <1>14 DEF IndexSymbol, CommitRel, Commit
  <2> QED
    BY <1>2, <2>1 DEF LinkedSoFar
<1>15. CASE Unload
  <2>1. CASE mod.loaded
    BY <1>3, <1>15, <2>1 DEF Unload, Forget, NoModule, Reject
  <2>2. CASE ~mod.loaded
    BY <1>2, <1>15, <2>2 DEF Unload, Reject, locals, LinkedSoFar
  <2> QED
    BY <2>1, <2>2
<1>16. CASE Run \/ Return
  <2>1. /\ pc' \in {"idle", "running"} /\ UNCHANGED <<mod, img, secAddr, patched>>
    BY <1>16 DEF Run, Return, Reject, locals
  <2> QED
    BY <1>2, <2>1 DEF LinkedSoFar
<1>17. CASE ExportChange \/ UNCHANGED vars
  <2>1. UNCHANGED <<mod, pc, i, img, secAddr, resolved, patched>>
    BY <1>17 DEF ExportChange, vars, locals
  <2>2. CASE pc = "reloc"
    <3>1. Linked(i, resolved)'
      BY <2>1, <2>2 DEF LinkInv, Linked
    <3>2. ~mod'.loaded
      BY <1>1, <2>1, <2>2 DEF LoadPcs
    <3> QED
      BY <2>1, <2>2, <3>1, <3>2 DEF LinkInv, LinkedSoFar
  <2>3. CASE pc # "reloc"
    BY <1>2, <2>1, <2>3 DEF LinkedSoFar
  <2> QED
    BY <2>2, <2>3
<1> QED
  BY <1>5, <1>6, <1>7, <1>8, <1>9, <1>10, <1>11, <1>12, <1>13, <1>14, <1>15, <1>16, <1>17
  DEF Next, Call, LoadStep

\* The resident module is of its image's kind.
KindInv == mod.loaded => mod.kind = img.kind

LEMMA KindKeeps == IInv /\ KindInv /\ [Next]_vars => KindInv'
<1> SUFFICES ASSUME IInv, KindInv, [Next]_vars, mod'.loaded PROVE mod'.kind = img'.kind
  BY DEF KindInv
<1>1. /\ pc \in LoadPcs => ~mod.loaded
      /\ pc \in LoadPcs \ {"sync", "wx"} => img.kind = "rel"
  BY DEF IInv, CallInv
<1>2. CASE mod.loaded
  <2>1. ~LoadStep
    BY <1>1, <1>2, LoadStepPc
  <2>2. mod' = mod /\ img' = img
    BY <1>2, <2>1 DEF Next, Call, RefuseExec, LoadExec, RefuseRel, LoadRel, Unload, Run,
       Return, ExportChange, Reject, NoModule, vars, locals
  <2> QED
    BY <1>2, <2>2 DEF KindInv
<1>3. CASE ~mod.loaded
  <2>1. CommitExec \/ CommitRel
    BY <1>3 DEF Next, Call, RefuseExec, LoadExec, RefuseRel, LoadRel, Unload, Run,
       Return, ExportChange, Reject, vars, locals, LoadStep, SyncBlob, LayoutSection, RefuseMap,
       MapRel, CopySections, AllocResolved, CallocFails, ProbeImport, BindImport,
       StoreImport, EndResolve, RelocSection, EndReloc, ProtectPage, ProtectFails,
       EndProtect, IndexSymbol, IndexFull, FailPlain, FailFreeing, FailLeaking, FailLoad
  <2> QED
    BY <1>1, <2>1 DEF CommitExec, CommitRel, Commit, LoadPcs
<1> QED
  BY <1>2, <1>3

LEMMA LinkInvariance == Spec => [](IInv /\ LinkInv /\ KindInv)
<1>1. Init => BufferInv
  BY DEF Init, BufferInv, NoBuffer
<1>2. Init => LinkInv /\ KindInv
  BY DEF Init, LinkInv, LinkedSoFar, KindInv, NoModule
<1> QED
  BY <1>1, <1>2, InitTypes, TypeKeeps, BufferKeeps, LinkKeeps, KindKeeps, Invariance, PTL
  DEF Spec

\* Every reference of a module is a relocation of one of its sections.
LEMMA RelocationFacts ==
    ASSUME NEW x \in Relocations
    PROVE  \E t \in DOMAIN img.sections :
               /\ RelocatesSection(img, img.sections[t])
               /\ x.sec = img.sections[t].info
               /\ \E k \in DOMAIN img.sections[t].rels : x.rel = img.sections[t].rels[k]
BY DEF Relocations

\* ... and has its patch.
LEMMA ReferencePatched ==
    ASSUME img \in RelImage, NEW imports, Linked(Shnum(img), imports),
           NEW x \in Relocations, x.rel.type # "none"
    PROVE  /\ [sec |-> x.sec, offset |-> x.rel.offset,
                value |-> RelocValue(img, x.rel, Base, secAddr, imports)] \in patched
           /\ RelocStatus(img, x.rel) = NO_ERROR
<1>1. PICK t \in DOMAIN img.sections :
          /\ RelocatesSection(img, img.sections[t])
          /\ x.sec = img.sections[t].info
          /\ \E k \in DOMAIN img.sections[t].rels : x.rel = img.sections[t].rels[k]
  BY RelocationFacts
<1>2. t < Shnum(img)
  BY SectionTypes DEF Shnum
<1>3. /\ Patches(img, img.sections[t], secAddr, imports) \subseteq patched
      /\ BadRelocs(img, img.sections[t]) = {}
  BY <1>1, <1>2 DEF Linked
<1>4. [sec |-> x.sec, offset |-> x.rel.offset,
       value |-> RelocValue(img, x.rel, Base, secAddr, imports)]
        \in Patches(img, img.sections[t], secAddr, imports)
  BY <1>1 DEF Patches
<1>5. RelocStatus(img, x.rel) = NO_ERROR
  BY <1>1, <1>3 DEF BadRelocs
<1> QED
  BY <1>3, <1>4, <1>5

\* LinkedImage is a case of LinkedSoFar.
LEMMA ImageLinked ==
    ASSUME IInv, LinkInv, KindInv, LinkedImage
    PROVE  img \in RelImage /\ \E imports \in Imports : Linked(Shnum(img), imports)
BY ImageTypes DEF IInv, CallInv, LinkInv, KindInv, LinkedSoFar, LinkedImage, LoadPcs

\* The references of a module to one import go to the same address, whatever
\* other threads do to the export table meanwhile: what it resolved to is
\* looked up once (lines 463-477) and kept until the last relocation.
THEOREM ImportSafety == Spec => []ImportsConsistent
<1>1. IInv /\ LinkInv /\ KindInv => ImportsConsistent
  <2> SUFFICES ASSUME IInv, LinkInv, KindInv, LinkedImage,
                      NEW x \in Relocations, NEW y \in Relocations,
                      x.rel.type = "symbol", y.rel.type = "symbol",
                      x.rel.sym = y.rel.sym
               PROVE  \E p, q \in patched :
                         /\ p.sec = x.sec /\ p.offset = x.rel.offset
                         /\ q.sec = y.sec /\ q.offset = y.rel.offset
                         /\ p.value = q.value
    BY DEF ImportsConsistent
  <2>1. PICK imports \in Imports : img \in RelImage /\ Linked(Shnum(img), imports)
    BY ImageLinked
  <2> DEFINE at(z) == [sec |-> z.sec, offset |-> z.rel.offset,
                       value |-> RelocValue(img, z.rel, Base, secAddr, imports)]
  <2>2. at(x) \in patched /\ at(y) \in patched
    BY <2>1, ReferencePatched
  <2>3. at(x).value = at(y).value
    BY DEF RelocValue, RelocSymbol
  <2>4. /\ at(x).sec = x.sec /\ at(x).offset = x.rel.offset
        /\ at(y).sec = y.sec /\ at(y).offset = y.rel.offset
    OBVIOUS
  <2> QED
    BY <2>2, <2>3, <2>4
<1> QED
  BY <1>1, LinkInvariance, PTL

------------------------------------------------------------------------------
\* The symbol a reference names is in the table.
LEMMA ReferencedSymbol ==
    ASSUME img \in RelImage, NEW x \in Relocations, x.rel.type = "symbol",
           RelocStatus(img, x.rel) = NO_ERROR
    PROVE  /\ x.rel.sym \in DOMAIN img.symbols
           /\ SymbolOf(x).shndx \in Nat /\ SymbolOf(x).value \in Nat
<1>1. x.rel.sym \in DOMAIN img.symbols
  BY DEF RelocStatus, NO_ERROR, NOT_VALID
<1> QED
  BY <1>1, SymbolTypes DEF SymbolOf

\* Bit 0 of an address is what RelocValue may add to the symbol's.
LEMMA PatchValue ==
    ASSUME NEW x, x.rel.type = "symbol", NEW imports,
           RelocSymbol(img, x.rel, Base, secAddr, imports) \in Nat
    PROVE  ClearBit0(RelocValue(img, x.rel, Base, secAddr, imports))
             = ClearBit0(RelocSymbol(img, x.rel, Base, secAddr, imports))
<1> DEFINE v == RelocSymbol(img, x.rel, Base, secAddr, imports)
<1>1. ClearBit0(SetBit0(v)) = ClearBit0(v)
  BY DEF SetBit0, ClearBit0
<1>2. RelocValue(img, x.rel, Base, secAddr, imports) \in {v, SetBit0(v)}
  BY DEF RelocValue
<1> QED
  BY <1>1, <1>2

LEMMA EvenMultiple ==
    ASSUME NEW a \in Nat, NEW m \in Nat \ {0}, a % m = 0, m % 2 = 0
    PROVE  a % 2 = 0
<1>1. a = m * (a \div m) /\ a \div m \in Nat
  BY SMT
<1>2. m = 2 * (m \div 2) /\ m \div 2 \in Nat
  BY SMT
<1> DEFINE q == a \div m
           h == m \div 2
<1> HIDE DEF q, h
<1>3. a = 2 * (h * q) /\ h * q \in Nat
  BY <1>1, <1>2 DEF q, h
<1>4. \A n \in Nat : (2 * n) % 2 = 0
  BY SMT
<1> QED
  BY <1>3, <1>4

\* What LocalSymbolsLinked asks of images: references name ordinary symbols, of
\* sections with an ordinary number, and an odd value is one in a section that
\* is placed at an even address (modloader_sym_value clears bit 0 of the value,
\* not of the sum).
OrdinaryReference(m, sym) ==
    sym.shndx \in DOMAIN m.sections =>
        /\ sym.type # "section"
        /\ sym.shndx < SHN_LORESERVE
        /\ sym.value % 2 = 1 =>
               /\ m.sections[sym.shndx].alloc
               /\ m.sections[sym.shndx].align > 1
               /\ m.sections[sym.shndx].align % 2 = 0

OrdinaryReferences(m) ==
    \A t \in DOMAIN m.sections : \A k \in DOMAIN m.sections[t].rels :
        m.sections[t].rels[k].type = "symbol"
            => OrdinaryReference(m, m.symbols[m.sections[t].rels[k].sym])

\* Such a symbol's value is its place.
LEMMA LocalSymbol ==
    ASSUME IInv, LinkedImage, img \in RelImage, NEW k \in DOMAIN img.symbols,
           OrdinaryReference(img, img.symbols[k]), DefinedHere(img.symbols[k])
    PROVE  SymValue(img, img.symbols[k], Base, secAddr)
             = Base + secAddr[img.symbols[k].shndx] + img.symbols[k].value
<1> DEFINE sym == img.symbols[k]
           t == sym.shndx
           b == Base + secAddr[t]
<1>1. sym.shndx \in Nat /\ sym.value \in Nat
  BY SymbolTypes
<1>2. t \in 1 .. Len(img.sections) /\ Len(img.sections) \in Nat
  BY SectionTypes DEF DefinedHere
<1>3. img.kind = "rel" /\ (pc \in LoadPcs \/ mod.loaded) /\ pc # "layout"
  BY DEF LinkedImage, LoadPcs, IInv, CallInv, RelImage
<1>4. secAddr \in [0 .. Len(img.sections) -> Nat]
  BY <1>3 DEF IInv, LayoutInv
<1>5. secAddr[t] \in Nat /\ b \in Nat
  BY <1>2, <1>4, LoaderAssumption
<1>6. sym.value % 2 = 1 => b % 2 = 0
  <2> SUFFICES ASSUME sym.value % 2 = 1 PROVE b % 2 = 0
    OBVIOUS
  <2>1. t \in AllocSections(img) /\ img.sections[t].align > 1
        /\ img.sections[t].align % 2 = 0
    BY DEF OrdinaryReference, AllocSections, DefinedHere
  <2>2. t < Placed
    BY <1>2, <1>3 DEF Placed, Shnum
  <2>3. b % img.sections[t].align = 0
    BY <1>3, <2>1, <2>2 DEF IInv, LayoutInv
  <2>4. img.sections[t].align \in Nat \ {0}
    BY <1>2, <2>1, SectionTypes
  <2> HIDE DEF b, t, sym
  <2> QED
    BY <1>5, <2>1, <2>3, <2>4, EvenMultiple
<1>7. SymValue(img, sym, Base, secAddr) = DefinedAddr(sym, Base, secAddr)
  <2>1. sym.shndx # SHN_UNDEF /\ sym.shndx < SHN_LORESERVE /\ sym.type # "section"
    BY <1>2 DEF SHN_UNDEF, OrdinaryReference, DefinedHere
  <2>2. sym.shndx # SHN_ABS /\ ~(sym.shndx >= SHN_LORESERVE)
    BY <1>1, <2>1 DEF SHN_LORESERVE, SHN_ABS
  <2>3. ~(sym.shndx >= Shnum(img))
    BY <1>2 DEF Shnum
  <2> HIDE DEF sym
  <2> QED
    BY <2>1, <2>2, <2>3 DEF SymValue
<1>8. DefinedAddr(sym, Base, secAddr) = b + sym.value
  <2>1. DefinedAddr(sym, Base, secAddr) =
           LET a == b + ClearBit0(sym.value)
           IN  IF sym.value % 2 = 1 THEN SetBit0(a) ELSE a
    BY DEF DefinedAddr
  <2> DEFINE n == sym.value
  <2>2. n \in Nat /\ (n % 2 = 1 => b % 2 = 0)
    BY <1>1, <1>6
  <2> HIDE DEF b, sym, n
  <2>3. CASE n % 2 = 0
    BY <1>5, <2>1, <2>2, <2>3 DEF ClearBit0, n
  <2>4. CASE n % 2 = 1
    <3>1. (b + (n - 1)) % 2 = 0
      BY <1>5, <2>2, <2>4
    <3> QED
      BY <1>5, <2>1, <2>2, <2>4, <3>1 DEF ClearBit0, SetBit0, n
  <2> QED
    BY <2>2, <2>3, <2>4
<1> QED
  BY <1>7, <1>8

\* A reference to it is given that place.
LEMMA LocalValue ==
    ASSUME IInv, LinkedImage, img \in RelImage, NEW x \in Relocations, NEW imports,
           x.rel.type = "symbol", RelocStatus(img, x.rel) = NO_ERROR,
           OrdinaryReference(img, SymbolOf(x)), DefinedHere(SymbolOf(x))
    PROVE  RelocSymbol(img, x.rel, Base, secAddr, imports)
             = Base + secAddr[SymbolOf(x).shndx] + SymbolOf(x).value
<1>1. x.rel.sym \in DOMAIN img.symbols /\ SymbolOf(x) = img.symbols[x.rel.sym]
  BY ReferencedSymbol DEF SymbolOf
<1>2. SymbolOf(x).shndx # SHN_UNDEF
  BY SectionTypes DEF DefinedHere, SHN_UNDEF
<1>3. SymValue(img, SymbolOf(x), Base, secAddr)
        = Base + secAddr[SymbolOf(x).shndx] + SymbolOf(x).value
  BY <1>1, LocalSymbol
<1> QED
  BY <1>1, <1>2, <1>3 DEF RelocSymbol

\* When an image refers to ordinary symbols, every reference to what the module
\* defines is patched with its place (modloader_sym_value, lines 61-88, and the
\* loop of lines 479-586).
THEOREM LocalLinkSafety == Spec => [](OrdinaryReferences(img) => LocalSymbolsLinked)
<1>1. IInv /\ LinkInv /\ KindInv => (OrdinaryReferences(img) => LocalSymbolsLinked)
  <2> SUFFICES ASSUME IInv, LinkInv, KindInv, OrdinaryReferences(img), LinkedImage,
                      NEW x \in Relocations, x.rel.type = "symbol",
                      DefinedHere(SymbolOf(x))
               PROVE  PatchedWith(x, Base + secAddr[SymbolOf(x).shndx] + SymbolOf(x).value)
    BY DEF LocalSymbolsLinked
  <2>1. PICK imports \in Imports : img \in RelImage /\ Linked(Shnum(img), imports)
    BY ImageLinked
  <2> DEFINE v == Base + secAddr[SymbolOf(x).shndx] + SymbolOf(x).value
             p == [sec |-> x.sec, offset |-> x.rel.offset,
                   value |-> RelocValue(img, x.rel, Base, secAddr, imports)]
  <2>2. p \in patched /\ RelocStatus(img, x.rel) = NO_ERROR
    BY <2>1, ReferencePatched
  <2>3. OrdinaryReference(img, SymbolOf(x))
    <3>1. PICK t \in DOMAIN img.sections :
              \E k \in DOMAIN img.sections[t].rels : x.rel = img.sections[t].rels[k]
      BY RelocationFacts
    <3> QED
      BY <3>1 DEF OrdinaryReferences, SymbolOf
  <2>4. RelocSymbol(img, x.rel, Base, secAddr, imports) = v
    BY <2>1, <2>2, <2>3, LocalValue
  <2>5. v \in Nat
    <3>1. SymbolOf(x).value \in Nat /\ SymbolOf(x).shndx \in 0 .. Len(img.sections)
      BY <2>1, <2>2, ReferencedSymbol, SectionTypes DEF DefinedHere
    <3>2. secAddr \in [0 .. Len(img.sections) -> Nat]
      BY <2>1 DEF LinkedImage, LoadPcs, IInv, LayoutInv, RelImage
    <3> QED
      BY <3>1, <3>2, LoaderAssumption
  <2>6. ClearBit0(p.value) = ClearBit0(v)
    BY <2>4, <2>5, PatchValue
  <2>7. p.sec = x.sec /\ p.offset = x.rel.offset
    OBVIOUS
  <2> HIDE DEF p, v
  <2> QED
    BY <2>2, <2>6, <2>7 DEF PatchedWith, v
<1> QED
  BY <1>1, LinkInvariance, PTL

------------------------------------------------------------------------------
\* A slot of the export table never holds a null address.
FullInv == dyn \in Tables(ExportNames, Nat \ {NULL}) /\ Distinct(dyn)

LEMMA FullKeeps == FullInv /\ [Next]_vars => FullInv'
<1> SUFFICES ASSUME FullInv, [Next]_vars PROVE FullInv'
  OBVIOUS
<1>1. CASE ExportChange
  <2>1. PICK c \in ExportCalls :
            dyn' \in {RegisterExport(dyn, c[1], c[2]), UnregisterExport(dyn, c[1])}
    BY <1>1 DEF ExportChange
  <2>2. c[1] \in ExportNames /\ c[2] \in Nat
    BY LoaderAssumption DEF ExportNames
  <2>3. CASE dyn' = RegisterExport(dyn, c[1], c[2])
    <3>1. CASE RegisterStatus(dyn, c[1], c[2]) = NO_ERROR
      <4>1. c[2] \in Nat \ {NULL}
        BY <2>2, <3>1 DEF RegisterStatus, NO_ERROR, INVALID_ARGS
      <4> QED
        BY <2>2, <2>3, <4>1, RegisterFacts DEF FullInv
    <3>2. CASE RegisterStatus(dyn, c[1], c[2]) # NO_ERROR
      BY <2>3, <3>2 DEF RegisterExport, FullInv
    <3> QED
      BY <3>1, <3>2
  <2>4. CASE dyn' = UnregisterExport(dyn, c[1])
    BY <2>4, UnregisterFacts DEF FullInv
  <2> QED
    BY <2>1, <2>3, <2>4
<1>2. CASE ~ExportChange
  <2>1. dyn' = dyn
    BY <1>2 DEF Next, Call, RefuseExec, LoadExec, RefuseRel, LoadRel, Unload, Run,
       Return, Reject, vars, locals, LoadStep, SyncBlob, LayoutSection, RefuseMap,
       MapRel, CopySections, AllocResolved, CallocFails, ProbeImport, BindImport,
       StoreImport, EndResolve, RelocSection, EndReloc, ProtectPage, ProtectFails,
       CommitExec, CommitRel, Commit, EndProtect, IndexSymbol, IndexFull, FailPlain,
       FailFreeing, FailLeaking, FailLoad
  <2> QED
    BY <2>1 DEF FullInv
<1> QED
  BY <1>1, <1>2

\* Whether a name is found does not depend on what it is looked up as, nor does
\* its address but for the Thumb bit.
LEMMA LookupBit0 ==
    ASSUME FullInv, NEW name, NEW f \in BOOLEAN
    PROVE  /\ LookupExport(dyn, name, f) \in Nat
           /\ ClearBit0(LookupExport(dyn, name, f)) = ClearBit0(LookupExport(dyn, name, FALSE))
           /\ LookupExport(dyn, name, f) = NULL <=> LookupExport(dyn, name, FALSE) = NULL
<1>1. \A a \in Nat \ {NULL} :
          /\ ExportVaddr(a, f) \in Nat \ {NULL} /\ ExportVaddr(a, FALSE) = a
          /\ ClearBit0(ExportVaddr(a, f)) = ClearBit0(a)
  BY DEF ExportVaddr, SetBit0, ClearBit0, NULL
<1>2. CASE name \in DOMAIN Builtins
  <2> DEFINE b == Builtins[name]
  <2>1. b \in Nat \ {NULL}
    BY <1>2, ExportAssumption
  <2>2. \A g \in BOOLEAN : LookupExport(dyn, name, g) = ExportVaddr(b, g)
    BY <1>2 DEF LookupExport
  <2> HIDE DEF b
  <2> QED
    BY <1>1, <2>1, <2>2
<1>3. CASE name \notin DOMAIN Builtins /\ SlotsOf(dyn, name) # {}
  <2> DEFINE k == Min(SlotsOf(dyn, name))
  <2>1. k \in Slots /\ dyn[k].used
    BY <1>3, SlotSets, MinFacts DEF SlotsOf
  <2>2. dyn[k] \in Filled(ExportNames, Nat \ {NULL})
    BY <2>1 DEF FullInv, Tables, FreeSlot
  <2>3. dyn[k].addr \in Nat \ {NULL}
    BY <2>2 DEF Filled
  <2>4. \A g \in BOOLEAN : LookupExport(dyn, name, g) = ExportVaddr(dyn[k].addr, g)
    BY <1>3 DEF LookupExport
  <2> HIDE DEF k
  <2> QED
    BY <1>1, <2>3, <2>4
<1>4. CASE name \notin DOMAIN Builtins /\ SlotsOf(dyn, name) = {}
  BY <1>4 DEF LookupExport, NULL
<1> QED
  BY <1>2, <1>3, <1>4

------------------------------------------------------------------------------
\* The imports below n resolved to what the table says of their names.
ResolvesTo(sym, a) ==
    /\ \E f \in BOOLEAN : a = LookupExport(dyn, sym.name, f)
    /\ a # NULL \/ sym.bind = "weak"

Resolved(n, imports) ==
    \A k \in DOMAIN img.symbols :
        k < n /\ IsImport(img.symbols[k]) => ResolvesTo(img.symbols[k], imports[k])

AllResolved(imports) == Resolved(Len(img.symbols) + 1, imports)

ResolveInv ==
    /\ pc \in {"resolve", "bind"} => Resolved(i, resolved)
    /\ pc = "reloc" => AllResolved(resolved)
    /\ pc \in {"wx", "index"} /\ img.kind = "rel" =>
           \E imports \in Imports : Linked(Shnum(img), imports) /\ AllResolved(imports)

LEMMA SymbolCount ==
    ASSUME NEW m \in RelImage
    PROVE  Len(m.symbols) \in Nat /\ DOMAIN m.symbols = 1 .. Len(m.symbols)
<1>1. m.symbols \in Seq(Symbol)
  BY DEF RelImage
<1> QED
  BY <1>1

\* The import at i is resolved, and those below it stay.
LEMMA StoreKeeps ==
    ASSUME IInv, TypeInv, ResolveInv, pc = "bind", Bindable, StoreImport
    PROVE  Resolved(i, resolved)'
<1>1. /\ Resolved(i, resolved) /\ i' = i + 1 /\ UNCHANGED <<img, dyn>>
      /\ resolved' = [resolved EXCEPT ![i] = ImportAddr]
  BY DEF ResolveInv, StoreImport
<1>2. /\ resolved \in [DOMAIN img.symbols -> Nat] /\ isFunc \in BOOLEAN /\ i \in Nat
  BY DEF TypeInv, IInv, CallInv
<1>3. DOMAIN img.symbols \subseteq Nat
  BY ImageTypes, SymbolCount DEF IInv, CallInv, LoadPcs
<1>4. ASSUME NEW k \in DOMAIN img.symbols, k < i + 1, IsImport(img.symbols[k])
      PROVE  ResolvesTo(img.symbols[k], resolved'[k])
  <2>1. CASE k = i
    BY <1>1, <1>2, <1>4, <2>1 DEF ResolvesTo, ImportAddr, Bindable
  <2>2. CASE k # i
    <3>1. k < i /\ resolved'[k] = resolved[k]
      BY <1>1, <1>2, <1>3, <1>4, <2>2
    <3> QED
      BY <1>1, <1>4, <3>1 DEF Resolved
  <2> QED
    BY <2>1, <2>2
<1>5. \A sym, a : ResolvesTo(sym, a)' <=> ResolvesTo(sym, a)
  BY <1>1 DEF ResolvesTo
<1> QED
  BY <1>1, <1>4, <1>5 DEF Resolved

LEMMA ResolveKeeps ==
    ASSUME ~Concurrent
    PROVE  IInv /\ BufferInv /\ TypeInv /\ LinkInv /\ ResolveInv /\ [Next]_vars
              => ResolveInv'
<1> SUFFICES ASSUME IInv, BufferInv, TypeInv, LinkInv, ResolveInv, [Next]_vars
             PROVE  ResolveInv'
  OBVIOUS
<1>1. pc' \notin {"resolve", "bind", "reloc", "wx", "index"} => ResolveInv'
  BY DEF ResolveInv
<1>2. pc \in LoadPcs \ {"sync", "wx"} => img.kind = "rel"
  BY DEF IInv, CallInv
<1>3. ASSUME UNCHANGED <<img, dyn>>, NEW n, NEW v, Resolved(n, v) PROVE Resolved(n, v)'
  BY <1>3 DEF Resolved, ResolvesTo
<1>4. ASSUME UNCHANGED <<img, dyn, secAddr, patched>>, pc \in {"wx", "index"},
             pc' \in {"wx", "index"}
      PROVE  ResolveInv'
  <2>1. ASSUME NEW v, Linked(Shnum(img), v), AllResolved(v)
        PROVE  Linked(Shnum(img), v)' /\ AllResolved(v)'
    BY <1>3, <1>4, <2>1, LinkedKeeps DEF AllResolved
  <2>2. Imports' = Imports
    BY <1>4 DEF Imports
  <2> QED
    BY <1>4, <2>1, <2>2 DEF ResolveInv
<1>5. ASSUME NEW m \in Images, RefuseExec(m) \/ LoadExec(m) \/ RefuseRel(m) \/ LoadRel(m)
      PROVE  ResolveInv'
  <2>1. CASE LoadExec(m)
    BY <2>1 DEF LoadExec, ResolveInv
  <2>2. CASE RefuseExec(m) \/ RefuseRel(m) \/ LoadRel(m)
    <3>1. pc' \in {"idle", "layout"}
      BY <2>2 DEF RefuseExec, RefuseRel, LoadRel, Reject, locals
    <3> QED
      BY <1>1, <3>1
  <2> QED
    BY <1>5, <2>1, <2>2
<1>6. CASE SyncBlob \/ LayoutSection \/ RefuseMap \/ MapRel \/ CopySections
  <2>1. CASE SyncBlob
    <3>1. img.kind = "exec" /\ img' = img /\ pc' = "wx"
      BY <2>1 DEF SyncBlob, IInv, CallInv
    <3> QED
      BY <3>1 DEF ResolveInv
  <2>2. CASE ~SyncBlob
    <3>1. pc' \in {"idle", "layout", "copy", "calloc"}
      BY <1>6, <2>2
      DEF LayoutSection, RefuseMap, MapRel, CopySections, FailPlain, FailLoad, Forget
    <3> QED
      BY <1>1, <3>1
  <2> QED
    BY <2>1, <2>2
<1>7. CASE AllocResolved
  <2>1. img \in RelImage
    BY <1>2, <1>7, ImageTypes DEF AllocResolved, IInv, CallInv, LoadPcs
  <2>2. DOMAIN img.symbols = 1 .. Len(img.symbols)
    BY <2>1, SymbolCount
  <2>3. CASE img.symbols = << >>
    <3>1. pc' = "reloc" /\ img' = img
      BY <1>7, <2>3 DEF AllocResolved
    <3>2. DOMAIN img.symbols = {}
      BY <2>3
    <3> QED
      BY <3>1, <3>2 DEF ResolveInv, AllResolved, Resolved
  <2>4. CASE img.symbols # << >>
    <3>1. pc' = "resolve" /\ img' = img /\ i' = 1
      BY <1>7, <2>4 DEF AllocResolved
    <3>2. \A k \in DOMAIN img.symbols : ~(k < 1)
      BY <2>2
    <3> QED
      BY <3>1, <3>2 DEF ResolveInv, Resolved
  <2> QED
    BY <2>3, <2>4
<1>8. CASE CallocFails \/ ProtectFails \/ IndexFull
  <2>1. pc' = "idle"
    BY <1>8 DEF CallocFails, ProtectFails, IndexFull, FailPlain, FailLoad, Forget
  <2> QED
    BY <1>1, <2>1
<1>9. CASE ProbeImport
  <2>1. /\ pc = "resolve" /\ pc' \in {"resolve", "bind"} /\ i \in DOMAIN img.symbols
        /\ UNCHANGED <<img, dyn, resolved>>
        /\ IF IsImport(img.symbols[i]) THEN i' = i ELSE i' = i + 1
    BY <1>9 DEF ProbeImport
  <2>2. Resolved(i, resolved) /\ i \in Nat /\ DOMAIN img.symbols \subseteq Nat
    BY <1>2, <2>1, ImageTypes, SymbolCount DEF ResolveInv, IInv, CallInv, LoadPcs
  <2>3. Resolved(i', resolved)
    <3>1. CASE IsImport(img.symbols[i])
      BY <2>1, <2>2, <3>1
    <3>2. CASE ~IsImport(img.symbols[i])
      <4>1. \A k \in DOMAIN img.symbols : k < i + 1 /\ k # i => k < i
        BY <2>2
      <4> QED
        BY <2>1, <2>2, <3>2, <4>1 DEF Resolved
    <3> QED
      BY <3>1, <3>2
  <2>4. Resolved(i, resolved)'
    BY <2>1, <2>3 DEF Resolved, ResolvesTo
  <2> QED
    BY <2>1, <2>4 DEF ResolveInv
<1>10. CASE BindImport
  <2>1. CASE FailFreeing(NOT_FOUND)
    BY <1>1, <2>1 DEF FailFreeing, FailLoad, Forget
  <2>2. CASE Bindable /\ StoreImport
    <3>1. Resolved(i, resolved)'
      BY <1>10, <2>2, StoreKeeps DEF BindImport
    <3>2. pc' = "resolve"
      BY <2>2 DEF StoreImport
    <3> QED
      BY <3>1, <3>2 DEF ResolveInv
  <2> QED
    BY <1>10, <2>1, <2>2 DEF BindImport
<1>11. CASE EndResolve
  <2>1. /\ pc = "resolve" /\ pc' = "reloc" /\ i = Len(img.symbols) + 1
        /\ UNCHANGED <<img, dyn, resolved>>
    BY <1>11 DEF EndResolve
  <2>2. AllResolved(resolved)'
    BY <2>1 DEF ResolveInv, AllResolved, Resolved, ResolvesTo
  <2> QED
    BY <2>1, <2>2 DEF ResolveInv
<1>12. CASE RelocSection
  <2>1. CASE pc' = "idle"
    BY <1>1, <2>1
  <2>2. CASE pc' # "idle"
    <3>1. pc = "reloc" /\ pc' = "reloc" /\ UNCHANGED <<img, dyn, resolved>>
      BY <1>12, <2>2 DEF RelocSection, FailLeaking, FailFreeing, FailLoad, Forget
    <3>2. AllResolved(resolved)'
      BY <3>1 DEF ResolveInv, AllResolved, Resolved, ResolvesTo
    <3> QED
      BY <3>1, <3>2 DEF ResolveInv
  <2> QED
    BY <2>1, <2>2
<1>13. CASE EndReloc
  <2>1. CASE FailFreeing(NOT_FOUND)
    BY <1>1, <2>1 DEF FailFreeing, FailLoad, Forget
  <2>2. CASE pc' = "wx" /\ UNCHANGED <<img, dyn, secAddr, patched>>
    <3>1. pc = "reloc" /\ i = Shnum(img)
      BY <1>13 DEF EndReloc
    <3>2. resolved \in Imports /\ Linked(Shnum(img), resolved) /\ AllResolved(resolved)
      BY <3>1 DEF LinkInv, ResolveInv, TypeInv, Imports
    <3>3. Imports' = Imports
      BY <2>2 DEF Imports
    <3>4. \A v : Linked(Shnum(img), v) => Linked(Shnum(img), v)'
      BY <2>2, LinkedKeeps
    <3>5. \A v : AllResolved(v) => AllResolved(v)'
      BY <2>2 DEF AllResolved, Resolved, ResolvesTo
    <3> QED
      BY <2>2, <3>2, <3>3, <3>4, <3>5 DEF ResolveInv
  <2> QED
    BY <1>13, <2>1, <2>2 DEF EndReloc
<1>14. CASE ProtectPage \/ EndProtect \/ IndexSymbol
  <2>1. pc \in {"wx", "index"} /\ pc' \in {"wx", "index"}
        /\ UNCHANGED <<img, dyn, secAddr, patched>>
    BY <1>14 DEF ProtectPage, EndProtect, IndexSymbol
  <2> QED
    BY <1>4, <2>1
<1>15. CASE CommitExec \/ CommitRel \/ Unload \/ Run \/ Return
  <2>1. pc' \in {"idle", "running"}
    BY <1>15 DEF CommitExec, CommitRel, Commit, Unload, Run, Return, Reject, Forget, locals
  <2> QED
    BY <1>1, <2>1
<1>16. CASE ExportChange
  <2>1. pc = "idle" /\ pc' = "idle"
    BY <1>16 DEF ExportChange, locals
  <2> QED
    BY <1>1, <2>1
<1>17. CASE UNCHANGED vars
  BY <1>17 DEF vars, locals, ResolveInv, AllResolved, Resolved, ResolvesTo, Imports, Linked
<1> QED
  BY <1>5, <1>6, <1>7, <1>8, <1>9, <1>10, <1>11, <1>12, <1>13, <1>14, <1>15, <1>16, <1>17
  DEF Next, Call, LoadStep

\* While nobody changes the table, every import of a module is patched with
\* what the table says of it, and only a weak one with null
\* (modloader_resolve_externals).
THEOREM ImportLinkSafety ==
    ASSUME ~Concurrent
    PROVE  Spec => []ImportsLinked
<1>1. IInv /\ FullInv /\ ResolveInv => ImportsLinked
  <2> SUFFICES ASSUME IInv, FullInv, ResolveInv, pc \in {"wx", "index"}, img.kind = "rel",
                      NEW x \in Relocations, x.rel.type = "symbol",
                      SymbolOf(x).shndx = SHN_UNDEF,
                      SymbolOf(x).bind \in {"global", "weak"}, SymbolOf(x).name # NoName
               PROVE  LET addr == LookupExport(dyn, SymbolOf(x).name, FALSE)
                      IN  /\ PatchedWith(x, addr)
                          /\ addr = NULL => SymbolOf(x).bind = "weak"
    BY DEF ImportsLinked
  <2>1. PICK imports \in Imports : Linked(Shnum(img), imports) /\ AllResolved(imports)
    BY DEF ResolveInv
  <2>2. img \in RelImage
    BY ImageTypes DEF IInv, CallInv, LoadPcs
  <2> DEFINE sym == SymbolOf(x)
             addr == LookupExport(dyn, sym.name, FALSE)
             v == RelocSymbol(img, x.rel, Base, secAddr, imports)
             p == [sec |-> x.sec, offset |-> x.rel.offset,
                   value |-> RelocValue(img, x.rel, Base, secAddr, imports)]
  <2>3. p \in patched /\ RelocStatus(img, x.rel) = NO_ERROR
    BY <2>1, <2>2, ReferencePatched
  <2>4. x.rel.sym \in DOMAIN img.symbols /\ sym = img.symbols[x.rel.sym]
    BY <2>2, <2>3, ReferencedSymbol DEF SymbolOf
  <2>5. ResolvesTo(sym, imports[x.rel.sym])
    <3>1. IsImport(sym)
      BY DEF IsImport, IsGlobal
    <3>2. x.rel.sym < Len(img.symbols) + 1
      BY <2>2, <2>4, SymbolCount
    <3> QED
      BY <2>1, <2>4, <3>1, <3>2 DEF AllResolved, Resolved
  <2>6. PICK f \in BOOLEAN : imports[x.rel.sym] = LookupExport(dyn, sym.name, f)
    BY <2>5 DEF ResolvesTo
  <2>7. v = imports[x.rel.sym]
    BY <2>4 DEF RelocSymbol, SymValue, SHN_UNDEF
  <2>8. /\ v \in Nat /\ ClearBit0(v) = ClearBit0(addr)
        /\ v = NULL <=> addr = NULL
    BY <2>6, <2>7, LookupBit0
  <2>9. addr = NULL => sym.bind = "weak"
    BY <2>5, <2>7, <2>8 DEF ResolvesTo
  <2>10. ClearBit0(p.value) = ClearBit0(addr)
    BY <2>8, PatchValue
  <2>11. p.sec = x.sec /\ p.offset = x.rel.offset
    OBVIOUS
  <2> HIDE DEF p, v
  <2> QED
    BY <2>3, <2>9, <2>10, <2>11 DEF PatchedWith
<1>2. Init => BufferInv
  BY DEF Init, BufferInv, NoBuffer
<1>3. Init => LinkInv /\ ResolveInv
  BY DEF Init, LinkInv, LinkedSoFar, ResolveInv, NoModule
<1>4. Init => FullInv
  BY NoExportsFacts DEF Init, FullInv
<1> QED
  BY <1>1, <1>2, <1>3, <1>4, InitTypes, TypeKeeps, BufferKeeps, LinkKeeps, FullKeeps,
     ResolveKeeps, Invariance, PTL
  DEF Spec

------------------------------------------------------------------------------
(***************************************************************************)
(* The loader implements the slot of ModSlot: what a caller sees of a load *)
(* that takes many steps, any of which may fail, is one step or nothing.   *)
(***************************************************************************)
\* What the promise asks of the images: their exports are ordinary symbols of
\* allocated sections, or absolute, and the index keeps their whole names.
OrdinaryExport(m, sym) ==
    /\ OrdinaryReference(m, sym)
    /\ sym.shndx \in DOMAIN m.sections => sym.shndx \in AllocSections(m)
    /\ Stored[sym.name] = sym.name

OrdinaryExports ==
    \A m \in Images : m.kind = "rel" =>
        \A k \in DOMAIN m.symbols :
            IsExport(m.symbols[k]) => OrdinaryExport(m, m.symbols[k])

------------------------------------------------------------------------------
\* The index built from the symbols below n has an entry for a name exactly when
\* one of them is kept under it, and the first entry is the first symbol's.
KeptBelow(n, name) ==
    {k \in DOMAIN img.symbols :
        k < n /\ KeepsSymbol(img.symbols[k]) /\ Stored[img.symbols[k].name] = name}

FirstKept(n, name) ==
    \E k \in KeptBelow(n, name), e \in EntriesOf(name) :
        /\ \A j \in KeptBelow(n, name) : k <= j
        /\ \A d \in EntriesOf(name) : e <= d
        /\ index[e].addr = IndexEntry(img.symbols[k]).addr

Indexed(n) ==
    \A name : \/ KeptBelow(n, name) = {} /\ EntriesOf(name) = {}
              \/ FirstKept(n, name)

IndexInv ==
    /\ pc = "index" => Indexed(i)
    /\ mod.loaded /\ mod.kind = "rel" => Indexed(Len(img.symbols) + 1)

LEMMA IndexedKeeps ==
    ASSUME UNCHANGED <<img, secAddr, index>>, NEW n, Indexed(n)
    PROVE  Indexed(n)'
<1>1. \A name : KeptBelow(n, name)' = KeptBelow(n, name)
  BY DEF KeptBelow, KeepsSymbol, IndexEntry
<1>2. \A name : EntriesOf(name)' = EntriesOf(name)
  BY DEF EntriesOf
<1>3. \A k : IndexEntry(img.symbols[k])' = IndexEntry(img.symbols[k])
  BY DEF IndexEntry
<1>4. \A name : FirstKept(n, name)' <=> FirstKept(n, name)
  BY <1>1, <1>2, <1>3 DEF FirstKept
<1> QED
  BY <1>1, <1>2, <1>4 DEF Indexed

\* One more symbol: kept, it comes last in the index.
LEMMA IndexMore ==
    ASSUME IInv, TypeInv, IndexSymbol, Indexed(i)
    PROVE  Indexed(i)'
<1> DEFINE sym == img.symbols[i]
           entryOf == IndexEntry(sym)
           last == Len(index) + 1
           hit(name) == KeepsSymbol(sym) /\ Stored[sym.name] = name
<1>1. /\ pc = "index" /\ i \in DOMAIN img.symbols /\ img \in RelImage
      /\ UNCHANGED <<img, secAddr>> /\ i' = i + 1
  BY ImageTypes DEF IndexSymbol, IInv, CallInv, LoadPcs
<1>2. DOMAIN img.symbols \subseteq Nat
  BY <1>1, SymbolCount
<1>3. index \in Seq(IndexEntries) /\ Len(index) \in Nat /\ DOMAIN index = 1 .. Len(index)
  BY DEF TypeInv
<1>4. /\ ~KeepsSymbol(sym) => index' = index
      /\ KeepsSymbol(sym) => index' = Append(index, entryOf)
  BY DEF IndexSymbol
<1>5. /\ \A e \in DOMAIN index : index'[e] = index[e]
      /\ KeepsSymbol(sym) => DOMAIN index' = DOMAIN index \cup {last} /\ index'[last] = entryOf
  <2>1. CASE ~KeepsSymbol(sym)
    BY <1>4, <2>1
  <2>2. CASE KeepsSymbol(sym)
    <3> DEFINE S == IndexEntries \cup {entryOf}
    <3>1. index \in Seq(S) /\ entryOf \in S
      BY <1>3
    <3> HIDE DEF S, entryOf
    <3>2. Append(index, entryOf) \in Seq(S) /\ Len(Append(index, entryOf)) = last
      BY <3>1
    <3>3. /\ DOMAIN Append(index, entryOf) = 1 .. last
          /\ \A e \in 1 .. Len(index) : Append(index, entryOf)[e] = index[e]
          /\ Append(index, entryOf)[last] = entryOf
      BY <3>1, <3>2
    <3> QED
      BY <1>3, <1>4, <2>2, <3>3
  <2> QED
    BY <2>1, <2>2
<1>6. entryOf.name = Stored[sym.name]
  BY DEF IndexEntry
<1>7. /\ \A k : (img.symbols[k])' = img.symbols[k]
      /\ \A k : IndexEntry(img.symbols[k])' = IndexEntry(img.symbols[k])
      /\ \A k : KeepsSymbol(img.symbols[k])' <=> KeepsSymbol(img.symbols[k])
  BY <1>1 DEF IndexEntry, KeepsSymbol
<1> HIDE DEF entryOf, last
<1>8. ASSUME NEW name
      PROVE  KeptBelow(i, name)' = KeptBelow(i, name) \cup {k \in {i} : hit(name)}
  BY <1>1, <1>2, <1>7 DEF KeptBelow
<1>9. ASSUME NEW name
      PROVE  EntriesOf(name)' = EntriesOf(name) \cup {k \in {last} : hit(name)}
  BY <1>3, <1>4, <1>5, <1>6 DEF EntriesOf
<1>10. ASSUME NEW name
       PROVE  \/ KeptBelow(i, name)' = {} /\ EntriesOf(name)' = {}
              \/ FirstKept(i, name)'
  <2>1. CASE KeptBelow(i, name) = {} /\ EntriesOf(name) = {} /\ ~hit(name)
    BY <1>8, <1>9, <2>1
  <2>2. CASE KeptBelow(i, name) = {} /\ EntriesOf(name) = {} /\ hit(name)
    <3>1. KeptBelow(i, name)' = {i} /\ EntriesOf(name)' = {last}
      BY <1>8, <1>9, <2>2
    <3>2. index'[last].addr = IndexEntry(img.symbols[i]).addr
      BY <1>5, <2>2 DEF entryOf
    <3>3. i \in Nat /\ last \in Nat
      BY <1>1, <1>2, <1>3 DEF last
    <3> QED
      BY <1>7, <3>1, <3>2, <3>3 DEF FirstKept
  <2>3. CASE FirstKept(i, name)
    <3>1. PICK k \in KeptBelow(i, name), e \in EntriesOf(name) :
              /\ \A j \in KeptBelow(i, name) : k <= j
              /\ \A d \in EntriesOf(name) : e <= d
              /\ index[e].addr = IndexEntry(img.symbols[k]).addr
      BY <2>3 DEF FirstKept
    <3>2. k <= i /\ e <= last /\ e \in DOMAIN index
      BY <1>1, <1>2, <1>3 DEF KeptBelow, EntriesOf, last
    <3>3. k \in KeptBelow(i, name)' /\ e \in EntriesOf(name)'
      BY <1>8, <1>9
    <3>4. /\ \A j \in KeptBelow(i, name)' : k <= j
          /\ \A d \in EntriesOf(name)' : e <= d
      BY <1>8, <1>9, <3>1, <3>2
    <3>5. index'[e].addr = IndexEntry(img.symbols[k])'.addr
      BY <1>5, <1>7, <3>1, <3>2
    <3> QED
      BY <3>3, <3>4, <3>5 DEF FirstKept
  <2> QED
    BY <2>1, <2>2, <2>3 DEF Indexed
<1> QED
  BY <1>10 DEF Indexed

LEMMA IndexKeeps == IInv /\ TypeInv /\ KindInv /\ IndexInv /\ [Next]_vars => IndexInv'
<1> SUFFICES ASSUME IInv, TypeInv, KindInv, IndexInv, [Next]_vars PROVE IndexInv'
  OBVIOUS
<1>1. pc \in LoadPcs => ~mod.loaded
  BY DEF IInv, CallInv
<1>2. CASE EndProtect
  <2>1. /\ mod' = mod /\ ~mod.loaded /\ index' = << >> /\ i' = 1
    BY <1>1, <1>2 DEF EndProtect, ClearSymbols, LoadPcs
  <2>2. img \in RelImage /\ img' = img
    BY <1>2, ImageTypes DEF EndProtect, IInv, CallInv, LoadPcs
  <2>3. \A name : KeptBelow(i, name)' = {}
    BY <2>1, <2>2, SymbolCount DEF KeptBelow
  <2>4. \A name : EntriesOf(name)' = {}
    BY <2>1 DEF EntriesOf
  <2> QED
    BY <2>1, <2>3, <2>4 DEF IndexInv, Indexed
<1>3. CASE IndexSymbol
  <2>1. Indexed(i)' /\ ~mod'.loaded
    BY <1>1, <1>3, IndexMore DEF IndexSymbol, IndexInv, LoadPcs
  <2> QED
    BY <2>1 DEF IndexInv
<1>4. CASE CommitRel
  <2>1. /\ pc = "index" /\ pc' = "idle" /\ i \notin DOMAIN img.symbols
        /\ UNCHANGED <<img, secAddr, index>>
    BY <1>4 DEF CommitRel, Commit
  <2>2. img \in RelImage /\ i \in Nat /\ i >= 1
    BY <2>1, ImageTypes DEF IInv, CallInv, LoadPcs
  <2> DEFINE n == Len(img.symbols) + 1
  <2>3. \A k \in DOMAIN img.symbols : k < i /\ k < n
    BY <2>1, <2>2, SymbolCount
  <2>4. \A name : KeptBelow(n, name) = KeptBelow(i, name)
    BY <2>3 DEF KeptBelow
  <2>5. Indexed(n)
    BY <2>1, <2>4 DEF IndexInv, Indexed, FirstKept
  <2>6. Indexed(n)'
    BY <2>1, <2>5, IndexedKeeps
  <2> QED
    BY <2>1, <2>6 DEF IndexInv
<1>5. CASE ~EndProtect /\ ~IndexSymbol /\ ~CommitRel
  <2>1. CASE pc' = "index"
    <3>1. pc = "index" /\ UNCHANGED <<img, secAddr, index, i, mod>>
      BY <1>5, <2>1 DEF Next, Call, RefuseExec, LoadExec, RefuseRel, LoadRel, Unload, Run,
         Return, ExportChange, Reject, Forget, vars, locals, LoadStep, SyncBlob, LayoutSection, RefuseMap,
         MapRel, CopySections, AllocResolved, CallocFails, ProbeImport, BindImport,
         StoreImport, EndResolve, RelocSection, EndReloc, ProtectPage, ProtectFails,
         CommitExec, Commit, IndexFull, FailPlain, FailFreeing, FailLeaking, FailLoad
    <3>2. Indexed(i)' /\ ~mod'.loaded
      BY <1>1, <3>1, IndexedKeeps DEF IndexInv, LoadPcs
    <3> QED
      BY <3>2 DEF IndexInv
  <2>2. CASE pc' # "index" /\ mod'.loaded /\ mod'.kind = "rel"
    <3>1. mod.loaded /\ UNCHANGED <<img, secAddr, index, mod>>
      <4>1. ~CommitExec
        BY <2>2 DEF CommitExec, Commit
      <4>2. CASE LoadStep
        <5>1. ~mod.loaded
          BY <1>1, <4>2, LoadStepPc
        <5> QED
          BY <1>5, <2>2, <4>1, <4>2, <5>1 DEF LoadStep, SyncBlob, LayoutSection, RefuseMap,
             MapRel, CopySections, AllocResolved, CallocFails, ProbeImport, BindImport,
             StoreImport, EndResolve, RelocSection, EndReloc, ProtectPage, ProtectFails,
             IndexFull, FailPlain, FailFreeing, FailLeaking, FailLoad
      <4>3. CASE ~LoadStep
        BY <2>2, <4>3 DEF Next, Call, RefuseExec, LoadExec, RefuseRel, LoadRel, Unload, Run,
           Return, ExportChange, Reject, NoModule, vars, locals
      <4> QED
        BY <4>2, <4>3
    <3>2. Indexed(Len(img.symbols) + 1)'
      BY <2>2, <3>1, IndexedKeeps DEF IndexInv
    <3> QED
      BY <2>2, <3>2 DEF IndexInv
  <2> QED
    BY <2>1, <2>2 DEF IndexInv
<1> QED
  BY <1>2, <1>3, <1>4, <1>5

------------------------------------------------------------------------------
\* What ModSlot says of images is what ElfImage says.
LEMMA SlotOperators ==
    /\ \A S : Slot!Min(S) = Min(S)
    /\ \A sym : Slot!IsExport(sym) <=> IsExport(sym)
    /\ \A m : Slot!AllocSections(m) = AllocSections(m)
    /\ Slot!SHN_ABS = SHN_ABS /\ Slot!NULL = NULL
<1>1. \A S : Slot!Min(S) = Min(S)
  BY Zenon DEF Slot!Min, Min
<1>2. \A sym : Slot!IsExport(sym) <=> IsExport(sym)
  BY DEF Slot!IsExport, IsExport, Slot!IsGlobal, IsGlobal, Slot!SHN_UNDEF, SHN_UNDEF,
     Slot!SkipModuleExport, SkipModuleExport
<1>3. \A m : Slot!AllocSections(m) = AllocSections(m)
  BY DEF Slot!AllocSections, AllocSections
<1>4. Slot!SHN_ABS = SHN_ABS /\ Slot!NULL = NULL
  BY DEF Slot!SHN_ABS, SHN_ABS, Slot!NULL, NULL
<1> QED
  BY <1>1, <1>2, <1>3, <1>4

\* The slot a state of the loader shows.
SlotOf == IF mod.loaded THEN img ELSE NoImage
Place == [s \in AllocSections(img) |-> secAddr[s]]
PlaceOf == IF mod.loaded /\ img.kind = "rel" THEN Place ELSE << >>
View == [n \in Names |-> LookupSymbol(n)]

\* An export is kept when it has an address, which is its place.
LEMMA ExportValue ==
    ASSUME OrdinaryExports, IInv, LinkedImage, img \in RelImage, img \in Images,
           NEW k \in DOMAIN img.symbols, IsExport(img.symbols[k])
    PROVE  LET sym == img.symbols[k] IN
           /\ KeepsSymbol(sym) <=> \/ sym.shndx \in AllocSections(img)
                                   \/ sym.shndx = SHN_ABS /\ sym.value # NULL
           /\ KeepsSymbol(sym) => IndexEntry(sym).addr = Slot!AddressOf(sym, Place)
<1> DEFINE sym == img.symbols[k]
           t == sym.shndx
<1>1. t \in Nat /\ sym.value \in Nat /\ t # SHN_UNDEF
  BY SymbolTypes DEF IsExport
<1>2. Len(img.sections) \in Nat /\ DOMAIN img.sections = 1 .. Len(img.sections)
  BY SectionTypes
<1>3. OrdinaryExport(img, sym)
  BY DEF OrdinaryExports, RelImage
<1>4. IndexEntry(sym).addr = SymValue(img, sym, Base, secAddr)
  BY DEF IndexEntry
<1>5. KeepsSymbol(sym) <=> SymValue(img, sym, Base, secAddr) # NULL
  BY <1>4 DEF KeepsSymbol
<1>6. AllocSections(img) \subseteq DOMAIN img.sections
  BY DEF AllocSections
<1>7. CASE t \in DOMAIN img.sections
  <2>1. SymValue(img, sym, Base, secAddr) = Base + secAddr[t] + sym.value
    BY <1>3, <1>7, LocalSymbol DEF OrdinaryExport, DefinedHere
  <2>2. t \in AllocSections(img) /\ t < SHN_LORESERVE
    BY <1>3, <1>7 DEF OrdinaryExport, OrdinaryReference
  <2>3. t # SHN_ABS
    BY <1>1, <2>2 DEF SHN_LORESERVE, SHN_ABS
  <2>4. secAddr[t] \in Nat
    <3>1. secAddr \in [0 .. Len(img.sections) -> Nat]
      BY DEF LinkedImage, LoadPcs, IInv, LayoutInv, RelImage
    <3> QED
      BY <1>2, <1>7, <3>1
  <2>5. SymValue(img, sym, Base, secAddr) # NULL
    <3>1. Base \in Nat /\ Base # 0
      BY LoaderAssumption DEF NULL
    <3> QED
      BY <1>1, <2>1, <2>4, <3>1 DEF NULL
  <2>6. Slot!AddressOf(sym, Place) = Base + secAddr[t] + sym.value
    BY <2>2, <2>3, SlotOperators DEF Slot!AddressOf, Place
  <2> QED
    BY <1>4, <1>5, <2>1, <2>2, <2>5, <2>6
<1>8. CASE t \notin DOMAIN img.sections /\ t = SHN_ABS
  <2>1. SymValue(img, sym, Base, secAddr) = sym.value
    BY <1>1, <1>8 DEF SymValue
  <2>2. Slot!AddressOf(sym, Place) = sym.value
    BY <1>8, SlotOperators DEF Slot!AddressOf
  <2> QED
    BY <1>4, <1>5, <1>6, <1>8, <2>1, <2>2
<1>9. CASE t \notin DOMAIN img.sections /\ t # SHN_ABS
  <2>1. t >= Shnum(img)
    BY <1>1, <1>2, <1>9 DEF Shnum, SHN_UNDEF
  <2>2. SymValue(img, sym, Base, secAddr) = NULL
    BY <1>1, <1>9, <2>1 DEF SymValue
  <2> QED
    BY <1>5, <1>6, <1>9, <2>2
<1> QED
  BY <1>7, <1>8, <1>9

\* What a lookup returns is the address of the first symbol exported by the name.
LEMMA LookupIs ==
    ASSUME OrdinaryExports, IInv, TypeInv, KindInv, IndexInv, mod.loaded, mod.kind = "rel"
    PROVE  View = Slot!ViewOf(img, Place)
<1>1. img \in Images /\ img \in RelImage /\ img.kind = "rel" /\ LinkedImage
  BY ImageTypes DEF IInv, CallInv, KindInv, LinkedImage
<1> DEFINE n == Len(img.symbols) + 1
<1>2. \A k \in DOMAIN img.symbols : k < n /\ k \in Nat
  BY <1>1, SymbolCount
<1>3. \A name : KeptBelow(n, name) = Slot!Exporting(img, name)
  <2>1. \A k \in DOMAIN img.symbols :
            KeepsSymbol(img.symbols[k]) => IsExport(img.symbols[k])
    BY DEF KeepsSymbol
  <2>2. \A k \in DOMAIN img.symbols :
            IsExport(img.symbols[k]) => Stored[img.symbols[k].name] = img.symbols[k].name
    BY <1>1 DEF OrdinaryExports, OrdinaryExport
  <2> QED
    BY <1>1, <1>2, <2>1, <2>2, ExportValue, SlotOperators DEF KeptBelow, Slot!Exporting
<1>4. ASSUME NEW name \in Names
      PROVE  LookupSymbol(name) = Slot!ViewOf(img, Place)[name]
  <2>1. Slot!ViewOf(img, Place)[name] =
            IF Slot!Exporting(img, name) # {}
            THEN Slot!AddressOf(img.symbols[Min(Slot!Exporting(img, name))], Place)
            ELSE NULL
    BY <1>1, <1>4, SlotOperators DEF Slot!ViewOf
  <2>2. CASE KeptBelow(n, name) = {} /\ EntriesOf(name) = {}
    BY <1>3, <2>1, <2>2 DEF LookupSymbol
  <2>3. CASE FirstKept(n, name)
    <3>1. PICK k \in KeptBelow(n, name), e \in EntriesOf(name) :
              /\ \A j \in KeptBelow(n, name) : k <= j
              /\ \A d \in EntriesOf(name) : e <= d
              /\ index[e].addr = IndexEntry(img.symbols[k]).addr
      BY <2>3 DEF FirstKept
    <3>2. KeptBelow(n, name) \in SUBSET Nat /\ EntriesOf(name) \in SUBSET Nat
      BY <1>2 DEF KeptBelow, EntriesOf, TypeInv
    <3>3. Min(KeptBelow(n, name)) = k
      <4>1. /\ Min(KeptBelow(n, name)) \in KeptBelow(n, name)
            /\ Min(KeptBelow(n, name)) <= k
        BY <3>1, <3>2, MinFacts
      <4> QED
        BY <3>1, <3>2, <4>1
    <3>4. Min(EntriesOf(name)) = e
      <4>1. Min(EntriesOf(name)) \in EntriesOf(name) /\ Min(EntriesOf(name)) <= e
        BY <3>1, <3>2, MinFacts
      <4> QED
        BY <3>1, <3>2, <4>1
    <3>5. IsExport(img.symbols[k]) /\ KeepsSymbol(img.symbols[k]) /\ k \in DOMAIN img.symbols
          /\ img.symbols[k].name = name
      BY <1>1, <3>1 DEF KeptBelow, KeepsSymbol, OrdinaryExports, OrdinaryExport
    <3>6. name # NoName
      BY <3>5 DEF IsExport, SkipModuleExport
    <3>7. LookupSymbol(name) = index[e].addr
      BY <3>1, <3>4, <3>6 DEF LookupSymbol
    <3>8. IndexEntry(img.symbols[k]).addr = Slot!AddressOf(img.symbols[k], Place)
      BY <1>1, <3>5, ExportValue
    <3> QED
      BY <1>3, <2>1, <3>1, <3>3, <3>7, <3>8
  <2> QED
    BY <2>2, <2>3 DEF IndexInv, Indexed
<1>5. DOMAIN Slot!ViewOf(img, Place) = Names
      /\ Slot!ViewOf(img, Place) = [name \in Names |-> Slot!ViewOf(img, Place)[name]]
  BY DEF Slot!ViewOf
<1> HIDE DEF n
<1> QED
  BY <1>4, <1>5 DEF View

------------------------------------------------------------------------------
\* What the slot shows of a resident module: its image, laid out, and its exports.
ShownInv ==
    mod.loaded =>
        /\ img.kind = "rel" => Slot!ValidLayout(img, PlaceOf)
        /\ View = Slot!ViewOf(img, PlaceOf)

LEMMA Shown ==
    ASSUME OrdinaryExports, IInv, TypeInv, KindInv, IndexInv
    PROVE  ShownInv
<1> SUFFICES ASSUME mod.loaded
             PROVE  /\ img.kind = "rel" => Slot!ValidLayout(img, PlaceOf)
                    /\ View = Slot!ViewOf(img, PlaceOf)
  BY DEF ShownInv
<1>1. img \in Images /\ mod.kind = img.kind
  BY DEF IInv, CallInv, KindInv
<1>2. CASE img.kind = "rel"
  <2>1. PlaceOf = Place
    BY <1>2 DEF PlaceOf
  <2>2. View = Slot!ViewOf(img, PlaceOf)
    BY <1>1, <1>2, <2>1, LookupIs
  <2>3. img \in RelImage /\ pc # "layout"
    BY <1>1, <1>2, ImageTypes DEF IInv, CallInv, LoadPcs
  <2>4. Placed = Shnum(img) /\ \A t \in AllocSections(img) : t < Placed
    BY <2>3, SectionTypes DEF Placed, Shnum, AllocSections
  <2>5. \A t \in AllocSections(img) : Place[t] = secAddr[t]
    BY DEF Place
  <2>6. DOMAIN Place = AllocSections(img)
    BY DEF Place
  <2>7. \A t \in AllocSections(img) :
            /\ img.sections[t].align > 1 =>
                   (Base + secAddr[t]) % img.sections[t].align = 0
            /\ \A u \in AllocSections(img) :
                   t < u => secAddr[t] + img.sections[t].size <= secAddr[u]
    BY <1>2, <2>4 DEF IInv, LayoutInv
  <2>8. Slot!ValidLayout(img, Place)
    BY <2>5, <2>6, <2>7, SlotOperators DEF Slot!ValidLayout
  <2> QED
    BY <2>1, <2>2, <2>8
<1>3. CASE img.kind # "rel"
  BY <1>1, <1>3, SlotOperators DEF View, LookupSymbol, Slot!ViewOf
<1> QED
  BY <1>2, <1>3

\* The state ModLoader's instance of ModSlot has.
LEMMA SlotState ==
    /\ (IF mod.loaded THEN img ELSE NoImage) = SlotOf
    /\ (IF mod.loaded THEN img ELSE NoImage)' = SlotOf'
    /\ (IF mod.loaded /\ img.kind = "rel"
        THEN [s \in AllocSections(img) |-> secAddr[s]] ELSE << >>) = PlaceOf
    /\ (IF mod.loaded /\ img.kind = "rel"
        THEN [s \in AllocSections(img) |-> secAddr[s]] ELSE << >>)' = PlaceOf'
    /\ [n \in Names |-> LookupSymbol(n)] = View
    /\ [n \in Names |-> LookupSymbol(n)]' = View'
BY DEF SlotOf, PlaceOf, Place, View

\* A step that leaves what is resident alone does not show.
LEMMA Invisible ==
    ASSUME mod' = mod, mod.loaded => UNCHANGED <<img, secAddr, index>>
    PROVE  UNCHANGED <<SlotOf, PlaceOf, View>>
<1>1. CASE mod.loaded
  BY <1>1 DEF SlotOf, PlaceOf, Place, View, LookupSymbol, EntriesOf
<1>2. CASE ~mod.loaded
  BY <1>2 DEF SlotOf, PlaceOf, View, LookupSymbol
<1> QED
  BY <1>1, <1>2

LEMMA EmptySlot ==
    ASSUME IInv
    PROVE  /\ ~mod.loaded => SlotOf = Slot!Empty /\ PlaceOf = << >> /\ View = Slot!Nothing
           /\ mod.loaded => SlotOf = img /\ SlotOf # Slot!Empty
<1>1. CASE mod.loaded
  <2>1. img.kind \in {"exec", "rel"}
    BY <1>1, ImageTypes DEF IInv, CallInv
  <2>2. img # [kind |-> "none"]
    BY <2>1
  <2> QED
    BY <1>1, <2>2 DEF SlotOf, Slot!Empty
<1>2. CASE ~mod.loaded
  BY <1>2, SlotOperators
  DEF SlotOf, PlaceOf, View, LookupSymbol, NoImage, Slot!Empty, Slot!Nothing
<1> QED
  BY <1>1, <1>2

\* An error is what the promise allows of one.
LEMMA FailShown ==
    ASSUME IInv, mod' = mod, mod.loaded => UNCHANGED <<img, secAddr, index>>,
           result' \in Statuses \ {NO_ERROR},
           result' = ALREADY_EXISTS => mod.loaded,
           result' \in {NOT_READY, NO_MEMORY, NOT_SUPPORTED, MMU_ERROR} => ~mod.loaded
    PROVE  Slot!Fail
<1>1. UNCHANGED <<SlotOf, PlaceOf, View>>
  BY Invisible
<1>2. /\ Slot!Statuses = Statuses /\ Slot!NO_ERROR = NO_ERROR
      /\ Slot!ALREADY_EXISTS = ALREADY_EXISTS /\ Slot!NOT_READY = NOT_READY
      /\ Slot!NO_MEMORY = NO_MEMORY /\ Slot!NOT_SUPPORTED = NOT_SUPPORTED
      /\ Slot!MMU_ERROR = MMU_ERROR
  BY DEF Slot!Statuses, Statuses, Slot!NO_ERROR, NO_ERROR, Slot!ALREADY_EXISTS,
     ALREADY_EXISTS, Slot!NOT_READY, NOT_READY, Slot!NO_MEMORY, NO_MEMORY,
     Slot!NOT_SUPPORTED, NOT_SUPPORTED, Slot!MMU_ERROR, MMU_ERROR,
     Slot!INVALID_ARGS, INVALID_ARGS, Slot!NOT_VALID, NOT_VALID, Slot!NOT_FOUND, NOT_FOUND,
     Slot!TOO_BIG, TOO_BIG, Slot!NOT_ALLOWED, NOT_ALLOWED, Slot!NOT_FILE, NOT_FILE,
     Slot!IO, IO
<1> QED
  BY <1>1, <1>2, SlotState, EmptySlot DEF Slot!Fail

\* A load shows when it is over.
LEMMA CommitShown ==
    ASSUME IInv, ShownInv', CommitExec \/ CommitRel
    PROVE  Slot!Next
<1>1. /\ ~mod.loaded /\ mod'.loaded /\ img' = img /\ result' = NO_ERROR
      /\ img \in Images
  BY DEF CommitExec, CommitRel, Commit, IInv, CallInv, LoadPcs
<1>2. SlotOf = Slot!Empty
  BY <1>1, EmptySlot
<1>3. SlotOf' = img
  BY <1>1 DEF SlotOf
<1>4. img.kind = "rel" => Slot!ValidLayout(img, PlaceOf')
  BY <1>1 DEF ShownInv
<1>5. img.kind # "rel" => PlaceOf' = << >>
  BY <1>1 DEF PlaceOf
<1>6. View' = Slot!ViewOf(img, PlaceOf')
  BY <1>1 DEF ShownInv
<1>7. ASSUME NEW m \in Images, m = img
      PROVE  Slot!Load(m)
  BY <1>1, <1>2, <1>3, <1>4, <1>5, <1>6, <1>7, SlotState
  DEF Slot!Load, Slot!NO_ERROR, NO_ERROR
<1> QED
  BY <1>1, <1>7 DEF Slot!Next

LEMMA UnloadShown ==
    ASSUME IInv, Unload, mod.loaded
    PROVE  Slot!Next
<1>1. ~mod'.loaded /\ result' = NO_ERROR
  BY DEF Unload, NoModule
<1>2. SlotOf # Slot!Empty
  BY EmptySlot
<1>3. SlotOf' = Slot!Empty /\ PlaceOf' = << >> /\ View' = Slot!Nothing
  BY <1>1, SlotOperators DEF SlotOf, PlaceOf, View, LookupSymbol, NoImage, Slot!Empty,
     Slot!Nothing
<1>4. Slot!Unload
  BY <1>1, <1>2, <1>3, SlotState DEF Slot!Unload, Slot!NO_ERROR, NO_ERROR
<1> QED
  BY <1>4 DEF Slot!Next

\* The error returns of a load.
LoadErrors == {NOT_VALID, NOT_FOUND, NO_MEMORY, NOT_SUPPORTED, MMU_ERROR}

LEMMA LoadFails ==
    ASSUME IInv, ~mod.loaded, mod' = mod, result' \in LoadErrors
    PROVE  Slot!Next
<1>1. /\ result' \in Statuses \ {NO_ERROR} /\ result' # ALREADY_EXISTS
  BY DEF LoadErrors, Statuses, NOT_VALID, NOT_FOUND, NO_MEMORY, NOT_SUPPORTED, MMU_ERROR,
     NO_ERROR, ALREADY_EXISTS
<1>2. Slot!Fail
  BY <1>1, FailShown
<1> QED
  BY <1>2 DEF Slot!Next

\* A call that is refused.
LEMMA CallFails ==
    ASSUME IInv, NEW st, Reject(st), st \in Statuses \ {NO_ERROR},
           st = ALREADY_EXISTS => mod.loaded,
           st \in {NOT_READY, NO_MEMORY, NOT_SUPPORTED, MMU_ERROR} => ~mod.loaded
    PROVE  Slot!Next
<1>1. mod' = mod /\ UNCHANGED <<img, secAddr, index>> /\ result' = st
  BY DEF Reject, locals
<1>2. Slot!Fail
  BY <1>1, FailShown
<1> QED
  BY <1>2 DEF Slot!Next

LEMMA CallShown ==
    ASSUME IInv, NEW m \in Images,
           RefuseExec(m) \/ LoadExec(m) \/ RefuseRel(m) \/ LoadRel(m)
    PROVE  Slot!Next \/ UNCHANGED <<SlotOf, PlaceOf, View, result>>
<1> USE DEF Statuses, NOT_VALID, NOT_FOUND, NO_MEMORY, NOT_SUPPORTED, MMU_ERROR,
       NO_ERROR, ALREADY_EXISTS, NOT_READY
<1>1. CASE RefuseExec(m)
  BY <1>1, CallFails DEF RefuseExec
<1>2. CASE LoadExec(m)
  BY <1>2, Invisible DEF LoadExec
<1>3. CASE RefuseRel(m)
  BY <1>3, CallFails DEF RefuseRel
<1>4. CASE LoadRel(m)
  <2>1. ~mod.loaded /\ mod' = mod
    BY <1>4 DEF LoadRel
  <2>2. CASE m.header = "bad"
    BY <1>4, <2>1, <2>2, LoadFails DEF LoadRel, LoadErrors
  <2>3. CASE m.header # "bad"
    BY <1>4, <2>1, <2>3, Invisible DEF LoadRel
  <2> QED
    BY <2>2, <2>3
<1> QED
  BY <1>1, <1>2, <1>3, <1>4

\* A step of a load goes on with it, or ends it with an error or a module.
LEMMA LoadStepEnds ==
    ASSUME IInv, LoadStep, ~CommitExec, ~CommitRel
    PROVE  /\ mod' = mod
           /\ \/ pc' \in LoadPcs /\ img' = img /\ result' = result
              \/ pc' = "idle" /\ result' \in LoadErrors
<1>1. mod' = mod
  BY DEF LoadStep, SyncBlob, LayoutSection, RefuseMap, MapRel, CopySections, AllocResolved, CallocFails,
     ProbeImport, BindImport, StoreImport, EndResolve, RelocSection, EndReloc, ProtectPage,
     ProtectFails, EndProtect, IndexSymbol, IndexFull, FailPlain, FailFreeing, FailLeaking,
     FailLoad
<1>2. \A m, r : RelocStatus(m, r) \in LoadErrors \cup {NO_ERROR}
  BY DEF RelocStatus, LoadErrors
<1>3. ASSUME NEW k \in BadRelocs(img, img.sections[i])
      PROVE  RelocStatus(img, img.sections[i].rels[k]) \in LoadErrors
  BY <1>2, <1>3 DEF BadRelocs
<1>4. CASE RelocSection
  <2> DEFINE bad == BadRelocs(img, img.sections[i])
  <2>1. CASE bad # {} /\ FailFreeing(RelocStatus(img, img.sections[i].rels[Min(bad)]))
    <3>1. i \in DOMAIN img.sections /\ img \in RelImage
      <4>1. pc = "reloc" /\ i < Shnum(img)
        BY <1>4 DEF RelocSection
      <4>2. img \in RelImage /\ i \in Nat /\ i >= 1
        BY <4>1, ImageTypes DEF IInv, CallInv, LoadPcs
      <4> QED
        BY <4>1, <4>2, SectionTypes DEF Shnum
    <3>2. bad \in SUBSET Nat
      <4>1. img.sections[i] \in Section
        BY <3>1, SectionTypes
      <4>2. DOMAIN img.sections[i].rels \subseteq Nat
        BY <4>1 DEF Section
      <4> QED
        BY <4>2 DEF BadRelocs
    <3>3. Min(bad) \in bad
      BY <2>1, <3>2, MinFacts
    <3> QED
      BY <1>1, <1>3, <2>1, <3>3 DEF FailFreeing, FailLoad, Forget
  <2>2. CASE FailLeaking(NOT_VALID)
    BY <1>1, <2>2 DEF FailLeaking, FailLoad, Forget, LoadErrors
  <2>3. CASE UNCHANGED <<pc, img, result>>
    BY <1>1, <2>3, LoadStepPc
  <2> QED
    BY <1>4, <2>1, <2>2, <2>3 DEF RelocSection
<1>5. CASE ~RelocSection
  BY <1>1, <1>5 DEF LoadStep, SyncBlob, LayoutSection, RefuseMap, MapRel, CopySections, CopyStatus,
     AllocResolved, CallocFails, ProbeImport, BindImport, StoreImport, EndResolve, EndReloc,
     ProtectPage, ProtectFails, EndProtect, IndexSymbol, IndexFull, FailPlain, FailFreeing,
     FailLoad, Forget, LoadErrors, LoadPcs
<1> QED
  BY <1>4, <1>5

\* A step of a load that is not its last shows nothing, or an error.
LEMMA LoadStepShown ==
    ASSUME IInv, LoadStep, ~CommitExec, ~CommitRel
    PROVE  Slot!Next \/ UNCHANGED <<SlotOf, PlaceOf, View, result>>
<1>1. ~mod.loaded
  BY LoadStepPc DEF IInv, CallInv
<1>2. mod' = mod /\ (result' = result \/ result' \in LoadErrors)
  BY LoadStepEnds
<1>3. UNCHANGED <<SlotOf, PlaceOf, View>>
  BY <1>1, <1>2, Invisible
<1> QED
  BY <1>1, <1>2, <1>3, LoadFails

LEMMA StepShown ==
    ASSUME IInv, ShownInv', [Next]_vars
    PROVE  Slot!Next \/ UNCHANGED <<SlotOf, PlaceOf, View, result>>
<1>1. CASE LoadStep
  BY <1>1, CommitShown, LoadStepShown
<1>2. CASE \E m \in Images : RefuseExec(m) \/ LoadExec(m) \/ RefuseRel(m) \/ LoadRel(m)
  BY <1>2, CallShown
<1>3. CASE Unload
  <2>1. CASE mod.loaded
    BY <1>3, <2>1, UnloadShown
  <2>2. CASE ~mod.loaded
    BY <1>3, <2>2, CallFails DEF Unload, Statuses, NOT_FOUND, NO_ERROR, ALREADY_EXISTS,
       NOT_READY, NO_MEMORY, NOT_SUPPORTED, MMU_ERROR
  <2> QED
    BY <2>1, <2>2
<1>4. CASE Run
  <2>1. CASE mod.loaded
    BY <1>4, <2>1, Invisible DEF Run
  <2>2. CASE ~mod.loaded
    BY <1>4, <2>2, CallFails DEF Run, Statuses, NOT_READY, NO_ERROR, ALREADY_EXISTS
  <2> QED
    BY <2>1, <2>2
<1>5. CASE Return \/ ExportChange \/ UNCHANGED vars
  BY <1>5, Invisible DEF Return, ExportChange, vars, locals
<1> QED
  BY <1>1, <1>2, <1>3, <1>4, <1>5 DEF Next, Call

\* The loader is a slot: a load either fails and shows nothing of itself, though
\* it cleared or half filled the index and mapped memory, or puts a whole module
\* in the empty slot, each section at a place that fits and each export found at
\* its address (modloader_load_elf_buffer and modloader_lookup_symbol).
THEOREM SlotRefinement ==
    ASSUME OrdinaryExports
    PROVE  Spec => ImplementsSlot
<1>1. Init => Slot!Init
  <2> SUFFICES ASSUME Init PROVE Slot!Init
    OBVIOUS
  <2>1. ~mod.loaded /\ result = NO_ERROR
    BY DEF Init, NoModule
  <2>2. SlotOf = Slot!Empty /\ PlaceOf = << >> /\ View = Slot!Nothing
    BY <2>1, SlotOperators DEF SlotOf, PlaceOf, View, LookupSymbol, NoImage, Slot!Empty,
       Slot!Nothing
  <2> QED
    BY <2>1, <2>2, SlotState DEF Slot!Init, Slot!NO_ERROR, NO_ERROR
<1>2. Init => IndexInv
  BY DEF Init, IndexInv, NoModule
<1>3. Spec => [](IInv /\ TypeInv /\ KindInv /\ IndexInv)
  <2>1. Init => BufferInv
    BY DEF Init, BufferInv, NoBuffer
  <2>2. Init => KindInv
    BY DEF Init, KindInv, NoModule
  <2> QED
    BY <1>2, <2>1, <2>2, InitTypes, TypeKeeps, BufferKeeps, KindKeeps, IndexKeeps,
       Invariance, PTL DEF Spec
<1>4. IInv /\ TypeInv /\ KindInv /\ IndexInv => ShownInv
  BY Shown
<1>5. IInv /\ ShownInv' /\ [Next]_vars => [Slot!Next]_(Slot!vars)
  <2> SUFFICES ASSUME IInv, ShownInv', [Next]_vars PROVE [Slot!Next]_(Slot!vars)
    OBVIOUS
  <2> QED
    BY StepShown, SlotState DEF Slot!vars
<1> QED
  BY <1>1, <1>3, <1>4, <1>5, PTL DEF Spec, ImplementsSlot, Slot!Spec

------------------------------------------------------------------------------
\* A loop's counter is not past the loop's end.
LoopInv == pc \in LoadPcs => TurnsLeft \in Nat

LEMMA LoopBegins ==
    ASSUME NEW m \in Images, LoadExec(m) \/ LoadRel(m), pc' \in LoadPcs
    PROVE  TurnsLeft' \in Nat
<1>1. CASE LoadExec(m)
  BY <1>1 DEF LoadExec, TurnsLeft
<1>2. CASE LoadRel(m)
  <2>1. Len(m.sections) \in Nat
    BY <1>2, ImageTypes, SectionTypes DEF LoadRel
  <2>2. pc' = "layout" /\ img' = m /\ i' = 1
    BY <1>2 DEF LoadRel, LoadPcs, locals
  <2> QED
    BY <2>1, <2>2 DEF TurnsLeft, Shnum
<1> QED
  BY <1>1, <1>2

\* A step of a load that goes on with it is a turn of a loop, or its end.
LEMMA TurnsDescend ==
    ASSUME IInv, LoopInv, LoadStep, pc' \in LoadPcs
    PROVE  /\ TurnsLeft' \in Nat
           /\ Phase' < Phase \/ (Phase' = Phase /\ TurnsLeft' < TurnsLeft)
<1>1. pc \in LoadPcs /\ TurnsLeft \in Nat /\ i \in Nat
  BY LoadStepPc DEF LoopInv, IInv, CallInv
<1>2. ASSUME pc \notin {"sync", "wx"}
      PROVE  Len(img.sections) \in Nat /\ Len(img.symbols) \in Nat
             /\ DOMAIN img.symbols = 1 .. Len(img.symbols)
  <2>1. img \in RelImage
    BY <1>1, <1>2, ImageTypes DEF IInv, CallInv
  <2> QED
    BY <2>1, SectionTypes, SymbolCount
<1>3. NumPages(total) \in Nat
  BY NumPagesFacts DEF IInv, CallInv
<1> USE DEF TurnsLeft, Phase, Shnum
<1>4. CASE LayoutSection
  BY <1>1, <1>2, <1>4 DEF LayoutSection
<1>16. CASE SyncBlob
  BY <1>1, <1>3, <1>16 DEF SyncBlob
<1>5. CASE MapRel \/ CopySections
  BY <1>5 DEF MapRel, CopySections, FailPlain, FailLoad, Forget, LoadPcs
<1>6. CASE AllocResolved
  BY <1>2, <1>6 DEF AllocResolved
<1>7. CASE ProbeImport
  <2>1. i <= Len(img.symbols) /\ i \in Nat /\ pc = "resolve" /\ img' = img
    BY <1>1, <1>2, <1>7 DEF ProbeImport
  <2>2. CASE pc' = "bind" /\ i' = i
    BY <1>2, <2>1, <2>2
  <2>3. CASE pc' = "resolve" /\ i' = i + 1
    BY <1>2, <2>1, <2>3
  <2> QED
    BY <1>7, <2>1, <2>2, <2>3 DEF ProbeImport
<1>8. CASE BindImport
  <2>1. pc = "bind" /\ pc' = "resolve" /\ i' = i + 1 /\ img' = img
    BY <1>8 DEF BindImport, StoreImport, FailFreeing, FailLoad, Forget, LoadPcs
  <2> DEFINE n == Len(img.symbols)
  <2>2. n \in Nat /\ n' = n /\ 2 * (n - i) + 1 \in Nat
    BY <1>1, <1>2, <2>1
  <2>3. TurnsLeft = 2 * (n - i) + 1 /\ TurnsLeft' = 2 * (n + 1 - (i + 1)) /\ Phase' = Phase
    BY <2>1
  <2> HIDE DEF n, TurnsLeft, Phase
  <2>4. 2 * (n + 1 - (i + 1)) \in Nat /\ 2 * (n + 1 - (i + 1)) < 2 * (n - i) + 1
    BY <1>1, <2>2
  <2> QED
    BY <2>3, <2>4
<1>9. CASE EndResolve
  BY <1>2, <1>9 DEF EndResolve
<1>10. CASE RelocSection
  <2>1. /\ pc = "reloc" /\ i < Shnum(img)
        /\ \/ i' = i + 1 /\ UNCHANGED <<pc, img>>
           \/ \E st : FailLeaking(st) \/ FailFreeing(st)
    BY <1>10 DEF RelocSection
  <2>2. ~\E st : FailLeaking(st) \/ FailFreeing(st)
    BY DEF FailLeaking, FailFreeing, FailLoad, Forget, LoadPcs
  <2> QED
    BY <1>1, <1>2, <2>1, <2>2
<1>11. CASE EndReloc
  BY <1>3, <1>11 DEF EndReloc, FailFreeing, FailLoad, Forget, LoadPcs
<1>12. CASE ProtectPage
  <2>1. i \in 0 .. NumPages(total) - 1
    BY <1>12 DEF ProtectPage, MorePages, IInv, RegionInv, Mapped, LoadPcs
  <2> QED
    BY <1>3, <1>12, <2>1 DEF ProtectPage
<1>13. CASE EndProtect
  <2>1. img \in Images /\ img.kind = "rel" /\ pc' = "index" /\ i' = 1 /\ img' = img /\ pc = "wx"
    BY <1>1, <1>13 DEF EndProtect, IInv, CallInv
  <2> QED
    BY <2>1, ImageTypes, SymbolCount
<1>14. CASE IndexSymbol
  BY <1>1, <1>2, <1>14 DEF IndexSymbol
<1>15. CASE RefuseMap \/ CallocFails \/ ProtectFails \/ IndexFull \/ CommitExec \/ CommitRel
  BY <1>15 DEF RefuseMap, CallocFails, ProtectFails, IndexFull, CommitExec, CommitRel, Commit,
     FailPlain, FailLoad, Forget, LoadPcs
<1> QED
  BY <1>4, <1>5, <1>6, <1>7, <1>8, <1>9, <1>10, <1>11, <1>12, <1>13, <1>14, <1>15,
     <1>16 DEF LoadStep

LEMMA LoopKeeps == IInv /\ LoopInv /\ [Next]_vars => LoopInv'
<1> SUFFICES ASSUME IInv, LoopInv, [Next]_vars, pc' \in LoadPcs PROVE TurnsLeft' \in Nat
  BY DEF LoopInv
<1>1. CASE LoadStep
  BY <1>1, TurnsDescend
<1>2. CASE \E m \in Images : LoadExec(m) \/ LoadRel(m)
  BY <1>2, LoopBegins
<1>3. CASE ~LoadStep /\ ~\E m \in Images : LoadExec(m) \/ LoadRel(m)
  <2>1. pc \in LoadPcs /\ UNCHANGED <<pc, i, img, total>>
    BY <1>3 DEF Next, Call, RefuseExec, RefuseRel, Reject, Unload, Run, Return, ExportChange,
       Forget, vars, locals, LoadPcs
  <2> QED
    BY <2>1 DEF LoopInv, TurnsLeft
<1> QED
  BY <1>1, <1>2, <1>3

\* A load takes a number of steps the image bounds: with the fairness of its
\* thread, and a step that is possible, it returns.
THEOREM LoadsDescend == Spec => LoadDescends
<1>1. Init => LoopInv
  BY DEF Init, LoopInv, LoadPcs
<1>2. IInv /\ LoopInv /\ [Next]_vars =>
          [pc' \in LoadPcs =>
              /\ TurnsLeft' \in Nat
              /\ LoadStep => \/ Phase' < Phase
                             \/ Phase' = Phase /\ TurnsLeft' < TurnsLeft]_vars
  BY LoopKeeps, TurnsDescend DEF LoopInv
<1> QED
  BY <1>1, <1>2, LoopKeeps, Invariance, PTL DEF Spec, LoadDescends
==============================================================================
