--------------------------- MODULE ModLoaderProofs ---------------------------
(***************************************************************************)
(* Theorems of ModLoader, for every set of images, page size, load address *)
(* and table size.                                                         *)
(***************************************************************************)
EXTENDS ModLoader, ExportTableProofs, FiniteSetTheorems

\* What ROUNDUP returns is the least multiple of b that is not below a.
LEMMA RoundUpFacts ==
    ASSUME NEW a \in Nat, NEW b \in Nat \ {0}
    PROVE  /\ RoundUp(a, b) \in Nat
           /\ RoundUp(a, b) >= a
           /\ RoundUp(a, b) < a + b
           /\ RoundUp(a, b) % b = 0
BY SMT DEF RoundUp

LEMMA DivMul == ASSUME NEW n \in Nat, NEW b \in Nat \ {0}
                PROVE  (n * b) \div b = n
BY SMT

LEMMA ModSum ==
    ASSUME NEW a \in Nat, NEW b \in Nat, NEW m \in Nat \ {0}, a % m = 0, b % m = 0
    PROVE  (a + b) % m = 0
<1>1. a = m * (a \div m) /\ b = m * (b \div m) /\ a \div m \in Nat /\ b \div m \in Nat
  BY SMT
<1> DEFINE q == a \div m
           r == b \div m
<1> HIDE DEF q, r
<1>2. a + b = m * (q + r)
  BY <1>1, SMT DEF q, r
<1>3. q + r \in Nat
  BY <1>1 DEF q, r
<1>4. (m * (q + r)) % m = 0
  BY <1>3, SMT
<1> QED
  BY <1>2, <1>4

\* A mapping of NumPages(size) pages holds size bytes, and is not empty when
\* there is a byte to hold.
LEMMA NumPagesFacts ==
    ASSUME NEW size \in Nat
    PROVE  /\ NumPages(size) \in Nat
           /\ NumPages(size) * PageSize = RoundUp(size, PageSize)
           /\ NumPages(size) * PageSize >= size
           /\ size > 0 => NumPages(size) > 0
<1> DEFINE c == RoundUp(size, PageSize)
           q == c \div PageSize
<1>0. PageSize \in Nat \ {0}  BY PageAssumption
<1>1. c \in Nat /\ c >= size /\ c % PageSize = 0  BY <1>0, RoundUpFacts
<1>2. NumPages(size) = q  BY DEF NumPages
<1> HIDE DEF c
<1>3. q \in Nat /\ c = q * PageSize  BY <1>0, <1>1, SMT
<1>4. c > 0 => q > 0  BY <1>0, <1>1, <1>3, SMT
<1> HIDE DEF q
<1>5. NumPages(size) * PageSize = RoundUp(size, PageSize)  BY <1>2, <1>3 DEF c
<1>6. NumPages(size) * PageSize >= size  BY <1>5, <1>1 DEF c
<1> QED  BY <1>1, <1>2, <1>3, <1>4, <1>5, <1>6

\* Padding to an alignment moves a section up, to a multiple of it.
LEMMA AlignedOffsetFacts ==
    ASSUME NEW at \in Nat, NEW s, s.align \in Nat
    PROVE  /\ AlignedOffset(at, s) \in Nat
           /\ AlignedOffset(at, s) >= at
           /\ s.align > 1 => AlignedOffset(at, s) % s.align = 0
<1>1. CASE s.align > 1
  <2>1. s.align \in Nat \ {0}  BY <1>1
  <2> QED  BY <1>1, <2>1, RoundUpFacts DEF AlignedOffset
<1>2. CASE ~(s.align > 1)
  BY <1>2 DEF AlignedOffset
<1> QED  BY <1>1, <1>2

------------------------------------------------------------------------------
\* The region at Base holds the image being loaded or the resident module.
Mapped == pc \in LoadPcs \ {"layout"} \/ mod.loaded

\* A load runs only while no module is resident, and on one of the images.
CallInv ==
    /\ pc \in {"idle", "running"} \cup LoadPcs
    /\ mod.loaded \in BOOLEAN
    /\ pc \in LoadPcs => ~mod.loaded
    /\ pc = "running" => mod.loaded
    /\ ~mod.loaded => mod = NoModule
    /\ pc \in LoadPcs \/ mod.loaded => img \in Images
    /\ pc = "sync" => img.kind = "exec"
    /\ pc \in LoadPcs \ {"sync", "wx"} => img.kind = "rel" /\ i >= 1
    /\ i \in Nat /\ total \in Nat

\* It is mapped whole, and otherwise nothing is.
RegionInv ==
    /\ ~Mapped => pages = Unmapped /\ patched = {}
    /\ Mapped => total > 0 /\ pages \in [0 .. NumPages(total) - 1 -> Perms]
    /\ mod.loaded => mod.size = NumPages(total) * PageSize

\* The pages below i have their final permissions, and then all have.
ProtectInv ==
    /\ pc = "wx" => \A p \in DOMAIN pages : p < i => pages[p] # "RWX"
    /\ pc = "index" \/ mod.loaded => \A p \in DOMAIN pages : pages[p] # "RWX"

\* The headers below Placed have their place.
Placed == IF pc = "layout" THEN i ELSE Shnum(img)

LayoutInv ==
    (pc \in LoadPcs \/ mod.loaded) /\ img.kind = "rel" =>
        /\ Placed <= Shnum(img)
        /\ secAddr \in [0 .. Len(img.sections) -> Nat]
        /\ \A s \in AllocSections(img) : s < Placed =>
               /\ img.sections[s].align > 1 =>
                      (Base + secAddr[s]) % img.sections[s].align = 0
               /\ secAddr[s] + img.sections[s].size <= total
               /\ \A t \in AllocSections(img) : s < t /\ t < Placed =>
                      secAddr[s] + img.sections[s].size <= secAddr[t]

IInv == CallInv /\ RegionInv /\ ProtectInv /\ LayoutInv

------------------------------------------------------------------------------
LEMMA ImageTypes ==
    ASSUME NEW m \in Images
    PROVE  /\ m.kind \in {"exec", "rel"}
           /\ m.kind = "exec" => m \in ExecImage
           /\ m.kind = "rel" => m \in RelImage
BY LoaderAssumption DEF RelImage, ExecImage

LEMMA SectionTypes ==
    ASSUME NEW m \in RelImage
    PROVE  /\ Len(m.sections) \in Nat /\ DOMAIN m.sections = 1 .. Len(m.sections)
           /\ \A s \in DOMAIN m.sections :
                  /\ m.sections[s] \in Section
                  /\ m.sections[s].alloc \in BOOLEAN
                  /\ m.sections[s].size \in Nat
                  /\ m.sections[s].align \in Nat
<1>1. m.sections \in Seq(Section)
  BY DEF RelImage
<1>2. Len(m.sections) \in Nat /\ DOMAIN m.sections = 1 .. Len(m.sections)
  BY <1>1
<1>3. \A s \in DOMAIN m.sections : m.sections[s] \in Section
  BY <1>1
<1> QED
  BY <1>2, <1>3 DEF Section

LEMMA InitIInv == Init => IInv
BY DEF Init, IInv, CallInv, RegionInv, ProtectInv, LayoutInv, Mapped, LoadPcs, NoModule,
       Unmapped

\* What every error return leaves: no module, no mapping, no call.
LEMMA FailKeeps ==
    ASSUME IInv, NEW st, FailLoad(st), ~mod.loaded
    PROVE  IInv'
BY DEF FailLoad, FreeRegion, Forget, IInv, CallInv, RegionInv, ProtectInv, LayoutInv,
       Mapped, LoadPcs, NoModule, Unmapped

LEMMA RejectKeeps ==
    ASSUME IInv, NEW st, Reject(st)
    PROVE  IInv'
BY DEF Reject, locals, IInv, CallInv, RegionInv, ProtectInv, LayoutInv, Mapped, Placed

\* A section that is placed is aligned, and after the ones before it.
LEMMA LayoutKeeps == IInv /\ LayoutSection => IInv'
<1> SUFFICES ASSUME IInv, LayoutSection PROVE IInv'
  OBVIOUS
<1> DEFINE s == img.sections[i]
           at == AlignedOffset(total, s)
<1>1. img \in RelImage /\ i \in DOMAIN img.sections /\ img \in Images
  BY ImageTypes DEF LayoutSection, Shnum, IInv, CallInv, LoadPcs, RelImage
<1>2. s \in Section
  BY <1>1 DEF RelImage
<1>3. s.align \in Nat /\ s.size \in Nat /\ s.alloc \in BOOLEAN
  BY <1>2 DEF Section
<1>4. at \in Nat /\ at >= total /\ (s.align > 1 => at % s.align = 0)
  BY <1>3, AlignedOffsetFacts DEF IInv, CallInv
<1>5. total' \in Nat
  BY <1>3, <1>4 DEF LayoutSection, IInv, CallInv
<1>6. (CallInv /\ RegionInv /\ ProtectInv)'
  BY <1>5 DEF LayoutSection, IInv, CallInv, RegionInv, ProtectInv, Mapped, LoadPcs
<1>7. s.align > 1 => (Base + at) % s.align = 0
  <2> SUFFICES ASSUME s.align > 1 PROVE (Base + at) % s.align = 0
    OBVIOUS
  <2>1. Base % s.align = 0 /\ at % s.align = 0
    BY <1>1, <1>4, AlignAssumption, ImageTypes DEF LayoutSection, IInv, CallInv, LoadPcs
  <2> HIDE DEF s, at
  <2> QED
    BY <1>3, <1>4, <2>1, ModSum, LoaderAssumption
<1>8. LayoutInv'
  <2>1. /\ pc = "layout" /\ pc' = "layout" /\ img' = img /\ mod' = mod
        /\ i \in Nat /\ i' = i + 1 /\ i < Shnum(img) /\ img.kind = "rel"
        /\ total \in Nat
    BY DEF LayoutSection, IInv, CallInv, LoadPcs
  <2>2. /\ secAddr \in [0 .. Len(img.sections) -> Nat]
        /\ \A x \in AllocSections(img) : x < i =>
               /\ img.sections[x].align > 1 =>
                      (Base + secAddr[x]) % img.sections[x].align = 0
               /\ secAddr[x] + img.sections[x].size <= total
               /\ \A y \in AllocSections(img) : x < y /\ y < i =>
                      secAddr[x] + img.sections[x].size <= secAddr[y]
    BY <2>1 DEF IInv, LayoutInv, Placed, LoadPcs
  <2>3. \A x \in AllocSections(img) : x \in 1 .. Len(img.sections)
                                      /\ img.sections[x].size \in Nat
    BY <1>1, SectionTypes DEF AllocSections
  <2>4. Len(img.sections) \in Nat /\ i \in 1 .. Len(img.sections)
    BY <1>1 DEF RelImage
  <2>5. CASE s.alloc
    <3>1. secAddr' = [secAddr EXCEPT ![i] = at] /\ total' = at + s.size
      BY <2>5 DEF LayoutSection
    <3> HIDE DEF s, at
    <3>2. secAddr' \in [0 .. Len(img.sections) -> Nat]
      BY <3>1, <1>4, <2>2
    <3>3. secAddr'[i] = at /\ \A x \in AllocSections(img) : x < i => secAddr'[x] = secAddr[x]
      BY <3>1, <2>2, <2>3, <2>4
    <3>4. ASSUME NEW x \in AllocSections(img), x < i + 1
          PROVE  /\ img.sections[x].align > 1 =>
                        (Base + secAddr'[x]) % img.sections[x].align = 0
                 /\ secAddr'[x] + img.sections[x].size <= total'
      <4>1. CASE x = i
        BY <4>1, <3>1, <3>3, <1>3, <1>4, <1>7 DEF s
      <4>2. CASE x < i
        <5>1. /\ img.sections[x].align > 1 =>
                     (Base + secAddr[x]) % img.sections[x].align = 0
              /\ secAddr[x] + img.sections[x].size <= total
          BY <4>2, <2>2
        <5>2. secAddr'[x] = secAddr[x]
          BY <4>2, <3>3
        <5>3. secAddr[x] \in Nat /\ img.sections[x].size \in Nat
          BY <2>2, <2>3
        <5>4. secAddr[x] + img.sections[x].size <= total'
          BY <5>1, <5>3, <3>1, <1>3, <1>4, <2>1
        <5> QED
          BY <5>1, <5>2, <5>4
      <4> QED
        BY <4>1, <4>2, <3>4, <2>3, <2>4
    <3>5. ASSUME NEW x \in AllocSections(img), NEW y \in AllocSections(img),
                 x < y, y < i + 1
          PROVE  secAddr'[x] + img.sections[x].size <= secAddr'[y]
      <4>1. x < i
        BY <3>5, <2>3, <2>4
      <4>2. CASE y = i
        <5>1. secAddr[x] + img.sections[x].size <= total
          BY <4>1, <2>2
        <5>2. secAddr'[x] = secAddr[x] /\ secAddr'[y] = at
          BY <4>1, <4>2, <3>3
        <5>3. secAddr[x] + img.sections[x].size \in Nat /\ at \in Nat /\ total <= at
          BY <2>1, <2>2, <2>3, <1>4
        <5> QED
          BY <5>1, <5>2, <5>3, <2>1
      <4>3. CASE y < i
        BY <4>1, <4>3, <3>5, <2>2, <3>3
      <4> QED
        BY <4>2, <4>3, <3>5, <2>3, <2>4
    <3> QED
      BY <2>1, <2>4, <3>2, <3>4, <3>5 DEF LayoutInv, Placed, Shnum
  <2>6. CASE ~s.alloc
    <3>1. UNCHANGED <<secAddr, total>>
      BY <2>6 DEF LayoutSection
    <3>2. i \notin AllocSections(img)
      BY <2>6 DEF AllocSections
    <3>3. \A x \in AllocSections(img) : x < i + 1 => x < i
      BY <3>2, <2>3, <2>4
    <3> QED
      BY <2>1, <2>2, <2>4, <3>1, <3>3 DEF LayoutInv, Placed, Shnum
  <2> QED
    BY <2>5, <2>6
<1> QED
  BY <1>6, <1>8 DEF IInv

------------------------------------------------------------------------------
LEMMA MappingKeeps ==
    ASSUME NEW n \in Nat, n > 0, MapRegion(n)
    PROVE  pages' \in [0 .. NumPages(n) - 1 -> Perms]
BY DEF MapRegion, Perms

LEMMA PageTargetSafe == \A p : PageTarget(p) \in Perms \ {"RWX"}
BY DEF PageTarget, SplitFlags, PageFlags, Perms

\* When the loop over the pages ends, none is left as vmm_alloc made it.
LEMMA AllPagesDone ==
    ASSUME IInv, pc = "wx", ~MorePages
    PROVE  \A p \in DOMAIN pages : pages[p] # "RWX"
<1>1. NumPages(total) \in Nat
  BY NumPagesFacts DEF IInv, CallInv
<1>2. DOMAIN pages = 0 .. NumPages(total) - 1
  BY DEF IInv, RegionInv, Mapped, LoadPcs
<1>3. \A p \in DOMAIN pages : p < i
  BY <1>1, <1>2 DEF MorePages, IInv, CallInv
<1> QED
  BY <1>3 DEF IInv, ProtectInv

LEMMA NextKeeps == IInv /\ [Next]_vars => IInv'
<1> SUFFICES ASSUME IInv, [Next]_vars PROVE IInv'
  OBVIOUS
<1> USE DEF IInv, CallInv, RegionInv, ProtectInv, LayoutInv, Mapped, Placed, LoadPcs
<1>1. ASSUME NEW m \in Images, RefuseExec(m) PROVE IInv'
  BY <1>1, RejectKeeps DEF RefuseExec
<1>2. ASSUME NEW m \in Images, LoadExec(m) PROVE IInv'
  <2>1. m.size \in Nat /\ m.size > 0
    BY <1>2, ImageTypes DEF LoadExec, ExecImage
  <2>2. pages' \in [0 .. NumPages(m.size) - 1 -> Perms]
    BY <1>2, <2>1, MappingKeeps DEF LoadExec
  <2> QED
    BY <1>2, <2>1, <2>2 DEF LoadExec
<1>3. ASSUME NEW m \in Images, RefuseRel(m) PROVE IInv'
  BY <1>3, RejectKeeps DEF RefuseRel
<1>4. ASSUME NEW m \in Images, LoadRel(m) PROVE IInv'
  <2>1. CASE m.header = "bad"
    BY <1>4, <2>1 DEF LoadRel, locals
  <2>2. CASE m.header # "bad"
    <3>1. m \in RelImage
      BY <1>4, ImageTypes DEF LoadRel
    <3>2. \A s \in AllocSections(m) : s \in Nat /\ ~(s < 1)
      BY <3>1, SectionTypes DEF AllocSections
    <3>3. Len(m.sections) \in Nat /\ 1 <= Shnum(m)
      BY <3>1, SectionTypes DEF Shnum
    <3>4. /\ pc' = "layout" /\ img' = m /\ i' = 1 /\ total' = 0
          /\ secAddr' = [s \in 0 .. Len(m.sections) |-> 0]
          /\ mod' = mod /\ pages' = pages /\ patched' = patched
          /\ ~mod.loaded /\ pc = "idle" /\ m.kind = "rel"
      BY <1>4, <2>2 DEF LoadRel
    <3> QED
      BY <3>2, <3>3, <3>4
  <2> QED
    BY <2>1, <2>2
<1>5. CASE LayoutSection \/ SyncBlob
  BY <1>5, LayoutKeeps DEF SyncBlob
<1>6. CASE RefuseMap
  BY <1>6 DEF RefuseMap, Forget
<1>7. CASE MapRel
  <2>1. pages' \in [0 .. NumPages(total) - 1 -> Perms]
    BY <1>7, MappingKeeps DEF MapRel
  <2> QED
    BY <1>7, <2>1 DEF MapRel
<1>8. CASE CopySections
  BY <1>8, FailKeeps DEF CopySections, FailPlain
<1>9. CASE AllocResolved
  BY <1>9 DEF AllocResolved
<1>10. CASE CallocFails
  BY <1>10, FailKeeps DEF CallocFails, FailPlain
<1>11. CASE ProbeImport
  <2>1. /\ pc = "resolve" /\ pc' \in {"resolve", "bind"} /\ i' \in {i, i + 1}
        /\ UNCHANGED <<mod, pages, patched, img, secAddr, total>>
    BY <1>11 DEF ProbeImport
  <2> QED
    BY <2>1
<1>12. CASE BindImport
  BY <1>12, FailKeeps DEF BindImport, FailFreeing, StoreImport
<1>13. CASE EndResolve
  BY <1>13 DEF EndResolve
<1>14. CASE RelocSection
  BY <1>14, FailKeeps DEF RelocSection, FailFreeing, FailLeaking
<1>15. CASE EndReloc
  <2>1. CASE FindEntry(img, Base, secAddr) = NULL
    BY <1>15, <2>1, FailKeeps DEF EndReloc, FailFreeing
  <2>2. CASE FindEntry(img, Base, secAddr) # NULL
    <3>1. /\ pc = "reloc" /\ pc' = "wx" /\ i' = 0
          /\ UNCHANGED <<mod, pages, patched, img, secAddr, total>>
      BY <1>15, <2>2 DEF EndReloc
    <3> QED
      BY <3>1
  <2> QED
    BY <2>1, <2>2
<1>16. CASE ProtectPage
  BY <1>16, PageTargetSafe DEF ProtectPage, MorePages
<1>17. CASE ProtectFails
  BY <1>17, FailKeeps DEF ProtectFails, FailPlain
<1>18. CASE CommitExec
  <2>1. /\ pc = "wx" /\ pc' = "idle" /\ img.kind = "exec"
        /\ mod'.loaded = TRUE /\ mod'.size = NumPages(total) * PageSize
        /\ UNCHANGED <<pages, patched, img, i, secAddr, total>>
    BY <1>18 DEF CommitExec, Commit
  <2>2. \A p \in DOMAIN pages : pages[p] # "RWX"
    BY <1>18, AllPagesDone DEF CommitExec
  <2> QED
    BY <2>1, <2>2
<1>19. CASE EndProtect
  <2>1. /\ pc = "wx" /\ pc' = "index" /\ i' = 1 /\ img.kind = "rel"
        /\ UNCHANGED <<mod, pages, patched, img, secAddr, total>>
    BY <1>19 DEF EndProtect
  <2>2. \A p \in DOMAIN pages : pages[p] # "RWX"
    BY <1>19, AllPagesDone DEF EndProtect
  <2> QED
    BY <2>1, <2>2
<1>20. CASE IndexSymbol
  BY <1>20 DEF IndexSymbol
<1>21. CASE IndexFull
  BY <1>21, FailKeeps DEF IndexFull, FailPlain
<1>22. CASE CommitRel
  BY <1>22 DEF CommitRel, Commit
<1>23. CASE Unload
  <2>1. CASE mod.loaded
    <3>1. /\ pc' = "idle" /\ i' = 0 /\ total' = 0 /\ mod' = NoModule
          /\ pages' = Unmapped /\ patched' = {}
      BY <1>23, <2>1 DEF Unload, FreeRegion, Forget, Reject
    <3> QED
      BY <3>1 DEF NoModule
  <2>2. CASE ~mod.loaded
    BY <1>23, <2>2, RejectKeeps DEF Unload
  <2> QED
    BY <2>1, <2>2
<1>24. CASE Run
  BY <1>24, RejectKeeps DEF Run
<1>25. CASE Return
  BY <1>25 DEF Return
<1>26. CASE ExportChange
  BY <1>26 DEF ExportChange, locals
<1>27. CASE UNCHANGED vars
  BY <1>27 DEF vars, locals
<1> QED
  BY <1>1, <1>2, <1>3, <1>4, <1>5, <1>6, <1>7, <1>8, <1>9, <1>10, <1>11, <1>12, <1>13,
     <1>14, <1>15, <1>16, <1>17, <1>18, <1>19, <1>20, <1>21, <1>22, <1>23, <1>24,
     <1>25, <1>26, <1>27 DEF Next, Call, LoadStep

THEOREM Invariance == Spec => []IInv
<1>1. Init => IInv
  BY InitIInv
<1>2. IInv /\ [Next]_vars => IInv'
  BY NextKeeps
<1> QED
  BY <1>1, <1>2, PTL DEF Spec

\* Between calls the region is told by modloader_mod.
LEMMA RegionFollows == IInv => MappedIffLoaded
<1> SUFFICES ASSUME IInv, pc \in {"idle", "running"}
             PROVE  /\ DOMAIN pages = IF mod.loaded THEN 0 .. (mod.size \div PageSize) - 1
                                      ELSE {}
                    /\ ~mod.loaded => mod = NoModule /\ patched = {}
                    /\ mod.loaded => pages # Unmapped
  BY DEF MappedIffLoaded
<1>1. CASE mod.loaded
  <2>1. NumPages(total) \in Nat /\ NumPages(total) > 0
    BY <1>1, NumPagesFacts DEF IInv, CallInv, RegionInv, Mapped
  <2>2. DOMAIN pages = 0 .. NumPages(total) - 1
    BY <1>1 DEF IInv, RegionInv, Mapped
  <2>3. mod.size \div PageSize = NumPages(total)
    BY <1>1, <2>1, DivMul, PageAssumption DEF IInv, RegionInv
  <2>4. 0 \in DOMAIN pages
    BY <2>1, <2>2
  <2>5. pages # Unmapped
    <3>1. DOMAIN Unmapped = {}
      BY DEF Unmapped
    <3> QED
      BY <2>4, <3>1
  <2> QED
    BY <1>1, <2>2, <2>3, <2>5
<1>2. CASE ~mod.loaded
  BY <1>2 DEF IInv, CallInv, RegionInv, Mapped, LoadPcs, Unmapped
<1> QED
  BY <1>1, <1>2

\* Between calls the region is mapped whole exactly when a module is resident,
\* for whatever images are loaded and whichever step of a load fails: no error
\* return of the loader leaves a mapping behind.
THEOREM RegionSafety == Spec => []MappedIffLoaded
<1> QED
  BY RegionFollows, Invariance, PTL

\* Once the loop over the pages is over, none is both.
LEMMA WxFollows == IInv => ResidentIsWx
<1> SUFFICES ASSUME IInv, mod.loaded PROVE WxVerify = NO_ERROR
  BY DEF ResidentIsWx
<1>1. NumPages(total) \in Nat
  BY NumPagesFacts DEF IInv, CallInv
<1>2. mod.size \div PageSize = NumPages(total)
  BY <1>1, DivMul, PageAssumption DEF IInv, RegionInv
<1>3. DOMAIN pages = 0 .. NumPages(total) - 1
  BY DEF IInv, RegionInv, Mapped
<1>4. \A p \in DOMAIN pages : pages[p] # "RWX"
  BY DEF IInv, ProtectInv
<1> QED
  BY <1>2, <1>3, <1>4 DEF WxVerify

\* Every module that becomes resident passes modloader_wx_verify, and goes on
\* passing it.
THEOREM WxSafety == Spec => []ResidentIsWx
<1> QED
  BY WxFollows, Invariance, PTL

\* The whole layout, and the pages it takes.
LEMMA LayoutFollows == IInv => LayoutSound
<1> SUFFICES ASSUME IInv, pc \in LoadPcs \ {"layout"} \/ mod.loaded, img.kind = "rel",
                    NEW s \in AllocSections(img)
             PROVE  /\ img.sections[s].align > 1 =>
                           (Base + secAddr[s]) % img.sections[s].align = 0
                    /\ secAddr[s] + img.sections[s].size
                           <= Cardinality(DOMAIN pages) * PageSize
                    /\ \A t \in AllocSections(img) :
                           s < t => secAddr[s] + img.sections[s].size <= secAddr[t]
  BY DEF LayoutSound
<1>1. img \in RelImage
  BY ImageTypes DEF IInv, CallInv
<1>2. \A t \in AllocSections(img) : t \in 1 .. Len(img.sections)
                                    /\ img.sections[t].size \in Nat
  BY <1>1, SectionTypes DEF AllocSections
<1>3. Len(img.sections) \in Nat
  BY <1>1, SectionTypes
<1>4. pc # "layout"
  BY DEF IInv, CallInv
<1>5. \A t \in AllocSections(img) : t < Placed
  BY <1>2, <1>3, <1>4 DEF Placed, Shnum
<1>6. /\ img.sections[s].align > 1 => (Base + secAddr[s]) % img.sections[s].align = 0
      /\ secAddr[s] + img.sections[s].size <= total
      /\ \A t \in AllocSections(img) :
             s < t => secAddr[s] + img.sections[s].size <= secAddr[t]
  BY <1>5 DEF IInv, LayoutInv
<1>7. NumPages(total) \in Nat /\ NumPages(total) * PageSize >= total
  BY NumPagesFacts DEF IInv, CallInv
<1>8. Cardinality(DOMAIN pages) = NumPages(total)
  <2>1. DOMAIN pages = 0 .. NumPages(total) - 1
    BY DEF IInv, RegionInv, Mapped
  <2>2. Cardinality(0 .. NumPages(total) - 1) = NumPages(total)
    BY <1>7, FS_Interval
  <2> QED
    BY <2>1, <2>2
<1>9. secAddr[s] \in Nat /\ total \in Nat
  BY <1>2, <1>3 DEF IInv, LayoutInv, CallInv
<1>10. PageSize \in Nat
  BY PageAssumption
<1>11. secAddr[s] + img.sections[s].size <= NumPages(total) * PageSize
  <2> DEFINE n == NumPages(total) * PageSize
  <2>1. n \in Nat
    BY <1>7, <1>10
  <2> HIDE DEF n
  <2> QED
    BY <1>2, <1>6, <1>7, <1>9, <2>1 DEF n
<1> QED
  BY <1>6, <1>8, <1>11

\* The layout of every image is aligned, without overlap and inside the
\* mapping, for any number of sections of any size and alignment.
THEOREM LayoutSafety == Spec => []LayoutSound
<1> QED
  BY LayoutFollows, Invariance, PTL
------------------------------------------------------------------------------
\* A step that leaves a resident module in place touches nothing of it: a load
\* refuses to start while there is one, and steps of a load come only after.
THEOREM ResidentSafety == Spec => ResidentUntouched
<1>1. IInv /\ [Next]_vars =>
          [mod.loaded /\ mod' # NoModule =>
              UNCHANGED <<mod, pages, index, patched, img, secAddr>>]_vars
  <2> SUFFICES ASSUME IInv, Next, mod.loaded, mod' # NoModule
               PROVE  UNCHANGED <<mod, pages, index, patched, img, secAddr>>
    OBVIOUS
  <2>1. pc \notin LoadPcs
    BY DEF IInv, CallInv
  <2>2. ~LoadStep
    BY <2>1 DEF LoadStep, LoadPcs, SyncBlob, LayoutSection, RefuseMap, MapRel, CopySections,
       AllocResolved, CallocFails, ProbeImport, BindImport, EndResolve, RelocSection,
       EndReloc, ProtectPage, ProtectFails, CommitExec, EndProtect, IndexSymbol,
       IndexFull, CommitRel
  <2>3. ASSUME NEW m \in Images, RefuseExec(m) \/ LoadExec(m) \/ RefuseRel(m) \/ LoadRel(m)
        PROVE  UNCHANGED <<mod, pages, index, patched, img, secAddr>>
    BY <2>3 DEF RefuseExec, LoadExec, RefuseRel, LoadRel, Reject, locals
  <2>4. CASE Unload
    BY <2>4 DEF Unload
  <2>5. CASE Run
    BY <2>5 DEF Run, Reject, locals
  <2>6. CASE Return
    BY <2>6 DEF Return
  <2>7. CASE ExportChange
    BY <2>7 DEF ExportChange, locals
  <2> QED
    BY <2>2, <2>3, <2>4, <2>5, <2>6, <2>7 DEF Next, Call
<1> QED
  BY <1>1, Invariance, PTL DEF Spec, ResidentUntouched

------------------------------------------------------------------------------
\* sym_resolved is in use while imports are resolved and relocations applied,
\* and each buffer more than that one was lost by a return that is counted.
BufferInv ==
    /\ heap \in Nat /\ lost \in Nat
    /\ resolved # NoBuffer => heap > 0
    /\ resolved # NoBuffer => pc \in {"resolve", "bind", "reloc"}
    /\ pc \in {"resolve", "bind"} =>
           img.symbols # << >> /\ DOMAIN resolved = DOMAIN img.symbols
    /\ heap <= IF resolved = NoBuffer THEN lost ELSE lost + 1

\* The returns that free the buffer, and those that have none, lose none.
LEMMA FreeingKeeps ==
    ASSUME BufferInv, NEW st, FailFreeing(st)
    PROVE  BufferInv'
BY DEF BufferInv, FailFreeing, FailLoad, FreeBuffer, Forget, NoBuffer

LEMMA PlainKeeps ==
    ASSUME BufferInv, NEW st, FailPlain(st), resolved = NoBuffer
    PROVE  BufferInv'
BY DEF BufferInv, FailPlain, FailLoad, Forget, NoBuffer

LEMMA SymbolDomain ==
    ASSUME NEW m \in RelImage, m.symbols # << >>
    PROVE  DOMAIN m.symbols # {}
<1>1. m.symbols \in Seq(Symbol)
  BY DEF RelImage
<1> DEFINE q == m.symbols
<1> HIDE DEF q
<1>2. q \in Seq(Symbol) /\ q # << >> => DOMAIN q # {}
  OBVIOUS
<1> QED
  BY <1>1, <1>2 DEF q

LEMMA BufferKeeps == IInv /\ BufferInv /\ [Next]_vars => BufferInv'
<1> SUFFICES ASSUME IInv, BufferInv, [Next]_vars PROVE BufferInv'
  OBVIOUS
<1> USE DEF BufferInv
<1>1. ASSUME NEW m \in Images, RefuseExec(m) \/ LoadExec(m) \/ RefuseRel(m) \/ LoadRel(m)
      PROVE  BufferInv'
  BY <1>1 DEF RefuseExec, LoadExec, RefuseRel, LoadRel, Reject, locals
<1>2. CASE SyncBlob \/ LayoutSection
  BY <1>2 DEF SyncBlob, LayoutSection
<1>3. CASE RefuseMap
  BY <1>3 DEF RefuseMap, Forget, NoBuffer
<1>4. CASE MapRel
  BY <1>4 DEF MapRel
<1>5. CASE CopySections
  BY <1>5, PlainKeeps DEF CopySections
<1>6. CASE AllocResolved
  <2>1. pc = "calloc" /\ img \in RelImage
    BY <1>6, ImageTypes DEF AllocResolved, IInv, CallInv, LoadPcs
  <2>2. CASE img.symbols = << >>
    BY <1>6, <2>1, <2>2 DEF AllocResolved
  <2>3. CASE img.symbols # << >>
    <3>1. /\ heap' = heap + 1 /\ lost' = lost /\ img' = img /\ pc' = "resolve"
          /\ resolved' = [k \in DOMAIN img.symbols |-> NULL]
      BY <1>6, <2>3 DEF AllocResolved
    <3>2. DOMAIN img.symbols # {}
      BY <2>1, <2>3, SymbolDomain
    <3>3. resolved' # NoBuffer
      BY <3>1, <3>2 DEF NoBuffer
    <3> QED
      BY <2>1, <2>3, <3>1, <3>3
  <2> QED
    BY <2>2, <2>3
<1>7. CASE CallocFails
  BY <1>7, PlainKeeps DEF CallocFails
<1>8. CASE ProbeImport
  <2>1. /\ pc = "resolve" /\ pc' \in {"resolve", "bind"}
        /\ UNCHANGED <<heap, lost, resolved, img>>
    BY <1>8 DEF ProbeImport
  <2> QED
    BY <2>1
<1>9. CASE BindImport
  <2>1. CASE FailFreeing(NOT_FOUND)
    BY <2>1, FreeingKeeps
  <2>2. CASE StoreImport
    <3>1. /\ pc = "bind" /\ pc' = "resolve"
          /\ resolved' = [resolved EXCEPT ![i] = ImportAddr]
          /\ UNCHANGED <<heap, lost, img>>
      BY <1>9, <2>2 DEF StoreImport, BindImport
    <3>2. img \in RelImage
      BY <3>1, ImageTypes DEF IInv, CallInv, LoadPcs
    <3>3. DOMAIN img.symbols # {}
      BY <3>1, <3>2, SymbolDomain
    <3>4. DOMAIN resolved' = DOMAIN resolved
      BY <3>1
    <3>5. resolved # NoBuffer /\ resolved' # NoBuffer
      BY <3>1, <3>3, <3>4 DEF NoBuffer
    <3> QED
      BY <3>1, <3>4, <3>5
  <2> QED
    BY <1>9, <2>1, <2>2 DEF BindImport
<1>10. CASE EndResolve
  BY <1>10 DEF EndResolve
<1>11. CASE RelocSection
  <2>1. ASSUME NEW st, FailLeaking(st) PROVE BufferInv'
    BY <2>1 DEF FailLeaking, FailLoad, Forget, NoBuffer
  <2> QED
    BY <1>11, <2>1, FreeingKeeps DEF RelocSection
<1>12. CASE EndReloc
  BY <1>12, FreeingKeeps DEF EndReloc, FreeBuffer
<1>13. CASE ProtectPage \/ ProtectFails \/ CommitExec \/ EndProtect
  BY <1>13, PlainKeeps DEF ProtectPage, ProtectFails, CommitExec, EndProtect, Commit
<1>14. CASE IndexSymbol \/ IndexFull \/ CommitRel
  BY <1>14, PlainKeeps DEF IndexSymbol, IndexFull, CommitRel, Commit
<1>15. CASE Unload
  BY <1>15 DEF Unload, Reject, locals, Forget, NoBuffer
<1>16. CASE Run
  BY <1>16 DEF Run, Reject, locals
<1>17. CASE Return
  BY <1>17 DEF Return
<1>18. CASE ExportChange
  BY <1>18 DEF ExportChange, locals
<1>19. CASE UNCHANGED vars
  BY <1>19 DEF vars, locals
<1> QED
  BY <1>1, <1>2, <1>3, <1>4, <1>5, <1>6, <1>7, <1>8, <1>9, <1>10, <1>11, <1>12, <1>13,
     <1>14, <1>15, <1>16, <1>17, <1>18, <1>19 DEF Next, Call, LoadStep

\* Between calls no buffer is in use.
LEMMA BuffersFollow == BufferInv => BuffersFreed
BY DEF BufferInv, BuffersFreed

\* Whatever images are loaded and wherever a load fails, sym_resolved is freed,
\* but by the two returns of lines 484-487 and 494-497.
THEOREM BufferSafety == Spec => []BuffersFreed
<1>1. Init => BufferInv
  BY DEF Init, BufferInv, NoBuffer
<1> QED
  BY <1>1, BuffersFollow, BufferKeeps, Invariance, PTL DEF Spec

------------------------------------------------------------------------------
(***************************************************************************)
(* Type correctness.  What has to be shown is that every address the       *)
(* loader computes from an image it does not trust is one: the numbers it  *)
(* indexes sec_addr and sym_resolved with are in their range.              *)
(***************************************************************************)
Modules == [loaded : BOOLEAN, wx : BOOLEAN, kind : {"none", "exec", "rel"},
            base : {NULL, Base}, size : Nat, entry : Nat]
IndexEntries == [name : Names, addr : Nat \ {NULL}]
PatchSet == [sec : Nat, offset : Nat, value : Nat]

TypeInv ==
    /\ mod \in Modules
    /\ dirty \in BOOLEAN /\ isFunc \in BOOLEAN
    /\ index \in Seq(IndexEntries)
    /\ dyn \in Tables(ExportNames, Nat) /\ Distinct(dyn)
    /\ result \in Statuses
    /\ entry \in Nat
    /\ pc \notin LoadPcs /\ ~mod.loaded => img = NoImage
    /\ img.kind # "rel" => secAddr = << >>
    /\ pc \in {"resolve", "bind", "reloc"} => resolved \in [DOMAIN img.symbols -> Nat]
    /\ patched \subseteq PatchSet

------------------------------------------------------------------------------
LEMMA Bit0Types == \A a \in Nat : SetBit0(a) \in Nat /\ ClearBit0(a) \in Nat
BY DEF SetBit0, ClearBit0

LEMMA SymbolTypes ==
    ASSUME NEW m \in RelImage, NEW k \in DOMAIN m.symbols
    PROVE  /\ k \in Nat
           /\ m.symbols[k].shndx \in Nat /\ m.symbols[k].value \in Nat
<1>1. m.symbols \in Seq(Symbol)
  BY DEF RelImage
<1>2. m.symbols[k] \in Symbol /\ k \in Nat
  BY <1>1
<1> QED
  BY <1>2 DEF Symbol

LEMMA DefinedAddrType ==
    ASSUME NEW m \in RelImage, NEW k \in DOMAIN m.symbols,
           NEW off \in [0 .. Len(m.sections) -> Nat],
           m.symbols[k].shndx < Shnum(m)
    PROVE  DefinedAddr(m.symbols[k], Base, off) \in Nat
<1> DEFINE sym == m.symbols[k]
<1>1. sym.shndx \in Nat /\ sym.value \in Nat /\ sym.shndx < Shnum(m)
  BY SymbolTypes
<1>2. sym.shndx \in 0 .. Len(m.sections)
  BY <1>1, SectionTypes DEF Shnum
<1>3. off[sym.shndx] \in Nat /\ ClearBit0(sym.value) \in Nat /\ Base \in Nat
  BY <1>1, <1>2, Bit0Types, LoaderAssumption
<1> HIDE DEF sym
<1>4. Base + off[sym.shndx] + ClearBit0(sym.value) \in Nat
  BY <1>3
<1>5. DefinedAddr(sym, Base, off) \in Nat
  BY <1>4, Bit0Types DEF DefinedAddr
<1> QED
  BY <1>5 DEF sym

LEMMA SymValueType ==
    ASSUME NEW m \in Images, m \in RelImage, m.kind = "rel", NEW k \in DOMAIN m.symbols,
           NEW off \in [0 .. Len(m.sections) -> Nat]
    PROVE  SymValue(m, m.symbols[k], Base, off) \in Nat
<1> DEFINE sym == m.symbols[k]
<1>1. sym.shndx \in Nat /\ sym.value \in Nat
  BY SymbolTypes
<1>2. sym.type = "section" => sym.value \in 0 .. Len(m.sections)
  BY <1>1, SymbolAssumption, SectionTypes DEF Shnum
<1>3. sym.type = "section" => Base + off[sym.value] \in Nat
  BY <1>2, LoaderAssumption
<1>4. sym.shndx < Shnum(m) => DefinedAddr(sym, Base, off) \in Nat
  BY DefinedAddrType
<1>5. sym.shndx >= Shnum(m) \/ sym.shndx < Shnum(m)
  BY <1>1, SectionTypes DEF Shnum
<1> HIDE DEF sym
<1>6. SymValue(m, sym, Base, off) \in Nat
  BY <1>1, <1>3, <1>4, <1>5 DEF SymValue, NULL
<1> QED
  BY <1>6 DEF sym

LEMMA RelocStatusType == \A m, r : RelocStatus(m, r) \in Statuses
BY DEF RelocStatus, Statuses

LEMMA RelocValueType ==
    ASSUME NEW m \in Images, m \in RelImage, m.kind = "rel", NEW r \in Reloc,
           RelocStatus(m, r) = NO_ERROR,
           NEW off \in [0 .. Len(m.sections) -> Nat],
           NEW imports \in [DOMAIN m.symbols -> Nat]
    PROVE  RelocValue(m, r, Base, off, imports) \in Nat
<1>1. CASE r.type = "relative"
  BY <1>1, LoaderAssumption DEF RelocValue
<1>2. CASE r.type # "relative"
  <2>1. r.sym \in DOMAIN m.symbols
    BY <1>2 DEF RelocStatus, NO_ERROR, NOT_VALID
  <2>2. SymValue(m, m.symbols[r.sym], Base, off) \in Nat
    BY <2>1, SymValueType
  <2>3. RelocSymbol(m, r, Base, off, imports) \in Nat
    BY <2>1, <2>2 DEF RelocSymbol
  <2> QED
    BY <1>2, <2>3, Bit0Types DEF RelocValue
<1> QED
  BY <1>1, <1>2

LEMMA PatchesType ==
    ASSUME NEW m \in Images, m \in RelImage, m.kind = "rel", NEW s \in Section,
           BadRelocs(m, s) = {},
           NEW off \in [0 .. Len(m.sections) -> Nat],
           NEW imports \in [DOMAIN m.symbols -> Nat]
    PROVE  Patches(m, s, off, imports) \subseteq PatchSet
<1>1. s.rels \in Seq(Reloc) /\ s.info \in Nat
  BY DEF Section
<1>2. ASSUME NEW k \in DOMAIN s.rels
      PROVE  /\ s.rels[k].offset \in Nat
             /\ RelocValue(m, s.rels[k], Base, off, imports) \in Nat
  <2>1. s.rels[k] \in Reloc
    BY <1>1, <1>2
  <2>2. RelocStatus(m, s.rels[k]) = NO_ERROR
    BY <1>2 DEF BadRelocs
  <2> QED
    BY <2>1, <2>2, RelocValueType DEF Reloc
<1> QED
  BY <1>1, <1>2 DEF Patches, PatchSet

LEMMA FindEntryType ==
    ASSUME NEW m \in RelImage, NEW off \in [0 .. Len(m.sections) -> Nat]
    PROVE  FindEntry(m, Base, off) \in Nat
<1>1. CASE EntrySymbols(m) = {}
  BY <1>1 DEF FindEntry, NULL
<1>2. CASE EntrySymbols(m) # {}
  <2> DEFINE k == Min(EntrySymbols(m))
  <2>1. EntrySymbols(m) \in SUBSET Nat /\ EntrySymbols(m) \subseteq DOMAIN m.symbols
    BY SymbolTypes DEF EntrySymbols
  <2>2. k \in DOMAIN m.symbols
    BY <1>2, <2>1, MinFacts
  <2>3. m.symbols[k].shndx \in Nat
    BY <2>2, SymbolTypes
  <2>4. m.symbols[k].shndx < Shnum(m) => DefinedAddr(m.symbols[k], Base, off) \in Nat
    BY <2>2, DefinedAddrType
  <2>5. m.symbols[k].shndx >= Shnum(m) \/ m.symbols[k].shndx < Shnum(m)
    BY <2>3, SectionTypes DEF Shnum
  <2> HIDE DEF k
  <2> QED
    BY <2>4, <2>5 DEF FindEntry, NULL, k
<1> QED
  BY <1>1, <1>2
------------------------------------------------------------------------------
LEMMA InitTypes == Init => TypeInv
<1> SUFFICES ASSUME Init PROVE TypeInv
  OBVIOUS
<1>1. dyn \in Tables(ExportNames, Nat) /\ Distinct(dyn)
  BY NoExportsFacts DEF Init
<1>2. NO_ERROR \in Statuses /\ << >> \in Seq(IndexEntries)
  BY DEF Statuses
<1> QED
  BY <1>1, <1>2 DEF Init, TypeInv, Modules, NoModule, NoImage, LoadPcs, NULL

LEMMA FailTypes ==
    ASSUME TypeInv, NEW st \in Statuses, FailLoad(st)
    PROVE  TypeInv'
BY DEF TypeInv, FailLoad, FreeRegion, Forget, NoImage, NULL

LEMMA RejectTypes ==
    ASSUME TypeInv, NEW st \in Statuses, Reject(st)
    PROVE  TypeInv'
BY DEF TypeInv, Reject, locals

LEMMA ErrorTypes ==
    {NO_ERROR, NOT_VALID, ALREADY_EXISTS, NO_MEMORY, NOT_FOUND, NOT_READY, MMU_ERROR}
        \subseteq Statuses
BY DEF Statuses

\* A call that begins.
LEMMA CallTypes ==
    ASSUME IInv, TypeInv, NEW m \in Images,
           RefuseExec(m) \/ LoadExec(m) \/ RefuseRel(m) \/ LoadRel(m)
    PROVE  TypeInv'
<1>1. CASE RefuseExec(m) \/ RefuseRel(m)
  BY <1>1, RejectTypes, ErrorTypes DEF RefuseExec, RefuseRel
<1>2. CASE LoadExec(m)
  <2>1. m.entry \in Nat /\ m.kind # "rel"
    BY <1>2, ImageTypes DEF LoadExec, ExecImage
  <2>2. img.kind # "rel"
    BY <1>2 DEF LoadExec, TypeInv, LoadPcs, NoImage
  <2> QED
    BY <1>2, <2>1, <2>2 DEF LoadExec, TypeInv, LoadPcs
<1>3. CASE LoadRel(m)
  <2>1. << >> \in Seq(IndexEntries)
    OBVIOUS
  <2>2. CASE m.header = "bad"
    BY <1>3, <2>1, <2>2, ErrorTypes DEF LoadRel, ClearSymbols, locals, TypeInv
  <2>3. CASE m.header # "bad"
    <3>1. /\ pc' = "layout" /\ img' = m /\ m.kind = "rel" /\ index' = << >>
          /\ UNCHANGED <<mod, dirty, isFunc, dyn, result, entry, patched>>
      BY <1>3, <2>3 DEF LoadRel, ClearSymbols
    <3> QED
      BY <2>1, <3>1 DEF TypeInv, LoadPcs
  <2> QED
    BY <2>2, <2>3
<1> QED
  BY <1>1, <1>2, <1>3

\* A relocation section.
LEMMA RelocTypes ==
    ASSUME IInv, TypeInv, RelocSection
    PROVE  TypeInv'
<1> DEFINE s == img.sections[i]
           bad == BadRelocs(img, s)
<1>1. /\ pc = "reloc" /\ i \in DOMAIN img.sections /\ img \in Images /\ img \in RelImage
      /\ img.kind = "rel"
  BY ImageTypes, SectionTypes DEF RelocSection, Shnum, IInv, CallInv, LoadPcs
<1>2. s \in Section
  BY <1>1, SectionTypes
<1>3. CASE FailLeaking(NOT_VALID)
  BY <1>3, FailTypes, ErrorTypes DEF FailLeaking
<1>4. CASE FailFreeing(RelocStatus(img, s.rels[Min(bad)]))
  BY <1>4, FailTypes, RelocStatusType DEF FailFreeing
<1>5. CASE /\ RelocatesSection(img, s) => bad = {}
           /\ IF RelocatesSection(img, s)
              THEN /\ patched' = patched \cup Patches(img, s, secAddr, resolved)
                   /\ dirty' = TRUE
              ELSE UNCHANGED <<patched, dirty>>
           /\ UNCHANGED <<mod, index, dyn, result, pc, img, secAddr, resolved,
                          isFunc, entry>>
  <2>1. secAddr \in [0 .. Len(img.sections) -> Nat]
    BY <1>1 DEF IInv, LayoutInv, LoadPcs
  <2>2. resolved \in [DOMAIN img.symbols -> Nat]
    BY <1>1 DEF TypeInv
  <2>3. RelocatesSection(img, s) => Patches(img, s, secAddr, resolved) \subseteq PatchSet
    BY <1>1, <1>2, <1>5, <2>1, <2>2, PatchesType
  <2>4. patched' \subseteq PatchSet /\ dirty' \in BOOLEAN
    BY <1>5, <2>3 DEF TypeInv
  <2> HIDE DEF s, bad
  <2> QED
    BY <1>5, <2>4 DEF TypeInv
<1> QED
  BY <1>3, <1>4, <1>5 DEF RelocSection

\* A symbol that is indexed.
LEMMA IndexTypes ==
    ASSUME IInv, TypeInv, IndexSymbol
    PROVE  TypeInv'
<1> DEFINE sym == img.symbols[i]
<1>1. /\ pc = "index" /\ i \in DOMAIN img.symbols /\ img \in Images /\ img \in RelImage
      /\ img.kind = "rel"
  BY ImageTypes DEF IndexSymbol, IInv, CallInv, LoadPcs
<1>2. secAddr \in [0 .. Len(img.sections) -> Nat]
  BY <1>1 DEF IInv, LayoutInv, LoadPcs
<1>3. SymValue(img, sym, Base, secAddr) \in Nat
  BY <1>1, <1>2, SymValueType
<1>4. Stored[sym.name] \in Names
  BY <1>1, SymbolAssumption
<1> HIDE DEF sym
<1>5. KeepsSymbol(sym) => IndexEntry(sym) \in IndexEntries
  BY <1>3, <1>4 DEF KeepsSymbol, IndexEntry, IndexEntries
<1>6. index' = IF KeepsSymbol(sym) THEN Append(index, IndexEntry(sym)) ELSE index
  BY DEF IndexSymbol, sym
<1>7. index' \in Seq(IndexEntries)
  <2> DEFINE e == IndexEntry(sym)
  <2> HIDE DEF e
  <2>1. index \in Seq(IndexEntries) /\ e \in IndexEntries
        => Append(index, e) \in Seq(IndexEntries)
    OBVIOUS
  <2> QED
    BY <1>5, <1>6, <2>1 DEF TypeInv, e
<1> QED
  BY <1>7 DEF IndexSymbol, TypeInv

LEMMA ExportTypes ==
    ASSUME TypeInv, ExportChange
    PROVE  TypeInv'
<1>1. PICK c \in ExportCalls :
          dyn' \in {RegisterExport(dyn, c[1], c[2]), UnregisterExport(dyn, c[1])}
  BY DEF ExportChange
<1>2. c[1] \in ExportNames /\ c[2] \in Nat
  BY LoaderAssumption DEF ExportNames
<1>3. dyn' \in Tables(ExportNames, Nat) /\ Distinct(dyn')
  BY <1>1, <1>2, RegisterFacts, UnregisterFacts DEF TypeInv
<1> QED
  BY <1>3 DEF ExportChange, locals, TypeInv
------------------------------------------------------------------------------
LEMMA TypeKeeps == IInv /\ BufferInv /\ TypeInv /\ [Next]_vars => TypeInv'
<1> SUFFICES ASSUME IInv, BufferInv, TypeInv, [Next]_vars PROVE TypeInv'
  OBVIOUS
<1>1. ASSUME NEW m \in Images, RefuseExec(m) \/ LoadExec(m) \/ RefuseRel(m) \/ LoadRel(m)
      PROVE  TypeInv'
  BY <1>1, CallTypes
<1>2. CASE SyncBlob \/ LayoutSection
  <2>1. CASE SyncBlob
    BY <2>1 DEF SyncBlob, SyncCaches, TypeInv, LoadPcs
  <2>2. CASE LayoutSection
    BY <2>2 DEF LayoutSection, TypeInv, IInv, CallInv, LoadPcs
  <2> QED
    BY <1>2, <2>1, <2>2
<1>3. CASE RefuseMap
  BY <1>3, ErrorTypes DEF RefuseMap, Forget, TypeInv, NoImage, NULL
<1>4. CASE MapRel
  BY <1>4 DEF MapRel, TypeInv, LoadPcs
<1>5. CASE CopySections
  <2>1. CopyStatus(img) \in Statuses
    BY ErrorTypes DEF CopyStatus
  <2> QED
    BY <1>5, <2>1, FailTypes DEF CopySections, FailPlain, TypeInv, LoadPcs
<1>6. CASE AllocResolved
  <2>1. pc = "calloc" /\ resolved = NoBuffer
    BY <1>6 DEF AllocResolved, BufferInv
  <2>2. resolved' \in [DOMAIN img.symbols -> Nat]
    <3>1. CASE img.symbols = << >>
      <4>1. resolved' = << >>
        BY <1>6, <2>1, <3>1 DEF AllocResolved, NoBuffer
      <4>2. << >> \in [DOMAIN << >> -> Nat]
        OBVIOUS
      <4> QED
        BY <3>1, <4>1, <4>2
    <3>2. CASE img.symbols # << >>
      BY <1>6, <3>2 DEF AllocResolved, NULL
    <3> QED
      BY <3>1, <3>2
  <2> QED
    BY <1>6, <2>2 DEF AllocResolved, TypeInv, LoadPcs
<1>7. CASE CallocFails
  BY <1>7, FailTypes, ErrorTypes DEF CallocFails, FailPlain
<1>8. CASE ProbeImport
  <2>1. /\ pc = "resolve" /\ pc' \in {"resolve", "bind"} /\ isFunc' \in BOOLEAN
        /\ UNCHANGED <<mod, dirty, index, dyn, result, img, secAddr, resolved, entry,
                       patched>>
    <3>1. pc = "resolve"
      BY <1>8 DEF ProbeImport
    <3>2. isFunc' \in BOOLEAN
      BY <1>8 DEF ProbeImport, TypeInv
    <3> QED
      BY <1>8, <3>1, <3>2 DEF ProbeImport
  <2> QED
    BY <2>1 DEF TypeInv, LoadPcs
<1>9. CASE BindImport
  <2>1. CASE FailFreeing(NOT_FOUND)
    BY <2>1, FailTypes, ErrorTypes DEF FailFreeing
  <2>2. CASE StoreImport
    <3>1. ImportAddr \in Nat
      BY LookupFacts DEF ImportAddr, TypeInv
    <3>2. /\ pc = "bind" /\ pc' = "resolve" /\ img' = img
          /\ resolved' = [resolved EXCEPT ![i] = ImportAddr]
          /\ UNCHANGED <<mod, dirty, index, dyn, result, secAddr, isFunc, entry, patched>>
      BY <1>9, <2>2 DEF BindImport, StoreImport
    <3>3. resolved' \in [DOMAIN img'.symbols -> Nat]
      BY <3>1, <3>2 DEF TypeInv
    <3> QED
      BY <3>2, <3>3 DEF TypeInv, LoadPcs
  <2> QED
    BY <1>9, <2>1, <2>2 DEF BindImport
<1>10. CASE EndResolve
  BY <1>10 DEF EndResolve, TypeInv, LoadPcs
<1>11. CASE RelocSection
  BY <1>11, RelocTypes
<1>12. CASE EndReloc
  <2>1. pc = "reloc" /\ img \in RelImage /\ secAddr \in [0 .. Len(img.sections) -> Nat]
    BY <1>12, ImageTypes DEF EndReloc, IInv, CallInv, LayoutInv, LoadPcs
  <2>2. FindEntry(img, Base, secAddr) \in Nat
    BY <2>1, FindEntryType
  <2>3. CASE FindEntry(img, Base, secAddr) = NULL
    BY <1>12, <2>3, FailTypes, ErrorTypes DEF EndReloc, FailFreeing
  <2>4. CASE FindEntry(img, Base, secAddr) # NULL
    <3>1. /\ pc' = "wx" /\ entry' \in Nat
          /\ UNCHANGED <<mod, dirty, index, dyn, result, img, secAddr, isFunc, patched>>
      BY <1>12, <2>2, <2>4 DEF EndReloc
    <3> QED
      BY <3>1 DEF TypeInv, LoadPcs
  <2> QED
    BY <2>3, <2>4
<1>13. CASE ProtectPage
  BY <1>13 DEF ProtectPage, TypeInv
<1>14. CASE ProtectFails
  BY <1>14, FailTypes, ErrorTypes DEF ProtectFails, FailPlain
<1>15. CASE EndProtect
  <2>1. << >> \in Seq(IndexEntries)
    OBVIOUS
  <2> QED
    BY <1>15, <2>1 DEF EndProtect, SyncCaches, ClearSymbols, TypeInv, LoadPcs
<1>16. CASE IndexSymbol
  BY <1>16, IndexTypes
<1>17. CASE IndexFull
  BY <1>17, FailTypes, ErrorTypes DEF IndexFull, FailPlain
<1>18. CASE CommitExec \/ CommitRel
  <2>1. NumPages(total) * PageSize \in Nat
    <3>1. NumPages(total) \in Nat /\ PageSize \in Nat
      BY NumPagesFacts, PageAssumption DEF IInv, CallInv
    <3> QED
      BY <3>1
  <2>2. PICK kind \in {"exec", "rel"} :
            mod' = [loaded |-> TRUE, wx |-> TRUE, kind |-> kind, base |-> Base,
                    size |-> NumPages(total) * PageSize, entry |-> entry]
    BY <1>18 DEF CommitExec, CommitRel, Commit
  <2>3. mod' \in Modules /\ mod'.loaded
    BY <2>1, <2>2 DEF Modules, TypeInv
  <2>4. /\ result' \in Statuses /\ pc' = "idle" /\ dirty' \in BOOLEAN
        /\ UNCHANGED <<index, dyn, img, secAddr, isFunc, entry, patched>>
    <3>1. dirty' \in BOOLEAN
      BY <1>18 DEF CommitExec, CommitRel, SyncCaches, TypeInv
    <3>2. index' = index
      BY <1>18 DEF CommitExec, CommitRel
    <3>3. /\ result' \in Statuses /\ pc' = "idle"
          /\ UNCHANGED <<dyn, img, secAddr, isFunc, entry, patched>>
      BY <1>18, ErrorTypes DEF CommitExec, CommitRel, Commit
    <3> QED
      BY <3>1, <3>2, <3>3
  <2> QED
    BY <2>3, <2>4 DEF TypeInv
<1>19. CASE Unload
  <2>1. << >> \in Seq(IndexEntries) /\ NoModule \in Modules
    BY DEF NoModule, Modules, NULL
  <2>2. CASE mod.loaded
    <3>1. /\ pc' = "idle" /\ img' = NoImage /\ secAddr' = << >> /\ isFunc' = FALSE
          /\ entry' = NULL /\ patched' = {} /\ dirty' = FALSE /\ index' = << >>
          /\ mod' = NoModule /\ result' = NO_ERROR /\ dyn' = dyn
      BY <1>19, <2>2 DEF Unload, FreeRegion, Forget, ClearSymbols, Reject
    <3> QED
      BY <2>1, <3>1, ErrorTypes DEF TypeInv, NoImage, NULL
  <2>3. CASE ~mod.loaded
    BY <1>19, <2>3, RejectTypes, ErrorTypes DEF Unload
  <2> QED
    BY <2>2, <2>3
<1>20. CASE Run
  BY <1>20, RejectTypes, ErrorTypes DEF Run, TypeInv, LoadPcs
<1>21. CASE Return
  <2>1. mod.loaded
    BY <1>21 DEF Return, IInv, CallInv
  <2> QED
    BY <1>21, <2>1 DEF Return, TypeInv
<1>22. CASE ExportChange
  BY <1>22, ExportTypes
<1>23. CASE UNCHANGED vars
  BY <1>23 DEF vars, locals, TypeInv
<1> QED
  BY <1>1, <1>2, <1>3, <1>4, <1>5, <1>6, <1>7, <1>8, <1>9, <1>10, <1>11, <1>12, <1>13,
     <1>14, <1>15, <1>16, <1>17, <1>18, <1>19, <1>20, <1>21, <1>22, <1>23
  DEF Next, Call, LoadStep

\* Type correctness: no address the loader computes from the numbers in an
\* image is anything but an address, and no call returns a value outside
\* lk/err.h (modloader_load_rel_image and what it calls).
THEOREM LoaderTypes == Spec => []TypeOK
<1>1. Init => BufferInv
  BY DEF Init, BufferInv, NoBuffer
<1>2. IInv /\ BufferInv /\ TypeInv => TypeOK
  <2> SUFFICES ASSUME IInv, BufferInv, TypeInv PROVE TypeOK
    OBVIOUS
  <2>1. DOMAIN pages \in {{}, 0 .. NumPages(total) - 1} /\ pages \in [DOMAIN pages -> Perms]
    <3>1. CASE Mapped
      BY <3>1 DEF IInv, RegionInv
    <3>2. CASE ~Mapped
      BY <3>2 DEF IInv, RegionInv, Unmapped
    <3> QED
      BY <3>1, <3>2
  <2>2. img \in Images \cup {NoImage}
    BY DEF IInv, CallInv, TypeInv
  <2>3. secAddr \in IF img.kind = "rel" THEN [0 .. Len(img.sections) -> Nat] ELSE {<< >>}
    BY DEF IInv, LayoutInv, TypeInv, NoImage
  <2>4. resolved # NoBuffer => resolved \in [DOMAIN img.symbols -> Nat]
    BY DEF BufferInv, TypeInv
  <2>5. dyn \in [Slots -> [used : {TRUE}, name : ExportNames, addr : Nat] \cup {FreeSlot}]
    BY DEF TypeInv, Tables, Filled
  <2> QED
    BY <2>1, <2>2, <2>3, <2>4, <2>5
    DEF TypeOK, TypeInv, IInv, CallInv, BufferInv, Modules, IndexEntries, PatchSet
<1> QED
  BY <1>1, <1>2, InitTypes, TypeKeeps, BufferKeeps, Invariance, PTL DEF Spec
==============================================================================
