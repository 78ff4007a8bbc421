------------------------------ MODULE ModLoader ------------------------------
(***************************************************************************)
(* The module loader: the one slot for a resident module (modloader_mod),  *)
(* the mapping at PAYLOAD_LOAD_VADDR and its permissions, the index of the *)
(* module's own exports, and the calls of modloader.h that change them.    *)
(*                                                                         *)
(* A call runs in steps, because other kernel threads may change the       *)
(* export table while it runs (when Concurrent) and because it may fail at *)
(* each of them: pc says where the call is, "idle" between calls.  Calls   *)
(* of the loader itself do not overlap: one thread, the shell's, makes     *)
(* them.  The locals of a call keep their value while the module it loaded *)
(* is resident, and are forgotten when it fails.                           *)
(***************************************************************************)
EXTENDS ElfImage, ExportTable, FiniteSets

CONSTANTS
    Images,         \* the images callers load
    Base,           \* PAYLOAD_LOAD_VADDR
    MaxSymbols,     \* MODLOADER_MAX_MODULE_EXPORTS
    Stored,         \* names to what strlcpy keeps of them in the index
    ExportCalls,    \* the <<name, address>> pairs kernel threads register
    Concurrent,     \* whether they do so while a call of the loader runs
    HeapLimit       \* bound: calloc fails when this many buffers are in use

ASSUME LoaderAssumption ==
    /\ Images \subseteq RelImage \cup ExecImage
    /\ Base \in Nat \ {NULL}
    /\ MaxSymbols \in Nat
    /\ HeapLimit \in Nat
    /\ Concurrent \in BOOLEAN
    /\ \A c \in ExportCalls : c[2] \in Nat

\* No section asks for more alignment than the load address has (32K at
\* 0x7f108000): the loader aligns offsets, not addresses.
ASSUME AlignAssumption ==
    \A m \in Images : m.kind = "rel" =>
        \A s \in DOMAIN m.sections :
            m.sections[s].align > 1 => Base % m.sections[s].align = 0

\* The names of the images' symbols.
Names == DOMAIN Stored

\* A section symbol, whose value SymValue uses as a section number, has a value
\* that is one (tools give it the value 0): the loader does not check it.
ASSUME SymbolAssumption ==
    /\ Stored \in [Names -> Names]
    /\ \A m \in Images : m.kind = "rel" =>
           \A k \in DOMAIN m.symbols :
               /\ m.symbols[k].name \in Names
               /\ m.symbols[k].type = "section" => m.symbols[k].value < Shnum(m)

VARIABLES
    mod,        \* modloader_mod
    pages,      \* permissions of the pages mapped at Base, numbered from 0
    dirty,      \* code was written and the instruction cache not yet synced
    index,      \* modloader_module_exports, up to its count
    dyn,        \* modloader_dyn_exports
    heap,       \* sym_resolved buffers in use
    lost,       \* history: calls that returned from lines 484-487 or 494-497
    patched,    \* what the relocations wrote in the mapping
    result,     \* what the last call returned
    pc, img, i, secAddr, total, resolved, isFunc, entry  \* locals of a call

locals == <<pc, img, i, secAddr, total, resolved, isFunc, entry>>
vars == <<mod, pages, dirty, index, dyn, heap, lost, patched, result, locals>>

NoModule == [loaded |-> FALSE, wx |-> FALSE, kind |-> "none",
             base |-> NULL, size |-> 0, entry |-> NULL]
NoImage == [kind |-> "none"]
Unmapped == << >>
NoBuffer == << >>

Init ==
    /\ mod = NoModule /\ pages = Unmapped /\ dirty = FALSE
    /\ index = << >> /\ dyn = NoExports
    /\ heap = 0 /\ lost = 0 /\ patched = {} /\ result = NO_ERROR
    /\ pc = "idle" /\ img = NoImage /\ i = 0 /\ secAddr = << >> /\ total = 0
    /\ resolved = NoBuffer /\ isFunc = FALSE /\ entry = NULL

------------------------------------------------------------------------------
\* The call returns st: its locals are gone.
Forget ==
    /\ pc' = "idle" /\ img' = NoImage /\ i' = 0 /\ secAddr' = << >> /\ total' = 0
    /\ resolved' = NoBuffer /\ isFunc' = FALSE /\ entry' = NULL

\* An early return of a call that has mapped nothing.
Reject(st) ==
    /\ result' = st
    /\ UNCHANGED <<mod, pages, dirty, index, dyn, heap, lost, patched, locals>>

\* vmm_free_region of the mapping at Base, and what was in it.
FreeRegion == pages' = Unmapped /\ patched' = {} /\ dirty' = FALSE

\* free(sym_resolved), which may be null.
FreeBuffer == heap' = IF resolved = NoBuffer THEN heap ELSE heap - 1

\* An error return of a load that has its mapping.
FailLoad(st) ==
    /\ FreeRegion /\ Forget
    /\ result' = st
    /\ UNCHANGED <<mod, index, dyn>>

\* vmm_free_region forgotten on an error return, for the mutation runs.
FailMapped(st) ==
    /\ Forget
    /\ result' = st
    /\ UNCHANGED <<mod, pages, dirty, index, dyn, heap, lost, patched>>

\* ... before sym_resolved is allocated or after it is freed, and with it.
FailPlain(st) == FailLoad(st) /\ UNCHANGED <<heap, lost>>
\* (FailPlain in place of the next is a mistake the mutation runs make.)
FailFreeing(st) == FailLoad(st) /\ FreeBuffer /\ UNCHANGED lost

\* The returns that do not free sym_resolved.
FailLeaking(st) == FailLoad(st) /\ lost' = lost + 1 /\ UNCHANGED heap

\* vmm_alloc at Base: size bytes in whole pages, readable, writable and
\* executable.  It fails when there is no memory or the place is taken.
MapRegion(size) ==
    /\ pages = Unmapped
    /\ pages' = [p \in 0 .. NumPages(size) - 1 |-> "RWX"]

------------------------------------------------------------------------------
\* modloader_load_exec_blob
RefuseExec(m) ==
    /\ pc = "idle" /\ m.kind = "exec"
    /\ \/ m.size = 0 /\ Reject(NOT_VALID)
       \/ m.size # 0 /\ mod.loaded /\ Reject(ALREADY_EXISTS)
       \/ m.size # 0 /\ ~mod.loaded /\ Reject(NO_MEMORY)    \* vmm_alloc

\* The blob is mapped and copied.
LoadExec(m) ==
    /\ pc = "idle" /\ m.kind = "exec" /\ m.size # 0 /\ ~mod.loaded
    /\ MapRegion(m.size) /\ dirty' = TRUE
    /\ pc' = "sync" /\ img' = m /\ total' = m.size /\ entry' = m.entry
    /\ UNCHANGED <<mod, index, dyn, heap, lost, patched, result,
                   i, secAddr, resolved, isFunc>>

\* arch_sync_cache_range and ISB; forgotten, for the mutation runs.
NoSync == UNCHANGED dirty
SyncCaches == dirty' = FALSE

SyncBlob ==
    /\ pc = "sync"
    /\ SyncCaches
    /\ pc' = "wx" /\ i' = 0
    /\ UNCHANGED <<mod, pages, index, dyn, heap, lost, patched, result,
                   img, secAddr, total, resolved, isFunc, entry>>

------------------------------------------------------------------------------
\* modloader_load_elf_buffer and modloader_load_rel_image
ClearSymbols == index' = << >>

\* The index cleared before the check for a resident module, for the mutation
\* runs.
RefuseRelLate(m) ==
    /\ pc = "idle" /\ m.kind = "rel"
    /\ m.header # "alien" /\ mod.loaded
    /\ ClearSymbols
    /\ result' = ALREADY_EXISTS
    /\ UNCHANGED <<mod, pages, dirty, dyn, heap, lost, patched, locals>>

RefuseRel(m) ==
    /\ pc = "idle" /\ m.kind = "rel"
    /\ \/ m.header = "alien" /\ Reject(NOT_VALID)
       \/ m.header # "alien" /\ mod.loaded /\ Reject(ALREADY_EXISTS)

LoadRel(m) ==
    /\ pc = "idle" /\ m.kind = "rel" /\ m.header # "alien" /\ ~mod.loaded
    /\ ClearSymbols
    /\ IF m.header = "bad"
       THEN /\ result' = NOT_VALID
            /\ UNCHANGED locals
       ELSE /\ pc' = "layout" /\ img' = m /\ i' = 1 /\ total' = 0
            /\ secAddr' = [s \in 0 .. Len(m.sections) |-> 0]
            /\ UNCHANGED <<result, resolved, isFunc, entry>>
    /\ UNCHANGED <<mod, pages, dirty, dyn, heap, lost, patched>>

LayoutSection ==
    /\ pc = "layout" /\ i < Shnum(img)
    /\ LET s == img.sections[i]
           at == AlignedOffset(total, s)
       IN  IF s.alloc
           THEN secAddr' = [secAddr EXCEPT ![i] = at] /\ total' = at + s.size
           ELSE UNCHANGED <<secAddr, total>>
    /\ i' = i + 1
    /\ UNCHANGED <<mod, pages, dirty, index, dyn, heap, lost, patched, result,
                   pc, img, resolved, isFunc, entry>>

\* Nothing to map, or vmm_alloc fails.
RefuseMap ==
    /\ pc = "layout" /\ i = Shnum(img)
    /\ result' \in IF total = 0 THEN {NOT_VALID} ELSE {NO_MEMORY}
    /\ Forget
    /\ UNCHANGED <<mod, pages, dirty, index, dyn, heap, lost, patched>>

MapRel ==
    /\ pc = "layout" /\ i = Shnum(img) /\ total # 0
    /\ MapRegion(total)
    /\ pc' = "copy"
    /\ UNCHANGED <<mod, dirty, index, dyn, heap, lost, patched, result,
                   img, i, secAddr, total, resolved, isFunc, entry>>

\* Bytes of the sections are copied; then the symbol table is found.
CopyStatus(m) ==
    IF \/ \E s \in AllocSections(m) :
            m.sections[s].type = "progbits" /\ ~m.sections[s].inFile
       \/ m.symtab = "bad"
    THEN NOT_VALID
    ELSE NO_ERROR

CopySections ==
    /\ pc = "copy"
    /\ \/ /\ CopyStatus(img) # NO_ERROR
          /\ FailPlain(CopyStatus(img))
       \/ /\ CopyStatus(img) = NO_ERROR
          /\ pc' = "calloc" /\ dirty' = TRUE
          /\ UNCHANGED <<mod, pages, index, dyn, heap, lost, patched, result,
                         img, i, secAddr, total, resolved, isFunc, entry>>

AllocResolved ==
    /\ pc = "calloc"
    /\ \/ /\ img.symbols = << >>
          /\ pc' = "reloc" /\ i' = 1
          /\ UNCHANGED <<heap, resolved>>
       \/ /\ img.symbols # << >> /\ heap < HeapLimit
          /\ heap' = heap + 1
          /\ resolved' = [k \in DOMAIN img.symbols |-> NULL]
          /\ pc' = "resolve" /\ i' = 1
    /\ UNCHANGED <<mod, pages, dirty, index, dyn, lost, patched, result,
                   img, secAddr, total, isFunc, entry>>

CallocFails ==
    /\ pc = "calloc" /\ img.symbols # << >>
    /\ FailPlain(NO_MEMORY)

\* modloader_resolve_externals, one symbol at a time: lines 125-144 decide
\* whether the import is a function, with a lookup of its own for NOTYPE, and
\* lines 145-154 look its address up.
ProbeImport ==
    /\ pc = "resolve" /\ i \in DOMAIN img.symbols
    /\ LET sym == img.symbols[i]
       IN  IF IsImport(sym)
           THEN /\ pc' = "bind" /\ UNCHANGED i
                /\ isFunc' = IF sym.type = "notype"
                             THEN LookupExport(dyn, sym.name, FALSE) # NULL
                             ELSE sym.type = "func"
           ELSE i' = i + 1 /\ UNCHANGED <<pc, isFunc>>
    /\ UNCHANGED <<mod, pages, dirty, index, dyn, heap, lost, patched, result,
                   img, secAddr, total, resolved, entry>>

ImportAddr == LookupExport(dyn, img.symbols[i].name, isFunc)
Bindable == ImportAddr # NULL \/ img.symbols[i].bind = "weak"

StoreImport ==
    /\ resolved' = [resolved EXCEPT ![i] = ImportAddr]
    /\ pc' = "resolve" /\ i' = i + 1
    /\ UNCHANGED <<mod, pages, dirty, index, dyn, heap, lost, patched, result,
                   img, secAddr, total, isFunc, entry>>

\* The load waits for a symbol that is not there, for the mutation runs.
AwaitImport == pc = "bind" /\ Bindable /\ StoreImport

\* Looked up again until it is there, for the mutation runs.
RetryImport ==
    /\ pc = "bind"
    /\ \/ Bindable /\ StoreImport
       \/ /\ ~Bindable /\ pc' = "resolve"
          /\ UNCHANGED <<mod, pages, dirty, index, dyn, heap, lost, patched, result,
                         img, i, secAddr, total, resolved, isFunc, entry>>

BindImport ==
    /\ pc = "bind"
    /\ \/ ~Bindable /\ FailFreeing(NOT_FOUND)
       \/ Bindable /\ StoreImport

EndResolve ==
    /\ pc = "resolve" /\ i = Len(img.symbols) + 1
    /\ pc' = "reloc" /\ i' = 1
    /\ UNCHANGED <<mod, pages, dirty, index, dyn, heap, lost, patched, result,
                   img, secAddr, total, resolved, isFunc, entry>>

------------------------------------------------------------------------------
\* The relocation loop, one section at a time.
RelocatesSection(m, s) == s.type = "rel" /\ s.info \in AllocSections(m)

BadRelHeader(m, s) ==
    /\ s.type = "rel"
    /\ s.info >= Shnum(m) \/ (RelocatesSection(m, s) /\ ~s.inFile)

BadRelocs(m, s) == {k \in DOMAIN s.rels : RelocStatus(m, s.rels[k]) # NO_ERROR}

\* The table looked up again at each relocation, for the mutation runs.
LatePatches(m, s, off, imports) ==
    {[sec |-> s.info, offset |-> r.offset,
      value |-> LookupExport(dyn, m.symbols[r.sym].name, TRUE)] :
        r \in {s.rels[k] : k \in {k \in DOMAIN s.rels : s.rels[k].type = "symbol"}}}

Patches(m, s, off, imports) ==
    {[sec |-> s.info, offset |-> r.offset,
      value |-> RelocValue(m, r, Base, off, imports)] :
        r \in {s.rels[k] : k \in {k \in DOMAIN s.rels : s.rels[k].type # "none"}}}

RelocSection ==
    /\ pc = "reloc" /\ i < Shnum(img)
    /\ LET s == img.sections[i]
           bad == BadRelocs(img, s)
       IN  \/ /\ BadRelHeader(img, s)
              /\ FailLeaking(NOT_VALID)
           \/ /\ ~BadRelHeader(img, s) /\ RelocatesSection(img, s)
              /\ bad # {}
              /\ FailFreeing(RelocStatus(img, s.rels[Min(bad)]))
           \/ /\ ~BadRelHeader(img, s)
              /\ RelocatesSection(img, s) => bad = {}
              /\ IF RelocatesSection(img, s)
                 THEN /\ patched' = patched \cup Patches(img, s, secAddr, resolved)
                      /\ dirty' = TRUE
                 ELSE UNCHANGED <<patched, dirty>>
              /\ i' = i + 1
              /\ UNCHANGED <<mod, pages, index, dyn, heap, lost, result,
                             pc, img, secAddr, total, resolved, isFunc, entry>>

\* sym_resolved is freed and the entry found.
EndReloc ==
    /\ pc = "reloc" /\ i = Shnum(img)
    /\ IF FindEntry(img, Base, secAddr) = NULL
       THEN FailFreeing(NOT_FOUND)
       ELSE /\ entry' = FindEntry(img, Base, secAddr)
            /\ FreeBuffer /\ resolved' = NoBuffer
            /\ pc' = "wx" /\ i' = 0
            /\ UNCHANGED <<mod, pages, dirty, index, dyn, lost, patched, result,
                           img, secAddr, total, isFunc>>

------------------------------------------------------------------------------
\* modloader_apply_wx_sections and modloader_apply_wx_split, one page at a time.
PageTarget(p) ==
    IF img.kind = "exec" THEN SplitFlags(img, p) ELSE PageFlags(img, secAddr, p)

\* The last page forgotten, for the mutation runs.
FewerPages == i + 1 \in DOMAIN pages

MorePages == i \in DOMAIN pages

ProtectPage ==
    /\ pc = "wx" /\ MorePages
    /\ pages' = [pages EXCEPT ![i] = PageTarget(i)]
    /\ i' = i + 1
    /\ UNCHANGED <<mod, dirty, index, dyn, heap, lost, patched, result,
                   pc, img, secAddr, total, resolved, isFunc, entry>>

\* arch_mmu_query or arch_mmu_map fails on a page.
ProtectFails ==
    /\ pc = "wx" /\ MorePages
    /\ FailPlain(MMU_ERROR)

\* The module becomes resident.
Commit(kind) ==
    /\ mod' = [loaded |-> TRUE, wx |-> TRUE, kind |-> kind, base |-> Base,
               size |-> NumPages(total) * PageSize, entry |-> entry]
    /\ result' = NO_ERROR
    /\ pc' = "idle"
    /\ UNCHANGED <<pages, dyn, heap, lost, patched,
                   img, i, secAddr, total, resolved, isFunc, entry>>

\* modloader_apply_wx_split ends with a sync of its own.
CommitExec ==
    /\ pc = "wx" /\ ~MorePages /\ img.kind = "exec"
    /\ Commit("exec")
    /\ SyncCaches
    /\ UNCHANGED index

\* The caches are synced, by modloader_apply_wx_sections and again after it, and
\* modloader_symbols_build starts.
EndProtect ==
    /\ pc = "wx" /\ ~MorePages /\ img.kind = "rel"
    /\ SyncCaches
    /\ ClearSymbols
    /\ pc' = "index" /\ i' = 1
    /\ UNCHANGED <<mod, pages, dyn, heap, lost, patched, result,
                   img, secAddr, total, resolved, isFunc, entry>>

------------------------------------------------------------------------------
\* modloader_symbols_build, one symbol at a time.
IndexEntry(sym) == [name |-> Stored[sym.name], addr |-> SymValue(img, sym, Base, secAddr)]

\* Symbols without an address kept too, for the mutation runs.
KeepsAnySymbol(sym) == IsExport(sym)

KeepsSymbol(sym) == IsExport(sym) /\ IndexEntry(sym).addr # NULL

IndexSymbol ==
    /\ pc = "index" /\ i \in DOMAIN img.symbols
    /\ LET sym == img.symbols[i]
       IN  /\ IsExport(sym) => Len(index) < MaxSymbols
           /\ index' = IF KeepsSymbol(sym) THEN Append(index, IndexEntry(sym)) ELSE index
    /\ i' = i + 1
    /\ UNCHANGED <<mod, pages, dirty, dyn, heap, lost, patched, result,
                   pc, img, secAddr, total, resolved, isFunc, entry>>

\* The table is full: the load fails, and what was indexed stays there.
IndexFull ==
    /\ pc = "index" /\ i \in DOMAIN img.symbols
    /\ IsExport(img.symbols[i]) /\ Len(index) >= MaxSymbols
    /\ FailPlain(NO_MEMORY)

CommitRel ==
    /\ pc = "index" /\ i \notin DOMAIN img.symbols
    /\ Commit("rel")
    /\ UNCHANGED <<dirty, index>>

------------------------------------------------------------------------------
\* modloader_unload.  vmm_free_region finds the region of a resident module:
\* MappedIffLoaded says that it is mapped.
Unload ==
    /\ pc = "idle"
    /\ \/ ~mod.loaded /\ Reject(NOT_FOUND)
       \/ /\ mod.loaded
          /\ FreeRegion /\ Forget /\ ClearSymbols
          /\ mod' = NoModule
          /\ result' = NO_ERROR
          /\ UNCHANGED <<dyn, heap, lost>>

\* modloader_run: the payload's entry is called, and it returns.
Run ==
    /\ pc = "idle"
    /\ \/ ~mod.loaded /\ Reject(NOT_READY)
       \/ /\ mod.loaded
          /\ pc' = "running"
          /\ UNCHANGED <<mod, pages, dirty, index, dyn, heap, lost, patched, result,
                         img, i, secAddr, total, resolved, isFunc, entry>>

Return ==
    /\ pc = "running"
    /\ pc' = "idle"
    /\ UNCHANGED <<mod, pages, dirty, index, dyn, heap, lost, patched, result,
                   img, i, secAddr, total, resolved, isFunc, entry>>

EntriesOf(name) == {k \in DOMAIN index : index[k].name = name}

\* The index trusted whatever is resident, for the mutation runs.
LookupAnySymbol(name) ==
    IF name = NoName \/ EntriesOf(name) = {} THEN NULL ELSE index[Min(EntriesOf(name))].addr

\* modloader_lookup_symbol
LookupSymbol(name) ==
    IF name = NoName \/ ~mod.loaded \/ mod.kind # "rel" \/ EntriesOf(name) = {}
    THEN NULL
    ELSE index[Min(EntriesOf(name))].addr

\* modloader_wx_verify
WxVerify ==
    IF ~mod.loaded THEN NOT_READY
    ELSE IF \E p \in 0 .. (mod.size \div PageSize) - 1 : p \notin DOMAIN pages
         THEN MMU_ERROR
    ELSE IF \E p \in DOMAIN pages : pages[p] = "RWX" THEN NOT_ALLOWED
    ELSE NO_ERROR

\* Another kernel thread changes the export table.
ExportChange ==
    /\ pc = "idle" \/ Concurrent
    /\ \E c \in ExportCalls :
          dyn' \in {RegisterExport(dyn, c[1], c[2]), UnregisterExport(dyn, c[1])}
    /\ UNCHANGED <<mod, pages, dirty, index, heap, lost, patched, result, locals>>

------------------------------------------------------------------------------
\* The steps of a load that has begun.
LoadStep ==
    \/ SyncBlob \/ LayoutSection \/ RefuseMap \/ MapRel \/ CopySections
    \/ AllocResolved \/ CallocFails \/ ProbeImport \/ BindImport \/ EndResolve
    \/ RelocSection \/ EndReloc
    \/ ProtectPage \/ ProtectFails \/ CommitExec \/ EndProtect
    \/ IndexSymbol \/ IndexFull \/ CommitRel

Call ==
    \/ \E m \in Images : RefuseExec(m) \/ LoadExec(m) \/ RefuseRel(m) \/ LoadRel(m)
    \/ Unload \/ Run

Next == Call \/ LoadStep \/ Return \/ ExportChange

\* The thread that runs a load goes on with it.  Nothing says that a payload
\* returns, that anybody calls the loader, or that a failure ever happens.
Spec == Init /\ [][Next]_vars /\ WF_vars(LoadStep)

------------------------------------------------------------------------------
LoadPcs ==
    {"sync", "layout", "copy", "calloc", "resolve", "bind", "reloc", "wx", "index"}

\* The names kernel threads register.
ExportNames == {c[1] : c \in ExportCalls}

\* Every variable keeps its kind of value; result never leaves lk/err.h.
TypeOK ==
    /\ mod \in [loaded : BOOLEAN, wx : BOOLEAN, kind : {"none", "exec", "rel"},
                base : {NULL, Base}, size : Nat, entry : Nat]
    /\ DOMAIN pages \in {{}, 0 .. NumPages(total) - 1}
    /\ pages \in [DOMAIN pages -> Perms]
    /\ dirty \in BOOLEAN /\ isFunc \in BOOLEAN
    /\ index \in Seq([name : Names, addr : Nat \ {NULL}])
    /\ dyn \in [Slots -> [used : {TRUE}, name : ExportNames, addr : Nat] \cup {FreeSlot}]
    /\ heap \in Nat /\ lost \in Nat
    /\ result \in Statuses
    /\ pc \in {"idle", "running"} \cup LoadPcs
    /\ img \in Images \cup {NoImage}
    /\ i \in Nat /\ total \in Nat /\ entry \in Nat
    /\ secAddr \in IF img.kind = "rel" THEN [0 .. Len(img.sections) -> Nat] ELSE {<< >>}
    /\ resolved # NoBuffer => resolved \in [DOMAIN img.symbols -> Nat]
    /\ patched \subseteq [sec : Nat, offset : Nat, value : Nat]

\* Whatever way a call ended, the region at PAYLOAD_LOAD_VADDR is mapped
\* exactly when a module is resident, and all of it: each of the error returns
\* of modloader_load_rel_image and modloader_load_exec_blob must free it, or
\* vmm_alloc would refuse every later load.
MappedIffLoaded ==
    pc \in {"idle", "running"} =>
        /\ DOMAIN pages = IF mod.loaded THEN 0 .. (mod.size \div PageSize) - 1 ELSE {}
        /\ ~mod.loaded => mod = NoModule /\ patched = {}
        /\ mod.loaded => pages # Unmapped

\* A resident module passes modloader_wx_verify: no page of it is writable and
\* executable, though every page was both while it was loaded.
ResidentIsWx == mod.loaded => WxVerify = NO_ERROR

CodeAt(addr) ==
    LET p == (addr - Base) \div PageSize IN p \in DOMAIN pages /\ pages[p] = "RX"

\* The entry image m names is in code of m: a blob's first rxSize bytes, or the
\* section of the first payload_entry.  The loader checks neither.
EntryInCode(m) ==
    IF m.kind = "exec"
    THEN m.entry >= Base /\ m.entry - Base < m.rxSize /\ m.entry - Base < m.size
    ELSE /\ EntrySymbols(m) # {}
         /\ LET sym == m.symbols[Min(EntrySymbols(m))]
            IN  /\ sym.shndx \in AllocSections(m)
                /\ m.sections[sym.shndx].exec
                /\ sym.value < m.sections[sym.shndx].size

\* The code of a resident module can run: each page with a byte of an executable
\* section, or of a blob's first rxSize bytes, is RX, and an entry that is in the
\* image's code is where modloader_run finds a page of the mapping that is RX.
CodeExecutable ==
    mod.loaded =>
        /\ \A p \in DOMAIN pages :
              IF img.kind = "exec"
              THEN p * PageSize < img.rxSize => pages[p] = "RX"
              ELSE \A s \in AllocSections(img) :
                      /\ img.sections[s].exec
                      /\ p * PageSize < secAddr[s] + img.sections[s].size
                      /\ secAddr[s] < (p + 1) * PageSize
                      => pages[p] = "RX"
        /\ EntryInCode(img) => CodeAt(mod.entry)

\* ARCHITECTURE.md:336: a section that is written and not executed is on pages
\* that can be written.
DataWritable ==
    mod.loaded /\ mod.kind = "rel" =>
        \A s \in AllocSections(img), p \in DOMAIN pages :
            /\ img.sections[s].write /\ ~img.sections[s].exec
            /\ p * PageSize < secAddr[s] + img.sections[s].size
            /\ secAddr[s] < (p + 1) * PageSize
            => pages[p] = "RW"

\* Once they are laid out, the sections of an image are aligned, do not
\* overlap, come in the order of their headers and are inside the mapping.
LayoutSound ==
    (pc \in LoadPcs \ {"layout"} \/ mod.loaded) /\ img.kind = "rel" =>
            \A s \in AllocSections(img) :
                /\ img.sections[s].align > 1 =>
                       (Base + secAddr[s]) % img.sections[s].align = 0
                /\ secAddr[s] + img.sections[s].size <= Cardinality(DOMAIN pages) * PageSize
                /\ \A t \in AllocSections(img) :
                       s < t => secAddr[s] + img.sections[s].size <= secAddr[t]

\* The relocations of img with the section each is applied to.
Relocations ==
    UNION {{[sec |-> s.info, rel |-> s.rels[k]] : k \in DOMAIN s.rels} :
              s \in {img.sections[t] : t \in
                        {t \in DOMAIN img.sections :
                            RelocatesSection(img, img.sections[t])}}}

PatchedWith(x, value) ==
    \E p \in patched :
        /\ p.sec = x.sec /\ p.offset = x.rel.offset
        /\ ClearBit0(p.value) = ClearBit0(value)

SymbolOf(x) == img.symbols[x.rel.sym]
DefinedHere(sym) == sym.shndx \in DOMAIN img.sections

LinkedImage == pc = "index" \/ (mod.loaded /\ mod.kind = "rel")

\* STAGES.md:76-81: every reference to a symbol the module defines is patched
\* with the load address, plus the offset its section was given, plus the
\* symbol's value; none is missed because of the order of the sections.
LocalSymbolsLinked ==
    LinkedImage =>
        \A x \in Relocations :
            x.rel.type = "symbol" /\ DefinedHere(SymbolOf(x)) =>
                PatchedWith(x, Base + secAddr[SymbolOf(x).shndx] + SymbolOf(x).value)

\* While a load runs, with nobody changing the table meanwhile, every import
\* is patched with what the table says of its name, and one that is not in
\* the table is a weak one, patched with null.
ImportsLinked ==
    pc \in {"wx", "index"} /\ img.kind = "rel" /\ ~Concurrent =>
        \A x \in Relocations :
            /\ x.rel.type = "symbol" /\ SymbolOf(x).shndx = SHN_UNDEF
            /\ SymbolOf(x).bind \in {"global", "weak"} /\ SymbolOf(x).name # NoName
            => LET addr == LookupExport(dyn, SymbolOf(x).name, FALSE)
               IN  /\ PatchedWith(x, addr)
                   /\ addr = NULL => SymbolOf(x).bind = "weak"

\* STAGES.md:436-441: imports are resolved before any relocation is applied,
\* so all the references of a module to one import go to the same address, even
\* when another thread changes the table while the relocations are applied.
ImportsConsistent ==
    LinkedImage =>
        \A x, y \in Relocations :
            /\ x.rel.type = "symbol" /\ y.rel.type = "symbol"
            /\ x.rel.sym = y.rel.sym /\ IsImport(SymbolOf(x))
            => \E p, q \in patched :
                  /\ p.sec = x.sec /\ p.offset = x.rel.offset
                  /\ q.sec = y.sec /\ q.offset = y.rel.offset
                  /\ p.value = q.value

\* ARCHITECTURE.md:221: an import of type NOTYPE is a function, and patched
\* with its Thumb bit.
NotypeImportsCallable ==
    LinkedImage =>
        \A x \in Relocations :
            /\ x.rel.type = "symbol" /\ IsImport(SymbolOf(x))
            /\ SymbolOf(x).type = "notype" /\ SymbolOf(x).bind = "global"
            => \E p \in patched :
                  p.sec = x.sec /\ p.offset = x.rel.offset /\ p.value % 2 = 1

\* The code of a resident module is what the processor fetches: nothing, be it
\* the copy of the image or a relocation, was written after the last
\* arch_sync_cache_range.
CodeSynced == mod.loaded => ~dirty

\* Between calls no sym_resolved buffer is in use, but for one for each call
\* that found a bad relocation section header: the two returns of lines 484-487
\* and 494-497 are the only ones that do not free it.
BuffersFreed == pc \in {"idle", "running"} => heap <= lost

\* A resident module stays as it was loaded, whatever calls are made and fail,
\* until it is unloaded: the code checks for one before it touches the index
\* (lines 360-364), and vmm_alloc refuses the place it is at.
ResidentUntouched ==
    [][mod.loaded /\ mod' # NoModule =>
          UNCHANGED <<mod, pages, index, patched, img, secAddr>>]_vars

\* How far a load is from its end: the phases before it, and the turns its loop
\* has left, two of them for an import.
Phase ==
    CASE pc = "layout" -> 7 [] pc = "copy" -> 6 [] pc = "calloc" -> 5
      [] pc \in {"resolve", "bind"} -> 4
      [] pc \in {"reloc", "sync"} -> 3 [] pc = "wx" -> 2 [] pc = "index" -> 1
      [] OTHER -> 0

TurnsLeft ==
    CASE pc \in {"layout", "reloc"} -> Shnum(img) - i
      [] pc = "resolve" -> 2 * (Len(img.symbols) + 1 - i)
      [] pc = "bind" -> 2 * (Len(img.symbols) - i) + 1
      [] pc = "wx" -> NumPages(total) - i
      [] pc = "index" -> Len(img.symbols) + 1 - i
      [] OTHER -> 0

\* The loader is bounded by the image alone: no step of a load goes back to an
\* earlier phase or turn, or past the end of a loop, whatever fails and whatever
\* other threads do.
LoadDescends ==
    [][pc' \in LoadPcs =>
          /\ TurnsLeft' \in Nat
          /\ LoadStep => \/ Phase' < Phase
                         \/ Phase' = Phase /\ TurnsLeft' < TurnsLeft]_vars

\* A load, once it has begun, returns, with success or an error.
LoadReturns == (pc \in LoadPcs) ~> (pc = "idle")

\* STAGES.md:366-371: a global function or object the module defines is found
\* by its name.
ExportsFound ==
    mod.loaded /\ mod.kind = "rel" =>
        \A k \in DOMAIN img.symbols :
            IsExport(img.symbols[k]) /\ DefinedHere(img.symbols[k]) =>
                LookupSymbol(img.symbols[k].name) # NULL

Slot == INSTANCE ModSlot WITH
            slot <- IF mod.loaded THEN img ELSE NoImage,
            place <- IF mod.loaded /\ img.kind = "rel"
                     THEN [s \in AllocSections(img) |-> secAddr[s]]
                     ELSE << >>,
            view <- [n \in Names |-> LookupSymbol(n)]

\* The loader, seen through its results, modloader_lookup_symbol and where it
\* puts the sections, is a slot: a failed load leaves no trace of itself, not
\* even in the index it cleared or half filled, and a lookup never finds a
\* symbol of any module but the resident one.
ImplementsSlot == Slot!Spec
==============================================================================
