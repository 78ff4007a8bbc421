# A verification development of lk-modloader

lk-modloader loads a module (a "payload") into a running LK kernel: a linked
blob (`ET_EXEC`) or a relocatable object (`ET_REL`), which it lays out, links to
itself and to the kernel's export table, protects, and calls. These TLA+ modules
state what that loader does and what makes it correct; TLC checks them on small
instances and TLAPS proves the most important ones for all instances.

Run a check with `tlc -config MCModLoader.cfg MCModLoader.tla`, and the proofs
of a module with `tlapm ModLoaderProofs.tla`.

## 1. The system

| Part | Source | State | Operations |
|---|---|---|---|
| Kernel export table | `modloader_export.c` | 16 slots (used, name, address), a static table of built-in names | register, unregister, lookup, resolve_externals |
| Loader of blobs | `modloader_reloc.c:23-59` | the resident module `modloader_mod`, the mapping at `0x7f108000` | load_exec_blob |
| Loader of objects | `modloader_reloc.c:61-88, 203-210, 318-622` | the same, and the locals of the load: section offsets, `sym_resolved` | load_rel_image and its helpers |
| Relocation encoding | `modloader_reloc.c:90-316` | none | read_addend, apply_arm_reloc |
| W^X protection | `modloader_wx.c` | permissions of the mapped pages | apply_wx_split, apply_wx_sections, verify |
| Module export index | `modloader_symbols.c` | 32 entries (name, address) and their count | clear, build, lookup_symbol |
| API | `modloader.c` | none of its own | load_image, load_uri, run, unload, wx_verify |
| Fetch | `modloader_fetch.c` | whether `/v9p` is mounted | fetch |
| Console command | `modloader_shell.c` | none | the subcommands of `modtest` |
| Set-up | `setup.sh` | files: the archive, its checksum, the toolchain, the clone | ensure_atfe, clone_lk, apply_overlay |
| Payloads, build rules, test driver, PDF generator | `payload/`, `*.mk`, `run_modtest_all.sh`, `scripts/` | none | - |

**How they interact.** The console command calls the API in the shell's thread.
The API takes an embedded image or fetches a file, and gives its bytes to one of
the loaders. The loader of objects reads the export table
(`modloader_resolve_externals`), writes the mapping, remaps its pages
(`modloader_wx.c`), syncs the caches, builds the index, and sets `modloader_mod`
last. `modloader_lookup_symbol` reads `modloader_mod` and the index. A fetch
reads a file of the host, which may change it at any moment, into a buffer that
`modloader_load_uri` frees after the load. Any kernel thread may register and
unregister exports: there is no lock anywhere in the loader.

**What is hard.** The fourteen error returns after the mapping is made, each of
which has to undo the right things; the index, which is cleared and filled at
other moments than those at which the module becomes and stops being resident;
pages that several sections share; the arithmetic of the layout; the export
table changing while a load reads it, and each of its slots being written byte
by byte; the operands that are spread over the bits of two halfwords; a file
that changes between two calls; and what a resident module keeps of an export
that is gone. `PROJECT.json` lists each hazard at its line.

**What makes each part correct.**

* Export table: it is a map from names to addresses; no name is there twice; a
  slot is used again; a name that is bound can be rebound when it is full.
* Loaders: a load makes a whole module resident or leaves no trace; at most one
  module is resident and nothing but an unload touches it; sections do not
  overlap; every reference goes where the symbol is; imports agree.
* W^X: no page of a resident module is writable and executable; code can be
  executed and data written.
* Encoding: after relocation a branch goes to its symbol in its symbol's state,
  a `MOVW`/`MOVT` pair builds its address, a pointer means it, and nothing but
  the operand has changed.
* Fetch: what was taken is given back on every path, and no file cut short is
  delivered.
* Command: the buffer outlives the load and not the command; answers are true; a
  call goes to code of the module that is resident; commands end.
* Index: a name is found exactly when the resident module exports it, at its
  address.

## 2. The modules

| Module | What it is |
|---|---|
| `Lk` | status values, `ROUNDUP`, the Thumb bit, null |
| `ExportTable` | the export table as a value: the functions of `modloader_export.c` |
| `ModExport` | state machine of the calls on it: `Register`, `Unregister` |
| `ExportRace` | the same calls, made by one thread, and the lookup of another as sequences of reads and writes of slots, byte by byte in a name.  It implements `ModExport` (`ImplementsCalls`) |
| `ExportMap` | abstract: a bounded partial map. `ModExport` implements it (`ImplementsMap`) |
| `ElfImage` | images (sections, symbols, relocations) and the functions that only read them: layout, symbol values, page permissions |
| `ModLoader` | state machine of the loader, composed of `ElfImage` and `ExportTable` |
| `ModSlot` | abstract: one slot, empty or holding a module whose exports are found. `ModLoader` implements it (`ImplementsSlot`) |
| `ModReloc` | addends, encodings and the loop over the relocations of a load, on memory that their places share |
| `ModFetch` | state machine of a fetch, with a host that changes files and a console that mounts |
| `ModShell` | the `modtest` command and the API calls it makes: composes `ModLoader` and `ModFetch` |
| `MCModExport`, `MCExportRace`, `MCModLoader`, `MCLayout`, `MCModReloc`, `MCModFetch`, `MCModShell` | instances for TLC |
| `ExportTableProofs`, `ModExportProofs`, `ExportRaceProofs`, `ModLoaderProofs`, `ModLoaderLinks`, `ModRelocProofs`, `ModFetchProofs`, `ModShellProofs` | theorems |

`ModShell` EXTENDS `ModLoader` and takes `ModFetch` by `INSTANCE`; `ModReloc`
and `ModLoader` meet at a relocation's value: `ModLoader` says which address a
place is given (`patched`), `ModReloc` how it is written there.

### State and actions of `ModLoader`

`mod` is `modloader_mod`; `pages` the permissions of the pages mapped at the
load address (empty when nothing is mapped); `index` is
`modloader_module_exports` up to its count; `dyn` is `modloader_dyn_exports`;
`heap` counts the `sym_resolved` buffers in use; `dirty` says that the mapping
was written (a blob or sections copied, relocations applied) since the last
cache sync; `patched` is the set of places relocations wrote, with the address
each was given; `result` is the last return value. `lost` is a history variable
that counts the calls that ended in two particular returns. The other variables
are the locals of a call: where it is (`pc`), the image, the loop counter,
`sec_addr`, `total_size`, `sym_resolved`, `is_func` and `entry`.

A call runs in steps. The loop over sections that lays them out, the one over
symbols that resolves imports (two steps for each import, because it reads the
table twice), the one over relocation sections, the one over pages, and the one
over symbols that builds the index each take a step per iteration; an error
return is a step of its own, or a disjunct of the step that makes it, with what
it frees. The copying of section bytes is one step: nobody else sees it. The
locals of a successful load keep their values until the module is unloaded, so
that properties of a resident module can name its image and its layout; the code
has no use for them then.

| Action | Code |
|---|---|
| `RefuseExec`, `LoadExec`, `SyncBlob`, `CommitExec` | `modloader_load_exec_blob` |
| `RefuseRel`, `LoadRel` | `modloader_load_elf_buffer`, header checks of `modloader_load_rel_image` |
| `LayoutSection`, `RefuseMap`, `MapRel`, `CopySections` | lines 394-461 |
| `AllocResolved`, `CallocFails`, `ProbeImport`, `BindImport`, `EndResolve` | lines 463-477, `modloader_resolve_externals` |
| `RelocSection`, `EndReloc` | lines 479-596, `modloader_find_entry` |
| `ProtectPage`, `ProtectFails`, `EndProtect` | `modloader_apply_wx_*`, lines 598-606 |
| `IndexSymbol`, `IndexFull`, `CommitRel` | `modloader_symbols_build`, lines 608-621 |
| `Unload`, `Run`, `Return` | `modloader_unload`, `modloader_run` |
| `ExportChange` | another thread's register or unregister |

A few modelling choices:

* A check that data lies inside the file is a Boolean of the thing checked
  (`inFile`, `header`, `symtab`). The bytes of a section are not modelled, only
  what relocations write; how a value is put in an instruction is `ModReloc`.
* Relocation types the loader treats alike are one type: `none`, `relative`,
  `symbol` and `unsupported`.
* `vmm_alloc`, `calloc` and `arch_mmu_map` fail whenever they like; `vmm_alloc`
  also fails when the place is taken, so that a leaked mapping would show.
* A payload, once called, may never return (`Return` has no fairness), and does
  not itself call the loader.
* A failed `vmm_free_region` in `modloader_unload` is not an action: it fails
  for a region that is not mapped, and `MappedIffLoaded` says it is.

### The other state machines

`ModReloc`. `mem` is the mapping: a halfword at each even address, which the
places of relocations share, so two relocations may have one place or overlap.
`next` is the loop counter and `status` its outcome. `Apply` is one turn of the
loop: it reads the word and the addend (`ReadAddend`, or the entry's) from `mem`
as it is by then, and writes both halfwords of what `ApplyArmReloc` makes of
them (`WriteBack`). The encoders and the addend readers take bit fields apart
with division and remainder, line by line as the code does with shifts and
masks. What an instruction *means* is stated apart from them (`ThumbOffset`,
`ArmOffset`, `Destination`, `GoesToThumb`, `Immediate`, `PointerTo`), after the
architecture's definition of it, so that the properties compare two different
things.

`ModFetch`. `fpc` is the place in `modloader_fetch_file_path`, `flag` is
`modloader_v9p_mounted`, `handles` and `bufs` count what is held, `out` is
`*out_buf`. `EnsureMounted`, `Open`, `Stat` (which allocates the buffer) and
`Read` are the calls of the file system, each with its failures; `Leave` is the
label `out`. `HostWrites` and `ConsoleMounts` are the environment. `unmounted`
(the console unmounted the share last) and `seen` (what the host had at the path
since the file was opened) are history.

`ModShell`. `cmd` is where the command is, `answer` what it last answered,
`callee` what `callsym` calls. `LoadImage` and `LoadUri` (of an image number
that is out of range and a null or empty URI too: `NoImage`, `NoUri`),
`UnloadModule`, `RunModule`, `CallSym` and `WxCheck` are the subcommands;
`FetchGoesOn`, `FetchEnds`, `LoadGoesOn`, `FreeFile` and `AnswerStatus` are the
steps of `modloader_load_uri` and of the command after it; `RunReturns` and
`SymReturns` come when a payload returns.

`ExportRace`. `writer` and `reader` are two threads: where each is in the
functions of `modloader_export.c`, its arguments, the slot in hand and the
position in its name. A name is the sequence of its characters (`Spelling`).
Each read or write of `used`, of `addr` and of one character is a step:
`strlcpy` writes a name from its first character to its end (`WriteName`), the
lookup's `strcmp` reads one character a turn (`CompareByte`), and `memset`
zeroes the parts of a slot, each character one of them, in any order (`Clear`).
The writer's own `strcmp` is part of a step, since nobody else writes.
`granted`, `lived` and `own` are history: which addresses names were bound to
while a lookup ran.

## 3. The runs

| Run | Question | Result |
|---|---|---|
| `exports` | any sequence of calls on a table of 2 slots, names of every kind | `TypeOK`, `NoDuplicateNames` hold; the table implements `ExportMap` |
| `lifecycle` | any sequence of loads of 19 images, unloads, runs and export changes | the mapping, the heap and the index follow the slot; references and imports are patched; a resident module is untouched; the loader implements `ModSlot` |
| `concurrent_exports` | the same with the export table changing at every step of a load | references to one import agree; caches are synced after all that is written; every step of a load takes it nearer to its end, and every load returns |
| `layout` | every image of 3 sections out of 19, and every blob of up to 9 bytes, each with two entries | layout, W^X and executable code, the entry included when it is in code |
| `relocations` | every type of relocation on what assemblers leave at its place, with targets at the ends of the range, at each bit the encoders treat apart, and across a carry into the high half | branches, move pairs and pointers mean what the source means; two relocations of one place, with others beside or over it, compose |
| `fetch` | fetches of a file that the host removes, replaces, grows and shrinks, with every call failing when it may, and a console that mounts and unmounts | handles and buffers are given back, no file cut short is delivered, and the mount flag is not set by a mount that failed |
| `shell` | any sequence of commands over 4 images and a number that is none, 3 URIs and none, and a file that changes | the buffer's lifetime, true answers, what `callsym` calls; nothing is tried again, and every command ends or is in a payload |
| `export_race` | a thread that registers and removes 3 names and one that looks them up, interleaved at every read and write of a field or a character | calls look like single steps; a name that stays and has a character of its own is found; no stale address is returned |
| `section_symbol`, `shared_page`, `long_name`, `notype_race` | one statement of the documents each | TLC finds each violated (section 5) |

**Bounds.** The export table has 2 slots: enough for a full table, for a hole
before a name, and for a name replaced in a full table. Three names can be bound
in `exports`, one more than the slots. The index has 4 entries, one less than
`ManyExports` needs and enough for two modules that differ. Pages have 4 bytes
and sections up to 5, so sections share pages, cross them and end at their
edges; alignments up to 8 are larger than a page. `HeapLimit` is 2: a leaked
buffer and the one in use; with it TLC stops after two leaks with `calloc`
failing, as it may. The images of `MCModLoader` take each early return of the
loader once; `layout` instead enumerates sections. `MCLayout` loads one image
and stops, and the loop of `ModReloc` ends, so their cfgs do not check for
deadlock; the others never stop. `relocations` has programs of one to three
relocations: two make a pair of moves or share a place, a third is ignored or
refused, is at a place of its own, or lies over half of another's. Its distances
are each power of two at which an encoder changes what it does, and both ends of
each range. In `fetch` a file has up to 3 blocks and the limit is 2, so there is
a file above the limit, one at it, an empty one, and two of the same size with
other contents. `shell` starts with a host that has no file and a share that is
attached: the host makes files meanwhile, and `fetch` has the case without a
share. Its payloads return 42 and -1, a value and an error. `export_race` has
two slots for three names of two characters, `ax`, `bc` and `ac`, which is a
mixture of the others: a lookup of `ac` that is preempted while a slot goes from
`ax` to `bc` matches it there.

**Fairness.** `CommandsEnd` needs weak fairness of `ShellStep`, the steps the
shell's thread takes on its own once a command is given; commands, payloads'
returns, the host and other threads have none. `LoadReturns` needs weak fairness
of `LoadStep`, that is, that the thread in a load goes on running: the loader's
loops are bounded, it waits for nothing, and LK schedules a ready thread. Other
threads' calls, failures and a payload's return have no fairness.

## 4. What is proved

TLAPS proves the following for all values of the constants: any set of images
with any number of sections, symbols and relocations, any page size, table size
and load address.

| Theorem | Statement |
|---|---|
| `ModLoaderProofs!LoaderTypes` | `Spec => []TypeOK` |
| `ModLoaderProofs!RegionSafety` | `Spec => []MappedIffLoaded` |
| `ModLoaderProofs!WxSafety` | `Spec => []ResidentIsWx` |
| `ModLoaderProofs!LayoutSafety` | `Spec => []LayoutSound` |
| `ModLoaderProofs!ResidentSafety` | `Spec => ResidentUntouched` |
| `ModLoaderProofs!BufferSafety` | `Spec => []BuffersFreed` |
| `ModLoaderLinks!SyncSafety` | `Spec => []CodeSynced` |
| `ModLoaderLinks!ExecSafety` | `Spec => []CodeExecutable` |
| `ModLoaderLinks!ImportSafety` | `Spec => []ImportsConsistent` |
| `ModLoaderLinks!LocalLinkSafety` | `Spec => [](OrdinaryReferences(img) => LocalSymbolsLinked)` |
| `ModLoaderLinks!ImportLinkSafety` | `~Concurrent` implies `Spec => []ImportsLinked` |
| `ModLoaderLinks!SlotRefinement` | `OrdinaryExports` implies `Spec => ImplementsSlot` |
| `ModExportProofs!ExportRefinesMap` | `Spec => ImplementsMap` |
| `ModExportProofs!ExportTypes` | `Spec => []TypeOK` of `ModExport` |
| `ModExportProofs!UniqueNames` | `Spec => []NoDuplicateNames` |
| `ModRelocProofs!TypeCorrect` | `Spec => []TypeOK` of `ModReloc` |
| `ModRelocProofs!RelocsComposeHold` | `Spec => []RelocsCompose` |
| `ModRelocProofs!BranchesReachHolds` | `Spec => []BranchesReach` |
| `ModRelocProofs!MovePairsHold` | `Spec => []MovePairsBuild` |
| `ModRelocProofs!PointersReachHolds` | `Spec => []PointersReach` |
| `ModRelocProofs!OpcodesHold` | `Spec => []OpcodesKept` |
| `ModFetchProofs!FetchTypeCorrect` | `FetchSpec => []FetchTypeOK` |
| `ModFetchProofs!CleanReturnHolds` | `FetchSpec => []CleanReturn` |
| `ModFetchProofs!DeliveredWholeHolds` | `FetchSpec => []DeliveredWhole` |
| `ModFetchProofs!MountHolds` | `FetchSpec => []MountHeld` |
| `ModLoaderLinks!LoadsDescend` | `Spec => LoadDescends` |
| `ExportRaceProofs!RaceTypes` | `RaceSpec => []RaceTypeOK` |
| `ExportRaceProofs!AnswersLived` | `RaceSpec => AnswerLived` |
| `ExportRaceProofs!StableNamesFound` | `RaceSpec => StableNameFound` |
| `ModShellProofs!ShellTypes` | `ShellSpec => []ShellTypeOK` |
| `ModShellProofs!LoaderSafe` | `ShellSpec => []` of `MappedIffLoaded`, `BuffersFreed`, `LayoutSound`, `ResidentIsWx` and `CodeExecutable` |
| `ModShellProofs!BufferSafe` | `ShellSpec => []BufferHeld` |
| `ModShellProofs!AllReturned` | `ShellSpec => []NothingHeld` |
| `ModShellProofs!AnswersSafe` | `ShellSpec => AnswersTrue` |
| `ModShellProofs!CallsSafe` | `FunctionsInCode` implies `ShellSpec => []CallsExport` |
| `ModShellProofs!CommandsDescend` | `ShellSpec => CommandDescends` |

**The argument.** `MappedIffLoaded` speaks of the states between calls; to
follow a call through its steps the inductive invariant `IInv` says what is true
at each of them. `CallInv`: a load runs only while no module is resident.
`RegionInv`: from the step that maps the region to the one that commits or
fails, the region is mapped with as many pages as `total` needs. `ProtectInv`:
in the loop over the pages, those below the counter are no longer writable and
executable, so after it none is. `LayoutInv`: in the loop over the sections,
those below the counter are aligned, in order and below `total`. Each safety
property follows from it by arithmetic (`RoundUpFacts`, `NumPagesFacts`:
rounding up, division into pages). `BufferInv` adds where `sym_resolved` may be
in use, and `TypeInv` that the section numbers and symbol numbers the loader
takes from the image are in range when it indexes with them. `ExecInv` says that
the pages below the counter have the permissions of the sections on them, and
`EntryInv` that the entry is the one the image names, from
`modloader_find_entry` or the call on; `CodeExecutable` is both and arithmetic.
`ExportTableProofs` shows that a registration keeps a table well formed and free
of duplicates; it is used for `ModExport` and, for `dyn`, for `ModLoader`.

That an image is linked is an invariant of the relocation loop (`LinkInv`):
there are addresses for the imports, those of `sym_resolved` while it is in use,
with which every relocation of the sections below the counter has its patch. The
addresses stay witnessed after `sym_resolved` is freed, so `ImportSafety` holds
however the table changes. `ResolveInv` adds that they are what the table says,
which is true for as long as the table stands still: hence `~Concurrent`.
`LocalSymbolsLinked` then is arithmetic on bit 0 of a value. It needs the
image's references to be ordinary (`OrdinaryReferences`): none names a section
symbol (the disagreement `section_symbol` shows), and an odd value is one in a
section that is placed at an even address, because `modloader_sym_value` clears
bit 0 of the value and not of the sum.

**The refinements.** `ExportRefinesMap`: a table whose used slots have distinct
names is a map (`MapOf`), a registration changes it at one name, and as many
names are bound as slots are used (`BoundCount`, a bijection), so a full table
is a full map. `SlotRefinement`: a step shows when a module becomes resident or
is unloaded, or when a call ends with an error; all others leave the slot, the
places and what lookups return as they are, because no lookup finds anything
while no module is resident (`Invisible`), whatever the index holds. The step
that commits needs the whole index: `IndexInv` says, in the loop of
`modloader_symbols_build`, that the first entry with a name is that of the first
symbol kept under it. `OrdinaryExports` asks the exports to be in allocated
sections or absolute, and their names to fit the index (the disagreement
`long_name` shows); the images of the run `lifecycle` are such.

For `ModReloc` the invariant (`PlacedInv`) says what is at a place. A relocation
whose halfwords no other one writes (`Apart`) is applied to the word of the
file, once (`OncePlaced`); one that shares its place with a later one, and with
nothing else, has been applied to the word of the file and the later one to what
it left (`TwicePlaced`), since a relocation elsewhere does not touch either
halfword (`Elsewhere`). What remains is arithmetic on one word: lemmas say, for
each encoder, which offset or immediate the architecture reads from what it
writes (`ThumbOffset(EncodeThumbBranch(w, off)) = off` for every even offset in
range, and so on), and that the addend read from a place is the offset the
architecture reads there. The properties follow for every word, place, symbol
and addend, where the run can only sample them. For `ModFetch` the invariant
says at each place of the function what is held (`Counted`) and that `size` is
the length of a version of the file the host had while it was open
(`Witnessed`); and that past the mount, or with the flag set, the share is
mounted unless the console has unmounted it since.

**The race.** For `ExportRace` the invariant (`RInv`) says what each place of
the code knows: which slots the writer has searched without finding its name
(`Searched`), and which characters and fields of the slot in hand it has written
(`Begun`) or zeroed so far (`Fading`); every other slot is zeroed or has a whole
name (`Others`). `Accounted` equates the whole slots with what calls have bound.
A lookup is compared with them (`Reading`): the slot it is about to answer from
holds null or an address that was bound meanwhile, and the slot of a name that
stays bound is never behind it (`Ahead`), since a rebound name keeps its slot.
In any other slot the lookup does not get past a character of the name's own
(`Passing`): whatever mixture of characters of several occupants it reads, that
one is not among them. Without such a character the statement is false: `ac` is
a mixture of `ax` and `bc`.

**The command.** `ModShellProofs` carries the invariants of the loader and of
the fetch through each other's steps: to the loader a step of the command is one
of its own, an error of the fetch returned as its own (`RejectHolds`), or
nothing (`LoaderSteps`); to the fetch it is one of its own or nothing
(`FetchSteps`). What the composition adds is in four parts. `CommandInv`: the
loader runs only in a load, the fetch only in a fetch, a payload only in a call.
`HeldInv`: there is a fetched buffer exactly from the end of a fetch to
`FreeFile`, and the image a load reads is the one in it; that a fetch never
delivers a file cut short (`DeliveredWhole`) is why it is an image at all
(`FileImage`). `OutcomeInv`: the slot is as it was until a load ends, and then
its result tells whether it changed (`LoadGoes`, from the steps that end a
load). `CalleeInv`: `callsym` has the address of the first symbol the index
keeps under the name (`IndexInv`), for as long as it runs. `CallsSafe` adds
arithmetic: the address of a function, with its Thumb bit, is inside its
section, hence on a page of the mapping that the section is on, hence
executable.

**Termination.** Liveness is beyond the prover, but its safety half is proved:
`LoadsDescend` and `CommandsDescend` give a lexicographic measure (the phase,
and the turns the loop has left; before them the call of `modloader_load_uri`
and the call of the file system) that every step of a load or a command lowers,
and that never leaves the natural numbers. What remains for TLC is that some
step is possible until the end, which is about ENABLED.

**From which assumptions.** `LoaderAssumption`, `ExportAssumption`,
`CallAssumption` and `PageAssumption` say that the constants have their types (a
built-in name is not null or too long, a load address is not null).
`AlignAssumption`: no section asks for more alignment than the load address has
(32K): the loader aligns offsets, not addresses, so without it `LayoutSound` is
false. `SymbolAssumption`: a section symbol's value, which `modloader_sym_value`
uses unchecked as a section number, is one; tools give such symbols the value 0.
`ProgramsAssumption` and `FetchAssumption` give the constants of `ModReloc` and
`ModFetch` their types, `RaceAssumption` those of `ExportRace` (null is an
address and a name like others, so far as types go), and `ShellAssumption` those
of `ModShell`: an embedded URI has an image, and so has what a fetch may
deliver, a file the host may have or a beginning of it; `FileAssumption` is
`FetchAssumption` for that instance. TLC evaluates all of them on every run.

Four hypotheses are stated in the theorems that need them and not assumed:
`~Concurrent`, `OrdinaryReferences` and `OrdinaryExports`, explained above, and
`FunctionsInCode`: an exported function of an image is in an allocated
executable section and its value is below the section's size. Compilers make
such images and the loader does not check it; the images of the run `shell` are
such.

**Only model-checked:** the liveness properties `LoadReturns` and `CommandsEnd`,
which are out of the prover's reach, as is ENABLED, and `ImplementsCalls`: that
registrations and removals made by one thread look like single steps is checked
for two slots and not proved. Every other property of a passing run is proved.

## 5. Where the code and its documents disagree

* `section_symbol`: a reference through a section symbol is patched with the
  place of section `st_value`, not `st_shndx` (`modloader_reloc.c:80`, and the
  same at `modloader_symbols.c:64`).
* `shared_page`: a writable section that shares a page with code is not writable
  (`modloader_wx.c:89`), and the linker script does not align `.data` to a page;
  the payloads of the repository have no writable data, so no test shows it.
* `long_name`: an export of 64 characters or more is never found
  (`modloader_symbols.c:117`).
* `notype_race`: a registration between the two lookups of an import loses its
  Thumb bit (`modloader_export.c:143-145`).

`LocalSymbolsLinked` holds in `lifecycle`, where the only section symbol a
relocation names is that of the first section, which is at offset 0, and fails
in `section_symbol`, where it is that of another.

The passing properties have preconditions, and each of them is a limit of the
code that its documents do not have:

* `BranchesReach` (`InReach`): the code encodes a branch whose target is out of
  range, where `ARCHITECTURE.md:283` speaks of ranges; `Linkable` also asks a
  `THM_CALL` to be a BL, because one that is a BLX stays one when its target is
  Thumb code (`STAGES.md:514`).
* `PointersReach` (`ReadPointerAddend`): the addend at the place of a REL
  `TARGET2`, `PREL31` or `RELATIVE` is not read (`modloader_reloc.c:513-545`,
  `STAGES.md:471`), so these mean the symbol, or the load address, alone.
* `MovePairsBuild` (`Excess`): a negative addend in a `MOVW` or `MOVT` is not
  sign-extended (`modloader_reloc.c:119-136`), so the pair builds an address 64
  KiB too high.
* `CodeExecutable` (`EntryInCode`): the entry a blob is registered with, and the
  place of `payload_entry`, are taken as they are; one outside the code is
  committed and called.
* `RunReturns`: a payload that returns -255 to -1 is reported as an error
  (`modloader_shell.c:77`).
* `MountHeld`: when the console has mounted the share, `fs_mount` fails at the
  taken mount point and every fetch with it (`modloader_fetch.c:36`); when it
  has unmounted it, the flag stays set and every fetch fails at the open
  (`modloader_fetch.c:26`).
* `DeliveredWhole`: of a file that grows after `fs_stat_file` the beginning is
  delivered (`STAGES.md:342`).
* `CallsExport`: `callsym` calls an export that is not a function
  (`STAGES.md:370`), so only functions are said to be on executable pages.
* `ImportsConsistent` speaks of the imports of one load: a resident module goes
  on calling an export that was unregistered, and nothing records that it does
  (`modloader_export.c:92`).
* `ImplementsCalls`, and all of `ExportRace`: one thread makes the registrations
  and removals. Nothing in the code keeps two from doing so at once, and then
  both can take one slot and a name is lost (`modloader_export.c:74`).
* `StableNameFound` (`TellingAt`): a name without a character that is its own at
  some place may be matched by a mixture of two occupants of a slot, or by the
  beginning of a longer name that is being written, and the lookup answers from
  that slot (`modloader_export.c:110`).
* `LocalSymbolsLinked` (`OrdinaryReferences`): a reference to an object at an
  odd value, in a section at an odd address, is one byte too low
  (`modloader_reloc.c:84`).
* `ImplementsSlot` (`OrdinaryExports`): a global symbol of a section that is not
  allocated is found at an address where it is not (`modloader_symbols.c:68`).
* `AnswerLived`: a lookup of a function may return 1, the null address with the
  Thumb bit, when it meets a slot that is half written, and another name's
  address when the slot changes hands during the comparison, or between it and
  the read.

## 6. Not modelled

* `setup.sh`: a development tool that downloads and unpacks a toolchain. It
  keeps files, shares nothing with the loader and is not part of the program.
* The payloads, build rules, test driver and document generator: the loader's
  inputs and tools around it, without behaviour of their own to model.
* Two loads at once. `ARCHITECTURE.md:59` leaves them out and the one shell
  thread is the only caller; the hazard is listed.
* Two kernel threads in `modloader_export_register` at once: `ExportRace` has
  one writer, and no property is stated of the case; the hazard is listed.
* Sections that are allocated and neither `PROGBITS` nor `NOBITS`
  (`modloader_reloc.c:432`): their place stays as `vmm_alloc` gave it. The bytes
  of sections are not modelled, so no property can tell.
* Sums that wrap at 32 bits in the layout (`modloader_reloc.c:404`) and an
  `sh_entsize` of zero (`modloader_reloc.c:499`): the sizes in the model are
  those of images the tools make, and entries have their size.
* `modtest info` and the usage text, which only print.
