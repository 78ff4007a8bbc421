------------------------------ MODULE ElfImage ------------------------------
(***************************************************************************)
(* The images the loader is given, and the functions of modloader_reloc.c, *)
(* modloader_symbols.c and modloader_wx.c that only read them.             *)
(*                                                                         *)
(* An ET_REL image is its section headers and its symbol table.  Section   *)
(* header i is sections[i]; header 0, which no loop visits, is left out.   *)
(* Entry k of the symbol table is symbols[k + 1], and a relocation names   *)
(* its symbol by that position.  A check of the file's extents is a        *)
(* Boolean of the header it is made on.  Relocation types that the loader  *)
(* treats alike are one type here:                                         *)
(*   "none"        R_ARM_NONE, R_ARM_THM_PC12: nothing is written          *)
(*   "relative"    R_ARM_RELATIVE: the symbol is the load base             *)
(*   "symbol"      every other supported type                              *)
(*   "unsupported" the rest                                                *)
(* How a value is encoded in an instruction is not modelled here.          *)
(***************************************************************************)
EXTENDS Lk, Sequences, FiniteSetsExt

CONSTANTS
    EntryName,      \* "payload_entry"
    ArtifactNames,  \* names that start with "$" or "__modloader_"
    PageSize        \* PAGE_SIZE

ASSUME PageAssumption == PageSize \in Nat \ {0}

SHN_UNDEF == 0
SHN_LORESERVE == 65280
SHN_ABS == 65521

Reloc == [offset : Nat, sym : Nat,
          type : {"none", "relative", "symbol", "unsupported"}]

Section == [type : {"progbits", "nobits", "rel", "other"},
            alloc : BOOLEAN, exec : BOOLEAN, write : BOOLEAN,
            size : Nat, align : Nat,
            inFile : BOOLEAN,           \* sh_offset + sh_size <= image_size
            info : Nat,                 \* sh_info, the section to relocate
            rels : Seq(Reloc)]

Symbol == [name : STRING, bind : {"local", "global", "weak"},
           type : {"notype", "object", "func", "section"},
           shndx : Nat, value : Nat]

\* header is "alien" when modloader_load_elf_buffer refuses the file and "bad"
\* when a header check of modloader_load_rel_image does; symtab is "bad" when
\* the symbol table or its strings are outside the file.
RelImage == [kind : {"rel"}, header : {"ok", "alien", "bad"},
             sections : Seq(Section),
             symtab : {"none", "bad", "ok"}, symbols : Seq(Symbol)]

\* The blob objcopy makes of an ET_EXEC payload, and what payload_meta.h says
\* of it.
ExecImage == [kind : {"exec"}, size : Nat, rxSize : Nat, entry : Nat]

------------------------------------------------------------------------------
Shnum(m) == Len(m.sections) + 1
AllocSections(m) == {i \in DOMAIN m.sections : m.sections[i].alloc}

NumPages(size) == RoundUp(size, PageSize) \div PageSize

\* sh_addralign forgotten, for the mutation runs.
PackedOffset(total, s) == total

\* Where section s goes when the sections before it end at total.
AlignedOffset(total, s) == IF s.align > 1 THEN RoundUp(total, s.align) ELSE total

\* sec_addr forgotten, for the mutation runs.
FlatAddr(sym, base, off) == base + sym.value

\* The address of what symbol sym defines in its section, off being sec_addr.
DefinedAddr(sym, base, off) ==
    LET a == base + off[sym.shndx] + ClearBit0(sym.value)
    IN  IF sym.value % 2 = 1 THEN SetBit0(a) ELSE a

\* The code indexes sec_addr with st_value for a section symbol.
SymValue(m, sym, base, off) ==
    IF sym.shndx = SHN_UNDEF THEN NULL
    ELSE IF sym.shndx = SHN_ABS THEN sym.value
    ELSE IF sym.shndx >= SHN_LORESERVE \/ sym.shndx >= Shnum(m) THEN NULL
    ELSE IF sym.type = "section" THEN base + off[sym.value]
    ELSE DefinedAddr(sym, base, off)

SymIsThumb(sym, val) == val % 2 = 1 \/ sym.type = "func"

IsGlobal(sym) == sym.bind \in {"global", "weak"}

\* Weak imports left alone, for the mutation runs.
IsStrongImport(sym) == sym.shndx = SHN_UNDEF /\ sym.bind = "global" /\ sym.name # NoName

\* Symbols that modloader_resolve_externals looks up.
IsImport(sym) == sym.shndx = SHN_UNDEF /\ IsGlobal(sym) /\ sym.name # NoName

SkipModuleExport(name) == name = NoName \/ name \in ArtifactNames

\* Symbols that modloader_symbols_build wants in the index.
IsExport(sym) ==
    /\ IsGlobal(sym)
    /\ sym.type \in {"func", "object"}
    /\ sym.shndx # SHN_UNDEF
    /\ ~SkipModuleExport(sym.name)

\* The address of the first global function called payload_entry, NULL for
\* none or when that one is not defined in a section.
EntrySymbols(m) ==
    {k \in DOMAIN m.symbols :
        /\ m.symbols[k].type = "func" /\ IsGlobal(m.symbols[k])
        /\ m.symbols[k].name = EntryName}

FindEntry(m, base, off) ==
    LET sym == m.symbols[Min(EntrySymbols(m))]
    IN  IF EntrySymbols(m) = {} \/ sym.shndx = SHN_UNDEF \/ sym.shndx >= Shnum(m)
        THEN NULL
        ELSE DefinedAddr(sym, base, off)

------------------------------------------------------------------------------
\* Relocation r, with the imports in resolved.
RelocStatus(m, r) ==
    IF r.sym \notin DOMAIN m.symbols /\ r.type # "relative" THEN NOT_VALID
    ELSE IF r.type = "unsupported" THEN NOT_SUPPORTED
    ELSE NO_ERROR

RelocSymbol(m, r, base, off, resolved) ==
    LET sym == m.symbols[r.sym]
    IN  IF sym.shndx = SHN_UNDEF /\ resolved[r.sym] # NULL
        THEN resolved[r.sym]
        ELSE SymValue(m, sym, base, off)

\* S | T: what the relocation adds its addend to.
RelocValue(m, r, base, off, resolved) ==
    IF r.type = "relative" THEN base
    ELSE LET v == RelocSymbol(m, r, base, off, resolved)
         IN  IF SymIsThumb(m.symbols[r.sym], v) THEN SetBit0(v) ELSE v

------------------------------------------------------------------------------
Perms == {"RWX", "RX", "RW", "RO"}

\* The sections that page_va < sec_end and sec_start < page_end select.
SectionsOnPage(m, off, p) ==
    {i \in AllocSections(m) :
        /\ p * PageSize < off[i] + m.sections[i].size
        /\ off[i] < (p + 1) * PageSize}

\* A page with data in it is writable even when it has code, for the mutation
\* runs.
PageFlagsDataFirst(m, off, p) ==
    LET here == SectionsOnPage(m, off, p)
    IN  IF \E i \in here : m.sections[i].write THEN "RW"
        ELSE IF \E i \in here : m.sections[i].exec THEN "RX"
        ELSE "RO"

PageFlags(m, off, p) ==
    LET here == SectionsOnPage(m, off, p)
    IN  IF \E i \in here : m.sections[i].exec THEN "RX"
        ELSE IF \E i \in here : m.sections[i].write THEN "RW"
        ELSE "RO"

\* Page p of a blob: the first rxSize bytes, rounded up to pages, are code.
SplitFlags(m, p) == IF p < NumPages(m.rxSize) THEN "RX" ELSE "RW"
==============================================================================
