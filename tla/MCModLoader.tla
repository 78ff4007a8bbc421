----------------------------- MODULE MCModLoader -----------------------------
(***************************************************************************)
(* Images for TLC.  A page has 4 bytes and the slot is at address 16.  The *)
(* images are the smallest that take each path of the loader: one that     *)
(* loads, one for each early return, and those that combine.               *)
(***************************************************************************)
EXTENDS ModLoader

Sect(type, alloc, exec, write, size, align) ==
    [type |-> type, alloc |-> alloc, exec |-> exec, write |-> write,
     size |-> size, align |-> align, inFile |-> TRUE, info |-> 0, rels |-> << >>]
Text(size) == Sect("progbits", TRUE, TRUE, FALSE, size, 2)
Data(size) == Sect("progbits", TRUE, FALSE, TRUE, size, 4)
Bss(size) == Sect("nobits", TRUE, FALSE, TRUE, size, 4)
Rodata(size, align) == Sect("progbits", TRUE, FALSE, FALSE, size, align)
Debug == Sect("progbits", FALSE, FALSE, FALSE, 3, 1)
Rel(info, rels) ==
    [Sect("rel", FALSE, FALSE, FALSE, Len(rels), 1) EXCEPT !.info = info, !.rels = rels]

R(offset, sym, type) == [offset |-> offset, sym |-> sym, type |-> type]
Sym(name, bind, type, shndx, value) ==
    [name |-> name, bind |-> bind, type |-> type, shndx |-> shndx, value |-> value]
NullSym == Sym("", "local", "notype", 0, 0)
Entry == Sym("payload_entry", "global", "func", 1, 1)

Image(sections, symbols) ==
    [kind |-> "rel", header |-> "ok", sections |-> sections,
     symtab |-> "ok", symbols |-> symbols]

Exec == [kind |-> "exec", size |-> 6, rxSize |-> 3, entry |-> 17]
EmptyExec == [Exec EXCEPT !.size = 0]

\* A module that links to itself and exports a function and an object.
Plain == Image(
    <<Text(4), Debug, Data(3),
      Rel(1, <<R(2, 3, "symbol"), R(0, 2, "symbol"), R(1, 1, "none")>>),
      Rel(2, <<R(0, 9, "unsupported")>>), Rel(3, <<R(0, 5, "symbol")>>)>>,
    <<NullSym, Sym("", "local", "section", 1, 0), Sym("get", "global", "func", 1, 3),
      Entry, Sym("tab", "weak", "object", 3, 2), Sym("$t", "global", "func", 1, 1)>>)

\* Another with other exports: "get" is elsewhere, "tab" is not there.
Other == Image(
    <<Data(2), Text(2), Rel(1, <<R(0, 0, "relative"), R(1, 2, "symbol")>>)>>,
    <<NullSym, Sym("get", "global", "object", 1, 1),
      [Entry EXCEPT !.shndx = 2], Sym("abs", "global", "object", SHN_ABS, 7),
      Sym("zero", "global", "object", SHN_ABS, 0)>>)

\* Modules that import: a built-in, a dynamic export, a weak dynamic one.
Importer == Image(
    <<Text(4), Rel(1, <<R(0, 3, "symbol"), R(1, 4, "symbol"), R(2, 5, "symbol")>>)>>,
    <<NullSym, Entry, Sym("add", "global", "notype", 0, 0),
      Sym("ext", "global", "notype", 0, 0), Sym("opt", "weak", "notype", 0, 0)>>)
WeakImporter == [Importer EXCEPT !.symbols[4].bind = "weak", !.symbols[4].type = "object"]

Alien == [Plain EXCEPT !.header = "alien"]
BadHeader == [Plain EXCEPT !.header = "bad"]
NothingAlloc == Image(<<Debug>>, <<NullSym>>)
CutSection == [Plain EXCEPT !.sections[3].inFile = FALSE]
CutSymbols == [Plain EXCEPT !.symtab = "bad"]
NoSymbols == [Image(<<Text(2)>>, << >>) EXCEPT !.symtab = "none"]
NoEntry == [Importer EXCEPT !.symbols[2].name = "main"]
UndefinedEntry == [Importer EXCEPT !.symbols[2].shndx = 0, !.symbols[2].bind = "weak"]
CutRel == [Plain EXCEPT !.sections[6].inFile = FALSE]
WildRel == [Plain EXCEPT !.sections[6].info = 7]
WildSymbol == [Plain EXCEPT !.sections[6].rels[1].sym = 7]
Unsupported == [Plain EXCEPT !.sections[6].rels[1].type = "unsupported"]
ManyExports == [Plain EXCEPT !.symbols = @ \o
    <<Sym("e1", "global", "func", 1, 1), Sym("e2", "global", "func", 1, 3)>>]

MCImages == {Exec, EmptyExec, Plain, Other, Importer, WeakImporter, Alien, BadHeader,
             NothingAlloc, CutSection, CutSymbols, NoSymbols, NoEntry, UndefinedEntry,
             CutRel, WildRel, WildSymbol, Unsupported, ManyExports}

\* Two sections that refer to the same imports.
TwoImporters == Image(
    <<Text(2), Data(2), Rel(1, <<R(0, 3, "symbol"), R(1, 4, "symbol")>>),
      Rel(2, <<R(0, 3, "symbol"), R(1, 4, "symbol")>>)>>,
    Importer.symbols)

MCConcurrentImages == {Exec, Other, WeakImporter, TwoImporters, ManyExports}

\* For the disagreements between the code and its documents.
SectionReference == Image(
    <<Text(4), Rodata(4, 4), Rel(1, <<R(0, 2, "symbol")>>)>>,
    <<NullSym, Sym("", "local", "section", 2, 0), Entry>>)
SharedPage == Image(<<Text(2), Sect("progbits", TRUE, FALSE, TRUE, 2, 2)>>, <<NullSym, Entry>>)
LongExport == Image(<<Text(4)>>, <<NullSym, Entry, Sym("longname", "global", "func", 1, 3)>>)

MCSectionImages == {SectionReference}
MCSharedImages == {SharedPage}
MCLongImages == {LongExport}
MCImportImages == {Importer}

MCNames == {"", "payload_entry", "main", "get", "tab", "abs", "zero", "$t",
            "add", "ext", "opt", "e1", "e2",
            "longname", "longnam"}
MCStored == [n \in MCNames |-> IF n = "longname" THEN "longnam" ELSE n]
MCBuiltins == [n \in {"add"} |-> 200]
MCExportCalls == {<<"ext", 300>>, <<"ext", 310>>, <<"opt", 320>>, <<"add", 330>>}
==============================================================================
