------------------------------ MODULE ModShell ------------------------------
(***************************************************************************)
(* The modtest command and the load calls it makes: modloader_load_image,  *)
(* modloader_load_uri, which fetches a file, loads it from the buffer and  *)
(* frees the buffer, modloader_run, the lookup and call of a symbol, and   *)
(* what the command answers.  ModLoader and ModFetch take the steps; the   *)
(* shell's thread makes one call at a time, while the host changes files   *)
(* and other threads change the export table.  The info command only reads *)
(* and prints.                                                             *)
(***************************************************************************)
EXTENDS ModLoader

CONSTANTS Uris, Paths, HostFiles, MaxFetch, NoPath,     \* of ModFetch
    EmbedUri,       \* the URIs modloader_parse_embed_uri knows, with their images
    NoUri,          \* a null or empty URI
    ImageOf,        \* the images contents of files are, and their beginnings
    PayloadValues   \* what a payload's entry may return

ASSUME ShellAssumption ==
    /\ DOMAIN EmbedUri \subseteq Uris /\ NoUri \notin Uris
    /\ \A u \in DOMAIN EmbedUri : EmbedUri[u] \in Images
    /\ \A c \in DOMAIN ImageOf : ImageOf[c] \in Images /\ ImageOf[c].kind = "rel"
    /\ \A f \in HostFiles : \A n \in 1 .. MaxFetch :
          n <= Len(f.data) => SubSeq(f.data, 1, n) \in DOMAIN ImageOf
    /\ PayloadValues \subseteq Int

VARIABLES
    file, share, flag, handles, bufs, fpc, path, size, out, status, unmounted, seen,
    cmd,        \* where the command is, "none" at the prompt
    answer,     \* what the last command answered
    callee,     \* the symbol callsym calls, and its address
    before      \* history: modloader_mod when the command was given

F == INSTANCE ModFetch

ASSUME FileAssumption == F!FetchAssumption

fileVars == <<file, share, flag, handles, bufs, fpc, path, size, out, status,
              unmounted, seen>>
shellVars == <<answer, callee, before>>
allVars == <<vars, fileVars, cmd, shellVars>>

NoCallee == [name |-> NoName, addr |-> NULL]

\* modloader_mod and the statics of the other files are zero.  The device is there
\* and its host has no files yet: ModFetch has the others.
ShellInit ==
    /\ Init /\ F!FetchInit
    /\ share = "attached" /\ \A p \in Paths : file[p].type = "none"
    /\ cmd = "none" /\ answer = "none"
    /\ callee = NoCallee /\ before = NoModule

------------------------------------------------------------------------------
\* modloader_load_exec_blob or modloader_load_rel_image is called with m.
Begin(m) == RefuseExec(m) \/ LoadExec(m) \/ RefuseRel(m) \/ LoadRel(m)

Prompt == cmd = "none" /\ before' = mod

\* The command ends with an answer.
End(a) == cmd' = "none" /\ answer' = a /\ before' = NoModule
Continue(c) == cmd' = c /\ answer' = "none"

\* NoImage is a number beyond MODLOADER_IMAGE_IMPORT.
LoadImage(m) ==
    /\ Prompt /\ Continue("load")
    /\ IF m = NoImage THEN Reject(INVALID_ARGS) ELSE Begin(m)
    /\ UNCHANGED <<fileVars, callee>>

\* NoUri is a null or an empty string.
LoadUri(u) ==
    /\ Prompt
    /\ \/ /\ u = NoUri
          /\ Reject(INVALID_ARGS) /\ Continue("load") /\ UNCHANGED fileVars
       \/ /\ u \in DOMAIN EmbedUri
          /\ Begin(EmbedUri[u]) /\ Continue("load") /\ UNCHANGED fileVars
       \/ /\ u \in Uris \ DOMAIN EmbedUri
          /\ F!Fetch(u) /\ Continue("fetch") /\ UNCHANGED vars
    /\ UNCHANGED callee

FetchGoesOn ==
    /\ cmd = "fetch" /\ F!FetchStep
    /\ UNCHANGED <<vars, cmd, shellVars>>

\* An error of the fetch lost, for the mutation runs.
FetchDropped ==
    /\ cmd = "fetch" /\ fpc = "idle"
    /\ IF status # NO_ERROR
       THEN UNCHANGED vars /\ cmd' = "load"
       ELSE Begin(ImageOf[out]) /\ cmd' = "buffer"
    /\ UNCHANGED <<fileVars, shellVars>>

\* A fetch that fails is not seen to end, for the mutation runs.
FetchAwaited ==
    /\ cmd = "fetch" /\ fpc = "idle" /\ status = NO_ERROR
    /\ Begin(ImageOf[out]) /\ cmd' = "buffer"
    /\ UNCHANGED <<fileVars, shellVars>>

\* A fetch that fails is tried again, for the mutation runs.
FetchRetried ==
    /\ cmd = "fetch" /\ fpc = "idle"
    /\ \/ /\ status # NO_ERROR /\ \E u \in Uris : F!Fetch(u)
          /\ UNCHANGED <<vars, cmd>>
       \/ /\ status = NO_ERROR /\ Begin(ImageOf[out]) /\ cmd' = "buffer"
          /\ UNCHANGED fileVars
    /\ UNCHANGED shellVars

\* The buffer forgotten, for the mutation runs.
FetchKept ==
    /\ cmd = "fetch" /\ fpc = "idle"
    /\ IF status # NO_ERROR THEN Reject(status) ELSE Begin(ImageOf[out])
    /\ cmd' = "load"
    /\ UNCHANGED <<fileVars, shellVars>>

\* The fetch returns: modloader_load_elf_buffer is called with what it gave.
FetchEnds ==
    /\ cmd = "fetch" /\ fpc = "idle"
    /\ IF status # NO_ERROR
       THEN Reject(status) /\ cmd' = "load"
       ELSE Begin(ImageOf[out]) /\ cmd' = "buffer"
    /\ UNCHANGED <<fileVars, shellVars>>

LoadGoesOn ==
    /\ cmd \in {"load", "buffer"} /\ LoadStep
    /\ UNCHANGED <<fileVars, cmd, shellVars>>

\* Freed before the load is done with it, for the mutation runs.
FreeEarly ==
    /\ cmd = "buffer" /\ F!Release
    /\ UNCHANGED <<vars, cmd, shellVars>>

FreeFile ==
    /\ cmd = "buffer" /\ pc = "idle" /\ F!Release
    /\ cmd' = "load"
    /\ UNCHANGED <<vars, shellVars>>

\* The answer given while the load goes on, for the mutation runs.
AnswerEarly ==
    /\ cmd = "load"
    /\ End(IF result = NO_ERROR THEN "ok" ELSE "error")
    /\ UNCHANGED <<vars, fileVars, callee>>

AnswerStatus ==
    /\ cmd = "load" /\ pc = "idle"
    /\ End(IF result = NO_ERROR THEN "ok" ELSE "error")
    /\ UNCHANGED <<vars, fileVars, callee>>

UnloadModule ==
    /\ Prompt /\ Unload /\ Continue("load")
    /\ UNCHANGED <<fileVars, callee>>

------------------------------------------------------------------------------
RunModule ==
    /\ cmd = "none" /\ Run
    /\ IF mod.loaded THEN Continue("run") /\ before' = mod ELSE End("error")
    /\ UNCHANGED <<fileVars, callee>>

IsError(v) == v < 0 /\ v > -256

RunReturns ==
    /\ cmd = "run" /\ Return
    /\ \E v \in PayloadValues : End(IF IsError(v) THEN "error" ELSE "value")
    /\ UNCHANGED <<fileVars, callee>>

\* Whatever the lookup returns is called, for the mutation runs.
CallAny(name) ==
    /\ cmd = "none"
    /\ IF ~mod.loaded \/ mod.kind # "rel"
       THEN End("error") /\ UNCHANGED <<vars, callee>>
       ELSE /\ Run /\ Continue("call") /\ before' = mod
            /\ callee' = [name |-> name, addr |-> LookupSymbol(name)]
    /\ UNCHANGED fileVars

CallSym(name) ==
    /\ cmd = "none"
    /\ IF ~mod.loaded \/ mod.kind # "rel" \/ LookupSymbol(name) = NULL
       THEN End("error") /\ UNCHANGED <<vars, callee>>
       ELSE /\ Run /\ Continue("call") /\ before' = mod
            /\ callee' = [name |-> name, addr |-> LookupSymbol(name)]
    /\ UNCHANGED fileVars

SymReturns ==
    /\ cmd = "call" /\ Return
    /\ End("value") /\ callee' = NoCallee
    /\ UNCHANGED fileVars

WxCheck ==
    /\ cmd = "none"
    /\ End(IF WxVerify = NO_ERROR THEN "ok" ELSE "error")
    /\ UNCHANGED <<vars, fileVars, callee>>

------------------------------------------------------------------------------
Command ==
    \/ \E m \in Images \cup {NoImage} : LoadImage(m)
    \/ \E u \in Uris \cup {NoUri} : LoadUri(u)
    \/ UnloadModule \/ RunModule \/ WxCheck
    \/ \E n \in Names : CallSym(n)

ShellStep == FetchGoesOn \/ FetchEnds \/ LoadGoesOn \/ FreeFile \/ AnswerStatus

PayloadReturns == RunReturns \/ SymReturns

Environment ==
    \/ /\ \/ \E p \in Paths : F!HostWrites(p)
          \/ cmd = "none" /\ F!ConsoleMounts
       /\ UNCHANGED <<vars, cmd, shellVars>>
    \/ ExportChange /\ UNCHANGED <<fileVars, cmd, shellVars>>

ShellNext == Command \/ ShellStep \/ PayloadReturns \/ Environment

\* The shell's thread goes on with a command; nothing says a payload returns.
ShellSpec == ShellInit /\ [][ShellNext]_allVars /\ WF_allVars(ShellStep)

------------------------------------------------------------------------------
\* Every variable of the command keeps its kind of value, and the loader and
\* the fetch run when the command is where it calls them.
ShellTypeOK ==
    /\ cmd \in {"none", "load", "fetch", "buffer", "run", "call"}
    /\ answer \in {"none", "ok", "error", "value"}
    /\ callee.name \in Names \cup {NoName} /\ callee.addr \in Nat
    /\ fpc # "idle" => cmd = "fetch"
    /\ pc \in LoadPcs => cmd \in {"load", "buffer"}
    /\ pc = "running" <=> cmd \in {"run", "call"}

\* Whatever a load from a file meets, the buffer it was fetched into is there,
\* unchanged, as long as modloader_load_rel_image reads sections, relocations
\* and names from it.
BufferHeld ==
    pc \in LoadPcs /\ cmd = "buffer" =>
        bufs = 1 /\ out # << >> /\ img = ImageOf[out]

\* And at the prompt all that commands have taken is given back: the file is
\* closed, the buffer freed, and so is every sym_resolved but those lost.
\* A load from the kernel's own images needs no buffer.
NothingHeld ==
    /\ cmd = "none" => bufs = 0 /\ handles = 0 /\ heap <= lost
    /\ cmd = "load" => bufs = 0 /\ handles = 0

\* A load or an unload is answered ok exactly when it changed what is resident:
\* an error of the fetch, of the loader or of the index is never answered ok,
\* and never leaves a module.
AnswersTrue ==
    [][cmd = "load" /\ cmd' = "none" => (answer' = "ok" <=> mod # before)]_allVars

\* The symbol table entry a name stands for, the first of that name.
Called(k) ==
    /\ k \in DOMAIN img.symbols
    /\ IsExport(img.symbols[k])
    /\ Stored[img.symbols[k].name] = callee.name
    /\ callee.addr = SymValue(img, img.symbols[k], Base, secAddr)

\* callsym calls an export of the module that is resident while it runs; when
\* the export is a function of the module, the call arrives on a page that can
\* be executed.
CallsExport ==
    cmd = "call" =>
        /\ mod.loaded
        /\ \E k \in 1 .. Len(img.symbols) :
              /\ Called(k)
              /\ img.symbols[k].type = "func" /\ DefinedHere(img.symbols[k])
                   => CodeAt(callee.addr)

\* How far a command is from its answer: the calls of modloader_load_uri before
\* it, and those of a fetch.
CommandPhase ==
    CASE cmd = "fetch" -> 3 [] cmd = "buffer" -> 2 [] cmd = "load" -> 1 [] OTHER -> 0

FetchPhase ==
    CASE fpc = "mount" -> 4 [] fpc = "open" -> 3 [] fpc = "stat" -> 2 [] fpc = "read" -> 1
      [] OTHER -> 0

\* A command takes a number of steps that its image bounds: nothing that fails is
\* tried again, whatever the host does to the file meanwhile.
CommandDescends ==
    [][/\ TurnsLeft' \in Nat
       /\ ShellStep =>
             \/ CommandPhase' < CommandPhase
             \/ CommandPhase' = CommandPhase /\ FetchPhase' < FetchPhase
             \/ /\ CommandPhase' = CommandPhase /\ FetchPhase' = FetchPhase
                /\ Phase' < Phase \/ (Phase' = Phase /\ TurnsLeft' < TurnsLeft)]_allVars

\* A command ends, or is in a payload that has not returned.
CommandsEnd == (cmd # "none") ~> (cmd = "none" \/ pc = "running")
==============================================================================
