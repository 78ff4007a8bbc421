--------------------------- MODULE ModShellProofs ---------------------------
(***************************************************************************)
(* The modtest command holds on to what its calls need, gives it back, and *)
(* answers what they did, for all images, files, exports and payloads.     *)
(***************************************************************************)
EXTENDS ModShell, ModLoaderLinks

FP == INSTANCE ModFetchProofs

\* The invariants of the loader, which the command drives...
LoaderInv ==
    IInv /\ BufferInv /\ TypeInv /\ KindInv /\ ExecInv /\ EntryInv /\ IndexInv /\ LoopInv

Loading == cmd \in {"load", "buffer"}

\* ... where the command is when the loader and the fetch run ...
CommandInv ==
    /\ cmd \in {"none", "load", "fetch", "buffer", "run", "call"}
    /\ answer \in {"none", "ok", "error", "value"}
    /\ callee.name \in Names \cup {NoName} /\ callee.addr \in Nat
    /\ fpc # "idle" => cmd = "fetch"
    /\ pc \in LoadPcs => Loading
    /\ pc = "running" <=> cmd \in {"run", "call"}

\* ... the buffer there is from the end of a fetch to FreeFile ...
HeldInv ==
    /\ out # << >> <=> \/ cmd = "buffer"
                       \/ cmd = "fetch" /\ fpc = "idle" /\ status = NO_ERROR
    /\ cmd = "buffer" /\ pc \in LoadPcs => img = ImageOf[out]

\* ... what a load that is over has changed ...
OutcomeInv ==
    /\ cmd = "fetch" \/ (Loading /\ pc \in LoadPcs) => mod = before
    /\ Loading /\ pc = "idle" => (result = NO_ERROR <=> mod # before)

\* ... and the symbol that is called.
Kept(k) ==
    /\ KeepsSymbol(img.symbols[k])
    /\ Stored[img.symbols[k].name] = callee.name
    /\ callee.addr = IndexEntry(img.symbols[k]).addr

CalleeInv ==
    cmd = "call" => mod.loaded /\ mod.kind = "rel" /\ \E k \in DOMAIN img.symbols : Kept(k)

SInv == LoaderInv /\ FP!IInv /\ CommandInv /\ HeldInv /\ OutcomeInv /\ CalleeInv

------------------------------------------------------------------------------
\* What ModFetch calls its names is what Lk calls them, and ModFetchProofs.
LEMMA FetchNames ==
    /\ F!Statuses = Statuses /\ FP!Statuses = Statuses
    /\ F!NO_ERROR = NO_ERROR /\ FP!NO_ERROR = NO_ERROR
    /\ F!NoBuf = << >> /\ FP!NoBuf = << >>
BY DEF F!Statuses, FP!Statuses, Statuses, F!NO_ERROR, FP!NO_ERROR, NO_ERROR, F!NoBuf, FP!NoBuf,
   F!INVALID_ARGS, F!NOT_VALID, F!NOT_FOUND, F!ALREADY_EXISTS, F!NO_MEMORY, F!NOT_SUPPORTED,
   F!NOT_READY, F!TOO_BIG, F!NOT_ALLOWED, F!MMU_ERROR, F!NOT_FILE, F!IO,
   FP!INVALID_ARGS, FP!NOT_VALID, FP!NOT_FOUND, FP!ALREADY_EXISTS, FP!NO_MEMORY,
   FP!NOT_SUPPORTED, FP!NOT_READY, FP!TOO_BIG, FP!NOT_ALLOWED, FP!MMU_ERROR, FP!NOT_FILE,
   FP!IO, INVALID_ARGS, NOT_VALID, NOT_FOUND, ALREADY_EXISTS, NO_MEMORY, NOT_SUPPORTED,
   NOT_READY, TOO_BIG, NOT_ALLOWED, MMU_ERROR, NOT_FILE, IO

LEMMA FetchErrors ==
    /\ F!IO # NO_ERROR /\ F!NOT_FOUND # NO_ERROR /\ F!NO_MEMORY # NO_ERROR
    /\ F!NOT_SUPPORTED # NO_ERROR
    /\ FP!IO = F!IO /\ FP!NOT_FOUND = F!NOT_FOUND /\ FP!NO_MEMORY = F!NO_MEMORY
    /\ FP!NOT_SUPPORTED = F!NOT_SUPPORTED
    /\ FP!NOT_FILE = F!NOT_FILE /\ FP!TOO_BIG = F!TOO_BIG
BY DEF F!IO, F!NOT_FOUND, F!NO_MEMORY, F!NOT_SUPPORTED, FP!IO, FP!NOT_FOUND, FP!NO_MEMORY,
   FP!NOT_SUPPORTED, FP!NOT_FILE, F!NOT_FILE, FP!TOO_BIG, F!TOO_BIG, NO_ERROR

\* A step of a fetch, a change of the host and a mount are what they are to it.
LEMMA FetchSteps ==
    /\ F!FetchInit => FP!FetchInit
    /\ \A u \in Uris : F!Fetch(u) => FP!FetchNext
    /\ F!FetchStep => FP!FetchNext
    /\ F!Release => FP!FetchNext
    /\ \A p \in Paths : F!HostWrites(p) => FP!FetchNext
    /\ F!ConsoleMounts => FP!FetchNext
    /\ UNCHANGED fileVars => UNCHANGED FP!fetchVars
<1> USE FetchNames, FetchErrors
<1>1. F!FetchInit => FP!FetchInit
  BY DEF F!FetchInit, FP!FetchInit
<1>2. \A u : F!Fetch(u) => FP!Fetch(u)
  BY DEF F!Fetch, FP!Fetch, F!UriPath, FP!UriPath
<1>3. F!EnsureMounted => FP!EnsureMounted
  BY DEF F!EnsureMounted, FP!EnsureMounted, F!Quit, FP!Quit, F!Forget, FP!Forget,
     F!Proceed, FP!Proceed
<1>4. F!Open => FP!Open
  BY DEF F!Open, FP!Open, F!Quit, FP!Quit, F!Forget, FP!Forget, F!Proceed, FP!Proceed
<1>5. \A err : F!Leave(err) => FP!Leave(err)
  BY DEF F!Leave, FP!Leave, F!Quit, FP!Quit, F!Forget, FP!Forget
<1>6. \A f : FP!StatStatus(f) = F!StatStatus(f)
  BY DEF FP!StatStatus, F!StatStatus
<1>7. F!Stat => FP!Stat
  BY <1>5, <1>6 DEF F!Stat, FP!Stat
<1>8. FP!BytesRead = F!BytesRead
  BY DEF FP!BytesRead, F!BytesRead
<1>9. \A data : F!Give(data) => FP!Give(data)
  BY DEF F!Give, FP!Give
<1>10. F!Read => FP!Read
  BY <1>5, <1>8, <1>9 DEF F!Read, FP!Read
<1>11. F!FetchStep => FP!FetchNext
  BY <1>3, <1>4, <1>7, <1>10 DEF F!FetchStep, FP!FetchStep, FP!FetchNext
<1>12. F!Release => FP!FetchNext
  BY DEF F!Release, FP!Release, F!Forget, FP!Forget, FP!FetchNext
<1>13. \A p \in Paths : F!HostWrites(p) => FP!FetchNext
  BY DEF F!HostWrites, FP!HostWrites, FP!FetchNext
<1>14. F!ConsoleMounts => FP!FetchNext
  BY DEF F!ConsoleMounts, FP!ConsoleMounts, FP!FetchNext
<1>15. UNCHANGED fileVars => UNCHANGED FP!fetchVars
  BY DEF fileVars, FP!fetchVars
<1> QED
  BY <1>1, <1>2, <1>11, <1>12, <1>13, <1>14, <1>15 DEF FP!FetchNext

LEMMA FetchKeeps == FP!IInv /\ [FP!FetchNext]_(FP!fetchVars) => FP!IInv'
BY FP!NextIInv, FileAssumption
DEF F!FetchAssumption, F!Uri, F!HostFile, FP!Uri, FP!HostFile

\* The fetch's part of the command.
LEMMA FilesKeep == FP!IInv /\ [ShellNext]_allVars => FP!IInv'
<1> SUFFICES ASSUME FP!IInv, [ShellNext]_allVars PROVE FP!IInv'
  OBVIOUS
<1>1. FP!FetchNext \/ UNCHANGED FP!fetchVars
  <2>1. CASE Command
    BY <2>1, FetchSteps DEF Command, LoadImage, LoadUri, UnloadModule, RunModule, WxCheck, CallSym
  <2>2. CASE ShellStep \/ PayloadReturns
    BY <2>2, FetchSteps DEF ShellStep, FetchGoesOn, FetchEnds, LoadGoesOn, FreeFile,
       AnswerStatus, PayloadReturns, RunReturns, SymReturns
  <2>3. CASE Environment
    BY <2>3, FetchSteps DEF Environment
  <2>4. CASE UNCHANGED allVars
    BY <2>4, FetchSteps DEF allVars
  <2> QED
    BY <2>1, <2>2, <2>3, <2>4 DEF ShellNext
<1>2. [FP!FetchNext]_(FP!fetchVars)
  BY <1>1
<1> QED
  BY <1>2, FetchKeeps

------------------------------------------------------------------------------
\* What a fetch has given is the beginning of a file, hence an image.
LEMMA FileImage ==
    ASSUME FP!IInv, out # << >>
    PROVE  ImageOf[out] \in Images /\ ImageOf[out].kind = "rel" /\ bufs = 1
<1>1. /\ out \in Seq(Nat) /\ size \in 0 .. MaxFetch /\ seen \subseteq HostFiles
      /\ bufs = IF fpc = "read" \/ out # << >> THEN 1 ELSE 0
  BY FetchNames DEF FP!IInv, FP!FetchTypeOK, FP!Counted
<1>2. PICK f \in seen : Len(f.data) >= size /\ Len(out) = size /\ out = SubSeq(f.data, 1, size)
  BY FetchNames DEF FP!IInv, FP!DeliveredWhole
<1>3. size # 0
  BY <1>1, <1>2
<1>4. \A n \in 1 .. MaxFetch : n <= Len(f.data) => SubSeq(f.data, 1, n) \in DOMAIN ImageOf
  BY <1>1, <1>2, ShellAssumption
<1>5. f.data \in Seq(Nat) /\ Len(f.data) \in Nat
  <2>1. f.data \in Seq(Nat)
    BY <1>1, <1>2, FileAssumption DEF F!FetchAssumption, F!HostFile
  <2> QED
    BY <2>1
<1>6. MaxFetch \in Nat
  BY FileAssumption DEF F!FetchAssumption
<1>7. size \in 1 .. MaxFetch /\ size <= Len(f.data)
  BY <1>1, <1>2, <1>3, <1>5, <1>6
<1>8. out \in DOMAIN ImageOf
  BY <1>2, <1>4, <1>7
<1> QED
  BY <1>1, <1>8, ShellAssumption

LEMMA FetchBegins ==
    ASSUME FP!IInv, NEW u \in Uris, F!Fetch(u)
    PROVE  /\ fpc = "idle" /\ out = << >> /\ out' = << >>
           /\ fpc' = "idle" => status' # NO_ERROR
BY FetchNames, FetchErrors DEF F!Fetch

\* A step of a fetch goes on with it, or ends it with an error or a file.
LEMMA FetchGoes ==
    ASSUME FP!IInv, F!FetchStep
    PROVE  /\ fpc # "idle" /\ out = << >>
           /\ \/ fpc' # "idle" /\ out' = << >>
              \/ fpc' = "idle" /\ out' = << >> /\ status' # NO_ERROR
              \/ fpc' = "idle" /\ out' # << >> /\ status' = NO_ERROR
<1>1. /\ fpc # "idle" => out = << >>
      /\ fpc = "read" => size > 0
  BY FetchNames DEF FP!IInv, FP!Counted
<1> USE FetchNames, FetchErrors
<1>2. CASE F!EnsureMounted
  BY <1>1, <1>2 DEF F!EnsureMounted, F!Quit, F!Proceed
<1>3. CASE F!Open
  BY <1>1, <1>3 DEF F!Open, F!Quit, F!Proceed
<1>4. CASE F!Stat
  BY <1>1, <1>4 DEF F!Stat, F!Leave, F!Quit
<1>5. CASE F!Read
  <2>1. CASE F!Leave(F!IO)
    BY <1>1, <1>5, <2>1 DEF F!Read, F!Leave, F!Quit
  <2>2. CASE Len(F!BytesRead) = size /\ F!Give(F!BytesRead)
    <3>1. Len(<< >>) = 0
      OBVIOUS
    <3>2. size > 0 => size # 0
      OBVIOUS
    <3>3. F!BytesRead # << >>
      BY <1>1, <1>5, <2>2, <3>1, <3>2 DEF F!Read
    <3> QED
      BY <1>1, <1>5, <2>2, <3>3 DEF F!Read, F!Give
  <2> QED
    BY <1>5, <2>1, <2>2 DEF F!Read
<1> QED
  BY <1>2, <1>3, <1>4, <1>5 DEF F!FetchStep

------------------------------------------------------------------------------
\* A load that is called is refused, or begins, and changes no module yet.
LEMMA Begins ==
    ASSUME NEW m \in Images, Begin(m)
    PROVE  /\ pc = "idle" /\ mod' = mod
           /\ \/ pc' = "idle" /\ result' # NO_ERROR
              \/ pc' \in LoadPcs /\ img' = m
BY DEF Begin, RefuseExec, LoadExec, RefuseRel, LoadRel, Reject, locals, LoadPcs,
   NOT_VALID, ALREADY_EXISTS, NO_MEMORY, NO_ERROR

LEMMA LoadGoes ==
    ASSUME IInv, LoadStep
    PROVE  /\ pc \in LoadPcs
           /\ \/ mod' = mod /\ pc' \in LoadPcs /\ img' = img
              \/ mod' = mod /\ pc' = "idle" /\ result' # NO_ERROR
              \/ mod' # mod /\ pc' = "idle" /\ result' = NO_ERROR
<1>1. pc \in LoadPcs /\ ~mod.loaded
  BY LoadStepPc DEF IInv, CallInv
<1>2. CASE CommitExec \/ CommitRel
  <2>1. mod'.loaded /\ pc' = "idle" /\ result' = NO_ERROR
    BY <1>2 DEF CommitExec, CommitRel, Commit
  <2> QED
    BY <1>1, <2>1
<1>3. CASE ~CommitExec /\ ~CommitRel
  <2>1. \A e \in LoadErrors : e # NO_ERROR
    BY DEF LoadErrors, NOT_VALID, NOT_FOUND, NO_MEMORY, NOT_SUPPORTED, MMU_ERROR, NO_ERROR
  <2> QED
    BY <1>1, <1>3, <2>1, LoadStepEnds
<1> QED
  BY <1>2, <1>3

LEMMA Unloads ==
    ASSUME IInv, Unload
    PROVE  /\ pc = "idle" /\ pc' = "idle"
           /\ result' = NO_ERROR <=> mod' # mod
<1>1. CASE mod.loaded
  <2>1. mod' = NoModule /\ result' = NO_ERROR /\ pc' = "idle" /\ pc = "idle"
    BY <1>1 DEF Unload, Forget
  <2>2. ~NoModule.loaded
    BY DEF NoModule
  <2> QED
    BY <1>1, <2>1, <2>2
<1>2. CASE ~mod.loaded
  BY <1>2 DEF Unload, Reject, locals, NOT_FOUND, NO_ERROR
<1> QED
  BY <1>1, <1>2

LEMMA LookupType == TypeInv => \A name : LookupSymbol(name) \in Nat
<1> SUFFICES ASSUME TypeInv, NEW name, EntriesOf(name) # {}
             PROVE  index[Min(EntriesOf(name))].addr \in Nat
  BY DEF LookupSymbol, NULL
<1>1. index \in Seq(IndexEntries)
  BY DEF TypeInv
<1>2. EntriesOf(name) \in SUBSET Nat
  BY <1>1 DEF EntriesOf
<1>3. Min(EntriesOf(name)) \in DOMAIN index
  BY <1>2, MinFacts DEF EntriesOf
<1>4. index[Min(EntriesOf(name))] \in IndexEntries
  BY <1>1, <1>3
<1> QED
  BY <1>4 DEF IndexEntries

------------------------------------------------------------------------------
\* modloader_load_elf_buffer is called with a file, which is an image.
LEMMA FetchLoads ==
    ASSUME FP!IInv, HeldInv, FetchEnds
    PROVE  \/ Reject(status) /\ status \in Statuses \ {NO_ERROR} /\ cmd' = "load"
           \/ /\ Begin(ImageOf[out]) /\ ImageOf[out] \in Images
              /\ status = NO_ERROR /\ out # << >> /\ cmd' = "buffer"
<1>1. status \in Statuses
  BY FetchNames DEF FP!IInv, FP!FetchTypeOK
<1>2. status = NO_ERROR => out # << >>
  BY DEF HeldInv, FetchEnds
<1> QED
  BY <1>1, <1>2, FileImage DEF FetchEnds

\* To the loader, a step of the command is one of its own, a failed fetch's
\* error, or nothing.
LEMMA LoaderSteps ==
    ASSUME FP!IInv, HeldInv, [ShellNext]_allVars
    PROVE  [Next]_vars \/ \E st \in Statuses : Reject(st)
<1>1. \A m \in Images : Begin(m) => Next
  BY DEF Begin, Next, Call
<1>2. CASE Command
  <2>1. ASSUME NEW u \in Uris \cup {NoUri}, LoadUri(u)
        PROVE  [Next]_vars \/ Reject(INVALID_ARGS)
    BY <1>1, <2>1, ShellAssumption DEF LoadUri
  <2>2. ASSUME NEW n \in Names, CallSym(n) PROVE [Next]_vars
    BY <2>2 DEF CallSym, Next, Call
  <2>3. CASE UnloadModule \/ RunModule \/ WxCheck
    BY <2>3 DEF UnloadModule, RunModule, WxCheck, Next, Call
  <2>4. ASSUME NEW m \in Images \cup {NoImage}, LoadImage(m)
        PROVE  [Next]_vars \/ Reject(INVALID_ARGS)
    BY <1>1, <2>4 DEF LoadImage
  <2>5. INVALID_ARGS \in Statuses
    BY DEF Statuses
  <2> QED
    BY <1>2, <2>1, <2>2, <2>3, <2>4, <2>5 DEF Command
<1>3. CASE FetchEnds
  BY <1>1, <1>3, FetchLoads
<1>4. CASE ShellStep /\ ~FetchEnds
  BY <1>4 DEF ShellStep, FetchGoesOn, LoadGoesOn, FreeFile, AnswerStatus, Next
<1>5. CASE PayloadReturns
  BY <1>5 DEF PayloadReturns, RunReturns, SymReturns, Next
<1>6. CASE Environment
  BY <1>6 DEF Environment, Next
<1>7. CASE UNCHANGED allVars
  BY <1>7 DEF allVars
<1> QED
  BY <1>2, <1>3, <1>4, <1>5, <1>6, <1>7 DEF ShellNext

LEMMA RejectHolds ==
    ASSUME LoaderInv, NEW st \in Statuses, Reject(st)
    PROVE  LoaderInv'
<1>1. IInv' /\ TypeInv'
  BY RejectKeeps, RejectTypes DEF LoaderInv
<1>2. UNCHANGED <<mod, pages, dirty, index, dyn, heap, lost, patched, locals>>
  BY DEF Reject
<1>3. BufferInv' /\ KindInv' /\ EntryInv'
  BY <1>2 DEF LoaderInv, BufferInv, KindInv, EntryInv, EntryOf, locals
<1>4. ExecInv'
  BY <1>2 DEF LoaderInv, ExecInv, PageTarget, locals
<1>5. IndexInv'
  <2>1. \A n : Indexed(n) => Indexed(n)'
    BY <1>2, IndexedKeeps DEF locals
  <2> QED
    BY <1>2, <2>1 DEF LoaderInv, IndexInv, locals
<1>6. LoopInv'
  BY <1>2 DEF LoaderInv, LoopInv, TurnsLeft, locals
<1> QED
  BY <1>1, <1>3, <1>4, <1>5, <1>6 DEF LoaderInv

LEMMA LoaderKeep == LoaderInv /\ FP!IInv /\ HeldInv /\ [ShellNext]_allVars => LoaderInv'
<1> SUFFICES ASSUME LoaderInv, FP!IInv, HeldInv, [ShellNext]_allVars PROVE LoaderInv'
  OBVIOUS
<1>1. CASE [Next]_vars
  BY <1>1, NextKeeps, BufferKeeps, TypeKeeps, KindKeeps, ExecKeeps, EntryKeeps, IndexKeeps,
     LoopKeeps
  DEF LoaderInv
<1>2. CASE \E st \in Statuses : Reject(st)
  BY <1>2, RejectHolds
<1> QED
  BY <1>1, <1>2, LoaderSteps

------------------------------------------------------------------------------
\* A command of the prompt.
LEMMA CommandsKeep ==
    ASSUME LoaderInv, FP!IInv, CommandInv, HeldInv, Command
    PROVE  CommandInv' /\ HeldInv' /\ OutcomeInv'
<1> USE DEF CommandInv, HeldInv, OutcomeInv, Loading
<1>1. "idle" \notin LoadPcs /\ "running" \notin LoadPcs
  BY DEF LoadPcs
<1>2. ASSUME NEW m \in Images, Prompt, Begin(m), Continue("load"), UNCHANGED <<fileVars, callee>>
      PROVE  CommandInv' /\ HeldInv' /\ OutcomeInv'
  BY <1>1, <1>2, Begins DEF Prompt, Continue, fileVars
<1>3. ASSUME Prompt, Reject(INVALID_ARGS), Continue("load"), UNCHANGED <<fileVars, callee>>
      PROVE  CommandInv' /\ HeldInv' /\ OutcomeInv'
  <2>1. INVALID_ARGS # NO_ERROR
    BY DEF INVALID_ARGS, NO_ERROR
  <2> QED
    BY <1>1, <1>3, <2>1 DEF Prompt, Continue, Reject, locals, fileVars
<1>4. ASSUME NEW m \in Images \cup {NoImage}, LoadImage(m)
      PROVE  CommandInv' /\ HeldInv' /\ OutcomeInv'
  BY <1>2, <1>4, <1>3 DEF LoadImage
<1>5. ASSUME NEW u \in Uris \cup {NoUri}, LoadUri(u)
      PROVE  CommandInv' /\ HeldInv' /\ OutcomeInv'
  <2>1. CASE u \in DOMAIN EmbedUri \/ u = NoUri
    BY <1>2, <1>5, <1>3, <2>1, ShellAssumption DEF LoadUri
  <2>2. CASE u \in Uris \ DOMAIN EmbedUri
    BY <1>1, <1>5, <2>2, ShellAssumption, FetchBegins
    DEF LoadUri, Prompt, Continue, vars, locals
  <2> QED
    BY <2>1, <2>2
<1>6. CASE UnloadModule
  BY <1>1, <1>6, Unloads DEF UnloadModule, Prompt, Continue, fileVars, LoaderInv
<1>7. CASE RunModule
  BY <1>1, <1>7 DEF RunModule, Run, Reject, locals, Continue, End, fileVars
<1>8. CASE WxCheck
  BY <1>1, <1>8 DEF WxCheck, End, fileVars, vars, locals
<1>9. ASSUME NEW n \in Names, CallSym(n) PROVE CommandInv' /\ HeldInv' /\ OutcomeInv'
  <2>1. LookupSymbol(n) \in Nat
    BY LookupType DEF LoaderInv
  <2> QED
    BY <1>1, <1>9, <2>1 DEF CallSym, Run, Reject, locals, Continue, End, fileVars, vars
<1> QED
  BY <1>4, <1>5, <1>6, <1>7, <1>8, <1>9 DEF Command

\* A step of the command.
LEMMA StepsKeep ==
    ASSUME LoaderInv, FP!IInv, CommandInv, HeldInv, OutcomeInv, ShellStep
    PROVE  CommandInv' /\ HeldInv' /\ OutcomeInv'
<1> USE DEF CommandInv, HeldInv, OutcomeInv, Loading
<1>1. "idle" \notin LoadPcs /\ "running" \notin LoadPcs
  BY DEF LoadPcs
<1>2. CASE FetchGoesOn
  BY <1>1, <1>2, FetchGoes DEF FetchGoesOn, vars, locals, shellVars
<1>3. CASE FetchEnds
  <2>1. cmd = "fetch" /\ fpc = "idle" /\ UNCHANGED <<fileVars, shellVars>>
    BY <1>3 DEF FetchEnds
  <2>2. CASE Reject(status) /\ status \in Statuses \ {NO_ERROR} /\ cmd' = "load"
    <3>1. pc = "idle" /\ mod = before
      BY <2>1 DEF LoaderInv, IInv, CallInv
    <3> QED
      BY <1>1, <2>1, <2>2, <3>1 DEF Reject, locals, fileVars, shellVars
  <2>3. CASE /\ Begin(ImageOf[out]) /\ ImageOf[out] \in Images
             /\ status = NO_ERROR /\ out # << >> /\ cmd' = "buffer"
    <3>1. /\ pc = "idle" /\ mod' = mod
          /\ \/ pc' = "idle" /\ result' # NO_ERROR
             \/ pc' \in LoadPcs /\ img' = ImageOf[out]
      BY <2>3, Begins
    <3> QED
      BY <1>1, <2>1, <2>3, <3>1 DEF fileVars, shellVars
  <2> QED
    BY <1>3, <2>2, <2>3, FetchLoads
<1>4. CASE LoadGoesOn
  BY <1>1, <1>4, LoadGoes DEF LoadGoesOn, fileVars, shellVars, LoaderInv
<1>5. CASE FreeFile
  BY <1>1, <1>5, FetchNames DEF FreeFile, F!Release, vars, locals, shellVars
<1>6. CASE AnswerStatus
  BY <1>1, <1>6 DEF AnswerStatus, End, fileVars, vars, locals
<1> QED
  BY <1>2, <1>3, <1>4, <1>5, <1>6 DEF ShellStep

\* A payload that returns, another thread, the host and the console.
LEMMA OthersKeep ==
    ASSUME FP!IInv, CommandInv, HeldInv, OutcomeInv,
           PayloadReturns \/ Environment \/ UNCHANGED allVars
    PROVE  CommandInv' /\ HeldInv' /\ OutcomeInv'
<1> USE DEF CommandInv, HeldInv, OutcomeInv, Loading
<1>1. "idle" \notin LoadPcs /\ "running" \notin LoadPcs
  BY DEF LoadPcs
<1>2. CASE RunReturns
  BY <1>1, <1>2 DEF RunReturns, Return, End, fileVars
<1>3. CASE SymReturns
  BY <1>1, <1>3 DEF SymReturns, Return, End, fileVars, NoCallee, NULL
<1>4. CASE Environment
  <2>1. CASE ExportChange /\ UNCHANGED <<fileVars, cmd, shellVars>>
    BY <2>1 DEF ExportChange, fileVars, shellVars, locals
  <2>2. CASE /\ (\E p \in Paths : F!HostWrites(p)) \/ F!ConsoleMounts
             /\ UNCHANGED <<vars, cmd, shellVars>>
    BY <2>2 DEF F!HostWrites, F!ConsoleMounts, vars, locals, shellVars
  <2> QED
    BY <1>4, <2>1, <2>2 DEF Environment
<1>5. CASE UNCHANGED allVars
  BY <1>5 DEF allVars, fileVars, shellVars, vars, locals
<1> QED
  BY <1>2, <1>3, <1>4, <1>5 DEF PayloadReturns

------------------------------------------------------------------------------
\* The first entry of a name in the index is of a symbol that is kept under it.
LEMMA CallFinds ==
    ASSUME TypeInv, IndexInv, mod.loaded, mod.kind = "rel",
           NEW name, LookupSymbol(name) # NULL
    PROVE  \E k \in DOMAIN img.symbols :
              /\ KeepsSymbol(img.symbols[k]) /\ Stored[img.symbols[k].name] = name
              /\ LookupSymbol(name) = IndexEntry(img.symbols[k]).addr
<1> DEFINE n == Len(img.symbols) + 1
<1>1. EntriesOf(name) # {} /\ LookupSymbol(name) = index[Min(EntriesOf(name))].addr
  BY DEF LookupSymbol
<1>2. FirstKept(n, name)
  BY <1>1 DEF IndexInv, Indexed
<1>3. PICK k \in KeptBelow(n, name), e \in EntriesOf(name) :
          /\ \A d \in EntriesOf(name) : e <= d
          /\ index[e].addr = IndexEntry(img.symbols[k]).addr
  BY <1>2 DEF FirstKept
<1>4. EntriesOf(name) \in SUBSET Nat
  BY DEF EntriesOf, TypeInv
<1>5. Min(EntriesOf(name)) = e
  <2>1. Min(EntriesOf(name)) \in EntriesOf(name) /\ Min(EntriesOf(name)) <= e
    BY <1>3, <1>4, MinFacts
  <2> QED
    BY <1>3, <1>4, <2>1
<1> QED
  BY <1>1, <1>3, <1>5 DEF KeptBelow

LEMMA CalleeKeeps ==
    ASSUME LoaderInv, CommandInv, CalleeInv, [ShellNext]_allVars
    PROVE  CalleeInv'
<1> SUFFICES ASSUME cmd' = "call"
             PROVE  mod'.loaded /\ mod'.kind = "rel" /\ \E k \in DOMAIN img'.symbols : Kept(k)'
  BY DEF CalleeInv
<1>1. ASSUME NEW name \in Names, CallSym(name)
      PROVE  mod'.loaded /\ mod'.kind = "rel" /\ \E k \in DOMAIN img'.symbols : Kept(k)'
  <2>1. /\ mod.loaded /\ mod.kind = "rel" /\ LookupSymbol(name) # NULL /\ Run
        /\ callee' = [name |-> name, addr |-> LookupSymbol(name)]
    BY <1>1 DEF CallSym, End
  <2>2. UNCHANGED <<mod, img, secAddr>>
    BY <2>1 DEF Run, Reject, locals
  <2>3. PICK k \in DOMAIN img.symbols :
            /\ KeepsSymbol(img.symbols[k]) /\ Stored[img.symbols[k].name] = name
            /\ LookupSymbol(name) = IndexEntry(img.symbols[k]).addr
    BY <2>1, CallFinds DEF LoaderInv
  <2>4. IndexEntry(img.symbols[k])' = IndexEntry(img.symbols[k])
    BY <2>2 DEF IndexEntry
  <2>5. Kept(k)'
    BY <2>1, <2>2, <2>3, <2>4 DEF Kept, KeepsSymbol
  <2> QED
    BY <2>1, <2>2, <2>5
<1>2. ASSUME ~\E name \in Names : CallSym(name)
      PROVE  cmd = "call" /\ UNCHANGED <<mod, img, secAddr, callee>>
  <2>1. ~Command
    BY <1>2 DEF Command, LoadImage, LoadUri, UnloadModule, RunModule, WxCheck, Prompt,
       Continue, End
  <2>2. CASE ShellStep
    BY <2>2 DEF ShellStep, FetchGoesOn, FetchEnds, LoadGoesOn, FreeFile, AnswerStatus, End
  <2>3. CASE PayloadReturns
    BY <2>3 DEF PayloadReturns, RunReturns, SymReturns, End
  <2>4. CASE Environment
    BY <2>4 DEF Environment, ExportChange, vars, locals, shellVars
  <2>5. CASE UNCHANGED allVars
    BY <2>5 DEF allVars, vars, locals, shellVars
  <2> QED
    BY <2>1, <2>2, <2>3, <2>4, <2>5 DEF ShellNext
<1>3. CASE ~\E name \in Names : CallSym(name)
  <2>1. cmd = "call" /\ UNCHANGED <<mod, img, secAddr, callee>>
    BY <1>2, <1>3
  <2>2. PICK k \in DOMAIN img.symbols : Kept(k)
    BY <2>1 DEF CalleeInv
  <2>3. IndexEntry(img.symbols[k])' = IndexEntry(img.symbols[k])
    BY <2>1 DEF IndexEntry
  <2>4. Kept(k)'
    BY <2>1, <2>2, <2>3 DEF Kept, KeepsSymbol
  <2> QED
    BY <2>1, <2>4 DEF CalleeInv
<1> QED
  BY <1>1, <1>3

LEMMA InitSInv == ShellInit => SInv
<1> SUFFICES ASSUME ShellInit PROVE SInv
  OBVIOUS
<1>1. Init /\ F!FetchInit /\ cmd = "none" /\ callee = NoCallee /\ answer = "none"
  BY DEF ShellInit
<1>2. LoaderInv
  BY <1>1, InitIInv, InitTypes DEF LoaderInv, Init, BufferInv, KindInv, ExecInv, EntryInv,
     IndexInv, LoopInv, LoadPcs, NoModule, NoBuffer
<1>3. FP!IInv
  BY <1>1, FetchSteps, FP!InitIInv, FileAssumption
  DEF F!FetchAssumption, F!Uri, F!HostFile, FP!Uri, FP!HostFile
<1>4. CommandInv /\ HeldInv /\ OutcomeInv /\ CalleeInv
  BY <1>1, FetchNames DEF CommandInv, HeldInv, OutcomeInv, CalleeInv, Loading, NoCallee, NULL,
     Init, F!FetchInit, LoadPcs
<1> QED
  BY <1>2, <1>3, <1>4 DEF SInv

LEMMA NextSInv == SInv /\ [ShellNext]_allVars => SInv'
<1> SUFFICES ASSUME SInv, [ShellNext]_allVars PROVE SInv'
  OBVIOUS
<1>1. LoaderInv /\ FP!IInv /\ CommandInv /\ HeldInv /\ OutcomeInv /\ CalleeInv
  BY DEF SInv
<1>2. LoaderInv' /\ FP!IInv' /\ CalleeInv'
  BY <1>1, LoaderKeep, FilesKeep, CalleeKeeps
<1>3. CommandInv' /\ HeldInv' /\ OutcomeInv'
  BY <1>1, CommandsKeep, StepsKeep, OthersKeep DEF ShellNext
<1> QED
  BY <1>2, <1>3 DEF SInv

LEMMA ShellInvariance == ShellSpec => []SInv
BY InitSInv, NextSInv, PTL DEF ShellSpec

------------------------------------------------------------------------------
\* The loader and the fetch run only when the command is where it calls them
\* (modloader_shell.c and modloader_load_uri).
THEOREM ShellTypes == ShellSpec => []ShellTypeOK
<1>1. SInv => ShellTypeOK
  BY DEF SInv, CommandInv, Loading, ShellTypeOK
<1> QED
  BY <1>1, ShellInvariance, PTL

\* What the loader promises its callers holds under the command too, which
\* returns the errors of a fetch as the loader's: each failed load of a file
\* leaves no mapping, and what is resident is laid out, protected and can run.
THEOREM LoaderSafe ==
    ShellSpec => [](/\ MappedIffLoaded /\ BuffersFreed /\ LayoutSound
                    /\ ResidentIsWx /\ CodeExecutable)
<1>1. SInv => /\ MappedIffLoaded /\ BuffersFreed /\ LayoutSound
              /\ ResidentIsWx /\ CodeExecutable
  BY RegionFollows, BuffersFollow, LayoutFollows, WxFollows, CodeFollows DEF SInv, LoaderInv
<1> QED
  BY <1>1, ShellInvariance, PTL

\* modloader_load_uri frees the buffer of a file when the load from it is over,
\* and not before, whichever of its returns the load takes.
THEOREM BufferSafe == ShellSpec => []BufferHeld
<1>1. SInv => BufferHeld
  <2> SUFFICES ASSUME SInv, pc \in LoadPcs, cmd = "buffer"
               PROVE  bufs = 1 /\ out # << >> /\ img = ImageOf[out]
    BY DEF BufferHeld
  <2>1. out # << >> /\ img = ImageOf[out]
    BY DEF SInv, HeldInv
  <2> QED
    BY <2>1, FileImage DEF SInv
<1> QED
  BY <1>1, ShellInvariance, PTL

\* A command gives back all that the fetch and the loader have taken, but the
\* sym_resolved buffers lost to the returns of lines 484-487 and 494-497.
THEOREM AllReturned == ShellSpec => []NothingHeld
<1>1. SInv => NothingHeld
  <2> SUFFICES ASSUME SInv, cmd \in {"none", "load"}
               PROVE  bufs = 0 /\ handles = 0 /\ (cmd = "none" => heap <= lost)
    BY DEF NothingHeld
  <2>1. fpc = "idle" /\ out = << >> /\ (cmd = "none" => pc \notin LoadPcs)
    BY DEF SInv, CommandInv, HeldInv, Loading
  <2>2. bufs = 0 /\ handles = 0
    BY <2>1, FetchNames DEF SInv, FP!IInv, FP!Counted
  <2>3. ASSUME cmd = "none" PROVE heap <= lost
    BY <2>1, <2>3 DEF SInv, LoaderInv, BufferInv, LoadPcs
  <2> QED
    BY <2>2, <2>3
<1> QED
  BY <1>1, ShellInvariance, PTL

\* A load or an unload is answered by what it did to modloader_mod.
THEOREM AnswersSafe == ShellSpec => AnswersTrue
<1>1. SInv /\ [ShellNext]_allVars =>
          [cmd = "load" /\ cmd' = "none" => (answer' = "ok" <=> mod # before)]_allVars
  <2> SUFFICES ASSUME SInv, ShellNext, cmd = "load", cmd' = "none"
               PROVE  answer' = "ok" <=> mod # before
    OBVIOUS
  <2>1. AnswerStatus
    BY DEF ShellNext, Command, LoadImage, LoadUri, UnloadModule, RunModule, WxCheck, CallSym,
       Prompt, ShellStep, FetchGoesOn, FetchEnds, LoadGoesOn, FreeFile, PayloadReturns,
       RunReturns, SymReturns, Environment
  <2>2. result = NO_ERROR <=> mod # before
    BY <2>1 DEF AnswerStatus, SInv, OutcomeInv, Loading
  <2> QED
    BY <2>1, <2>2 DEF AnswerStatus, End
<1> QED
  BY <1>1, ShellInvariance, PTL DEF ShellSpec, AnswersTrue

------------------------------------------------------------------------------
\* What CallsExport asks of the images: a function they export and define is in
\* a section of code, inside it, and that section's number is an ordinary one
\* (the loader does not look at the flags, and does not compare the value).
FunctionsInCode ==
    \A m \in Images : m.kind = "rel" =>
        \A k \in DOMAIN m.symbols :
            LET sym == m.symbols[k] IN
            IsExport(sym) /\ sym.type = "func" /\ sym.shndx \in DOMAIN m.sections =>
                /\ sym.shndx < SHN_LORESERVE
                /\ m.sections[sym.shndx].alloc /\ m.sections[sym.shndx].exec
                /\ sym.value < m.sections[sym.shndx].size

\* A function of a resident module is on a page that can be executed.
LEMMA CodeIsExecutable ==
    ASSUME FunctionsInCode, IInv, ExecInv, mod.loaded, img.kind = "rel",
           NEW k \in DOMAIN img.symbols, IsExport(img.symbols[k]),
           img.symbols[k].type = "func", DefinedHere(img.symbols[k])
    PROVE  CodeAt(SymValue(img, img.symbols[k], Base, secAddr))
<1> DEFINE sym == img.symbols[k]
           t == sym.shndx
<1>1. img \in Images /\ img \in RelImage
  BY ImageTypes DEF IInv, CallInv
<1>2. /\ t \in DOMAIN img.sections /\ t < SHN_LORESERVE
      /\ img.sections[t].alloc /\ img.sections[t].exec
      /\ sym.value < img.sections[t].size
  BY <1>1 DEF FunctionsInCode, DefinedHere
<1>3. sym.value \in Nat /\ t \in Nat /\ t \in AllocSections(img)
  BY <1>1, <1>2, SymbolTypes DEF AllocSections
<1>4. SymValue(img, sym, Base, secAddr) = DefinedAddr(sym, Base, secAddr)
  BY <1>1, <1>2, <1>3, SectionTypes
  DEF SymValue, SHN_UNDEF, SHN_ABS, SHN_LORESERVE, Shnum
<1> HIDE DEF sym
<1>5. CodeAt(DefinedAddr(sym, Base, secAddr))
  BY <1>2, <1>3, SymbolInCode
<1> QED
  BY <1>4, <1>5 DEF sym

\* callsym calls what the index has under the name, which is an export of the
\* module that is resident while it runs, and a function arrives on code.
THEOREM CallsSafe ==
    ASSUME FunctionsInCode
    PROVE  ShellSpec => []CallsExport
<1>1. SInv => CallsExport
  <2> SUFFICES ASSUME SInv, cmd = "call"
               PROVE  /\ mod.loaded
                      /\ \E k \in 1 .. Len(img.symbols) :
                            /\ Called(k)
                            /\ img.symbols[k].type = "func" /\ DefinedHere(img.symbols[k])
                                 => CodeAt(callee.addr)
    BY DEF CallsExport
  <2>1. LoaderInv /\ mod.loaded /\ mod.kind = "rel" /\ \E k \in DOMAIN img.symbols : Kept(k)
    BY DEF SInv, CalleeInv
  <2>2. PICK k \in DOMAIN img.symbols : Kept(k)
    BY <2>1
  <2>3. img \in RelImage /\ img.kind = "rel"
    BY <2>1, ImageTypes DEF LoaderInv, IInv, CallInv, KindInv
  <2>4. k \in 1 .. Len(img.symbols)
    <3>1. img.symbols \in Seq(Symbol)
      BY <2>3 DEF RelImage
    <3> QED
      BY <2>2, <3>1
  <2>5. Called(k)
    BY <2>2 DEF Called, Kept, KeepsSymbol, IndexEntry
  <2>6. img.symbols[k].type = "func" /\ DefinedHere(img.symbols[k]) => CodeAt(callee.addr)
    BY <2>1, <2>3, <2>5, CodeIsExecutable DEF Called, LoaderInv
  <2> QED
    BY <2>1, <2>4, <2>5, <2>6
<1> QED
  BY <1>1, ShellInvariance, PTL

------------------------------------------------------------------------------
LEMMA FetchDescends == F!FetchStep => FetchPhase' < FetchPhase
BY DEF F!FetchStep, F!EnsureMounted, F!Open, F!Stat, F!Read, F!Leave, F!Give, F!Quit, F!Proceed,
   FetchPhase

\* A step of a load that ends it leaves no phase.
LEMMA LoadDescent ==
    ASSUME LoaderInv, LoadStep
    PROVE  Phase' < Phase \/ (Phase' = Phase /\ TurnsLeft' < TurnsLeft)
<1>1. CASE pc' \in LoadPcs
  BY <1>1, TurnsDescend DEF LoaderInv
<1>2. CASE pc' \notin LoadPcs
  <2>1. pc \in LoadPcs /\ pc' = "idle"
    BY <1>2, LoadGoes DEF LoaderInv
  <2> QED
    BY <2>1 DEF Phase, LoadPcs
<1> QED
  BY <1>1, <1>2

\* A command ends after a number of steps, when its thread goes on and its
\* payload returns: the fetch and the load do not loop (modloader_load_uri).
THEOREM CommandsDescend == ShellSpec => CommandDescends
<1> DEFINE Down == \/ CommandPhase' < CommandPhase
                   \/ CommandPhase' = CommandPhase /\ FetchPhase' < FetchPhase
                   \/ /\ CommandPhase' = CommandPhase /\ FetchPhase' = FetchPhase
                      /\ Phase' < Phase \/ (Phase' = Phase /\ TurnsLeft' < TurnsLeft)
<1>1. SInv' => TurnsLeft' \in Nat
  <2> SUFFICES ASSUME SInv', pc' \notin LoadPcs PROVE TurnsLeft' \in Nat
    BY DEF SInv, LoaderInv, LoopInv
  <2> QED
    BY DEF TurnsLeft, LoadPcs
<1>2. ASSUME SInv, ShellStep PROVE Down
  <2>1. CASE FetchGoesOn
    BY <2>1, FetchDescends DEF FetchGoesOn, CommandPhase
  <2>2. CASE FetchEnds
    BY <2>2 DEF FetchEnds, CommandPhase
  <2>3. CASE LoadGoesOn
    BY <1>2, <2>3, LoadDescent DEF LoadGoesOn, CommandPhase, FetchPhase, fileVars, SInv
  <2>4. CASE FreeFile \/ AnswerStatus
    BY <2>4 DEF FreeFile, AnswerStatus, End, CommandPhase
  <2> QED
    BY <1>2, <2>1, <2>2, <2>3, <2>4 DEF ShellStep
<1>3. SInv /\ [ShellNext]_allVars => [TurnsLeft' \in Nat /\ (ShellStep => Down)]_allVars
  BY <1>1, <1>2, NextSInv
<1> QED
  BY <1>3, ShellInvariance, PTL DEF ShellSpec, CommandDescends
==============================================================================
