------------------------------ MODULE ModFetch ------------------------------
(***************************************************************************)
(* modloader_fetch: a file of the host is read through the virtio 9p share *)
(* into a buffer the caller frees.  The host may change the file between   *)
(* any two calls of the file system; the console may mount and unmount the *)
(* share between two fetches.  Content is a sequence of blocks; an error   *)
(* of lib/fs without a code of its own is IO.                              *)
(***************************************************************************)
EXTENDS Lk, Sequences

CONSTANTS
    Uris,           \* the URIs callers give
    Paths,          \* the files of the share
    HostFiles,      \* what the host may have at a path
    MaxFetch,       \* MODLOADER_MAX_FETCH_SIZE
    NoPath          \* the null pointer modloader_uri_path returns

\* A URI is its scheme, whether what follows starts with a slash, and a path.
Uri == [scheme : {"file:", "none", "other"}, absolute : BOOLEAN, path : Paths]
HostFile == [type : {"none", "dir", "file"}, data : Seq(Nat)]   \* only files have data

ASSUME FetchAssumption ==
    /\ Uris \subseteq Uri
    /\ HostFiles \subseteq HostFile
    /\ \A f \in HostFiles : f.type # "file" => f.data = << >>
    /\ MaxFetch \in Nat
    /\ NoPath \notin Paths

VARIABLES
    file,       \* file[p]: what the host has at p
    share,      \* the device v9p0: "absent", "attached", or "mounted" at /v9p
    flag,       \* modloader_v9p_mounted
    handles,    \* open file handles
    bufs,       \* buffers allocated
    fpc, path, size,    \* locals of a fetch
    out,        \* *out_buf, which is its caller's
    status,     \* what the last fetch returned
    unmounted,  \* history: the console unmounted the share last
    seen        \* history: what the host had at path since the last open

fetchVars == <<file, share, flag, handles, bufs, fpc, path, size, out, status,
               unmounted, seen>>

NoBuf == << >>

FetchInit ==
    /\ file \in [Paths -> HostFiles] /\ share \in {"absent", "attached"}
    /\ flag = FALSE /\ handles = 0 /\ bufs = 0
    /\ fpc = "idle" /\ path = NoPath /\ size = 0
    /\ out = NoBuf /\ status = NO_ERROR
    /\ unmounted = FALSE /\ seen = {}

------------------------------------------------------------------------------
\* modloader_uri_path
UriPath(uri) ==
    IF uri.scheme \in {"file:", "none"} /\ uri.absolute THEN uri.path ELSE NoPath

Fetch(uri) ==
    /\ fpc = "idle" /\ out = NoBuf
    /\ IF UriPath(uri) = NoPath
       THEN status' = NOT_SUPPORTED /\ UNCHANGED <<fpc, path>>
       ELSE fpc' = "mount" /\ path' = UriPath(uri) /\ UNCHANGED status
    /\ UNCHANGED <<file, share, flag, handles, bufs, size, out, unmounted, seen>>

\* The locals of a fetch are gone, and the history with them.
Forget == path' = NoPath /\ size' = 0 /\ seen' = {}

\* A return of err.
Quit(err) == fpc' = "idle" /\ status' = err /\ Forget

Proceed(to) == fpc' = to /\ UNCHANGED <<status, path, size>>

\* The flag set before fs_mount is called, for the mutation runs.
EnsureFlagged ==
    /\ fpc = "mount"
    /\ \/ flag /\ Proceed("open") /\ UNCHANGED <<share, flag, seen>>
       \/ /\ ~flag /\ flag' = TRUE
          /\ \/ share # "attached" /\ Quit(IO) /\ UNCHANGED share
             \/ /\ share = "attached" /\ share' = "mounted"
                /\ Proceed("open") /\ UNCHANGED seen
    /\ UNCHANGED <<file, handles, bufs, out, unmounted>>

\* modloader_v9p_ensure_mounted.  fs_mount fails when there is a mount at /v9p
\* already, and may for other reasons.
EnsureMounted ==
    /\ fpc = "mount"
    /\ \/ flag /\ Proceed("open") /\ UNCHANGED <<share, flag, seen>>
       \/ ~flag /\ share = "absent" /\ Quit(NOT_FOUND) /\ UNCHANGED <<share, flag>>
       \/ ~flag /\ share # "absent" /\ Quit(IO) /\ UNCHANGED <<share, flag>>
       \/ /\ ~flag /\ share = "attached"
          /\ share' = "mounted" /\ flag' = TRUE
          /\ Proceed("open") /\ UNCHANGED seen
    /\ UNCHANGED <<file, handles, bufs, out, unmounted>>

Open ==
    /\ fpc = "open"
    /\ \/ Quit(NOT_FOUND) /\ UNCHANGED handles
       \/ /\ share = "mounted" /\ file[path].type # "none"
          /\ handles' = handles + 1
          /\ Proceed("stat") /\ seen' = {file[path]}
    /\ UNCHANGED <<file, share, flag, bufs, out, unmounted>>

\* Without the call of free, for the mutation runs.
LeaveBuffer(err) ==
    /\ Quit(err)
    /\ handles' = handles - 1
    /\ UNCHANGED <<file, share, flag, bufs, out, unmounted>>

\* The label out: what is held is freed, and the handle closed.
Leave(err) ==
    /\ Quit(err)
    /\ handles' = handles - 1
    /\ bufs' = IF fpc = "read" THEN bufs - 1 ELSE bufs
    /\ UNCHANGED <<file, share, flag, out, unmounted>>

\* The limit forgotten, for the mutation runs.
StatUnlimited(f) ==
    IF f.type # "file" THEN NOT_FILE
    ELSE IF Len(f.data) = 0 THEN TOO_BIG ELSE NO_ERROR

\* fs_stat_file and malloc.
StatStatus(f) ==
    IF f.type # "file" THEN NOT_FILE
    ELSE IF Len(f.data) = 0 \/ Len(f.data) > MaxFetch THEN TOO_BIG
    ELSE NO_ERROR

Stat ==
    /\ fpc = "stat"
    /\ LET err == StatStatus(file[path])
       IN  \/ err # NO_ERROR /\ Leave(err)
           \/ Leave(IO)
           \/ err = NO_ERROR /\ Leave(NO_MEMORY)
           \/ /\ err = NO_ERROR
              /\ size' = Len(file[path].data)
              /\ bufs' = bufs + 1
              /\ fpc' = "read"
              /\ UNCHANGED <<file, share, flag, handles, path, out, status, unmounted, seen>>

\* What fs_read_file puts in the buffer.
BytesRead == IF Len(file[path].data) < size THEN file[path].data
             ELSE SubSeq(file[path].data, 1, size)

Give(data) ==
    /\ out' = data
    /\ handles' = handles - 1
    /\ fpc' = "idle" /\ status' = NO_ERROR
    /\ UNCHANGED <<file, share, flag, bufs, path, size, unmounted, seen>>

\* A short read taken for the file, for the mutation runs.
ReadAny ==
    /\ fpc = "read"
    /\ \/ Leave(IO)
       \/ Len(BytesRead) > 0 /\ Give(BytesRead)

Read ==
    /\ fpc = "read"
    /\ \/ Leave(IO)
       \/ Len(BytesRead) = size /\ Give(BytesRead)

\* The caller frees the buffer; path, size and seen told of its content.
Release ==
    /\ fpc = "idle" /\ out # NoBuf
    /\ out' = NoBuf /\ bufs' = bufs - 1
    /\ Forget
    /\ UNCHANGED <<file, share, flag, handles, fpc, status, unmounted>>

FetchStep == EnsureMounted \/ Open \/ Stat \/ Read

\* The host changes a file; the console's fs command mounts or unmounts.
HostWrites(p) ==
    /\ file' \in {[file EXCEPT ![p] = f] : f \in HostFiles}
    /\ seen' = IF p = path /\ fpc \in {"stat", "read"} THEN seen \cup {file'[p]} ELSE seen
    /\ UNCHANGED <<share, flag, handles, bufs, fpc, path, size, out, status, unmounted>>

ConsoleMounts ==
    /\ fpc = "idle"
    /\ share' = CASE share = "attached" -> "mounted"
                  [] share = "mounted" -> "attached"
                  [] OTHER -> share
    /\ unmounted' = (share = "mounted")
    /\ UNCHANGED <<file, flag, handles, bufs, fpc, path, size, out, status, seen>>

FetchNext ==
    \/ \E u \in Uris : Fetch(u)
    \/ FetchStep \/ Release
    \/ \E p \in Paths : HostWrites(p)
    \/ ConsoleMounts

FetchSpec == FetchInit /\ [][FetchNext]_fetchVars

------------------------------------------------------------------------------
FetchTypeOK ==
    /\ file \in [Paths -> HostFiles]
    /\ share \in {"absent", "attached", "mounted"}
    /\ flag \in BOOLEAN /\ unmounted \in BOOLEAN
    /\ handles \in Nat /\ bufs \in Nat
    /\ fpc \in {"idle", "mount", "open", "stat", "read"}
    /\ path \in Paths \cup {NoPath} /\ (fpc # "idle" => path \in Paths)
    /\ size \in 0 .. MaxFetch
    /\ out \in Seq(Nat)
    /\ status \in Statuses
    /\ seen \subseteq HostFiles

\* Whichever of its returns a fetch takes, the file is closed, once, and the
\* buffer is freed or handed to the caller, never both and never neither: the
\* label out is reached with and without a buffer, and the early returns skip it.
CleanReturn ==
    fpc = "idle" => handles = 0 /\ bufs = (IF out = NoBuf THEN 0 ELSE 1)

\* A fetch that succeeds delivers, whole, a version of the file the host had
\* while it was open, or the beginning of one that had grown beyond the size
\* fs_stat_file told: never a file cut short, however the host replaces it
\* between the two calls.
DeliveredWhole ==
    out # NoBuf =>
        /\ Len(out) = size
        /\ \E f \in seen :
              /\ f.type = "file" /\ Len(f.data) >= size
              /\ out = SubSeq(f.data, 1, size)

\* The flag says that the share is mounted, and a fetch goes on to open a file
\* only when it is, unless the console unmounted it meanwhile: a fetch that
\* failed to mount it leaves it for the next to try again.
MountHeld == flag \/ fpc = "open" => share = "mounted" \/ unmounted
==============================================================================
