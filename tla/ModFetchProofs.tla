--------------------------- MODULE ModFetchProofs ---------------------------
(***************************************************************************)
(* A fetch returns with nothing open and nothing lost, and what it gives   *)
(* is what the host had, for all files, limits and changes of the host.    *)
(***************************************************************************)
EXTENDS ModFetch, SequenceTheorems, TLAPS

\* The handle and the buffer a fetch holds, told by where it is; a share that is
\* not there is never mounted.
Counted ==
    /\ handles = IF fpc \in {"stat", "read"} THEN 1 ELSE 0
    /\ bufs = IF fpc = "read" \/ out # NoBuf THEN 1 ELSE 0
    /\ fpc # "idle" => out = NoBuf
    /\ fpc = "read" => size > 0
    /\ share = "absent" => ~flag /\ ~unmounted

\* What a fetch would read is among what has been seen.
Witnessed == fpc \in {"stat", "read"} => file[path] \in seen

IInv == FetchTypeOK /\ Counted /\ Witnessed /\ DeliveredWhole /\ MountHeld

LEMMA StatusTypes ==
    /\ NO_ERROR \in Statuses /\ IO \in Statuses /\ NOT_FOUND \in Statuses
    /\ NO_MEMORY \in Statuses /\ NOT_SUPPORTED \in Statuses
    /\ \A f : StatStatus(f) \in Statuses
BY DEF Statuses, StatStatus

\* The file a fetch has open.
LEMMA OpenFile ==
    ASSUME FetchTypeOK, fpc # "idle"
    PROVE  file[path] \in HostFiles /\ file[path].data \in Seq(Nat)
BY FetchAssumption DEF FetchTypeOK, HostFile

\* What a read puts in the buffer.
LEMMA ReadData ==
    ASSUME FetchTypeOK, fpc = "read", Len(BytesRead) = size
    PROVE  /\ BytesRead \in Seq(Nat) /\ Len(file[path].data) >= size
           /\ BytesRead = SubSeq(file[path].data, 1, size)
<1> DEFINE d == file[path].data
<1>1. d \in Seq(Nat) /\ Len(d) \in Nat /\ size \in Nat
  <2>1. d \in Seq(Nat) /\ size \in Nat
    BY OpenFile, FetchAssumption DEF FetchTypeOK
  <2>2. QED BY <2>1, LenProperties
<1>2. CASE Len(d) < size
  BY <1>1, <1>2 DEF BytesRead
<1>3. CASE ~(Len(d) < size)
  <2>1. BytesRead = SubSeq(d, 1, size)
    BY <1>3 DEF BytesRead
  <2>2. \A i \in 1 .. size : d[i] \in Nat
    <3> HIDE DEF d
    <3>1. QED BY <1>1, <1>3, ElementOfSeq
  <2>3. SubSeq(d, 1, size) \in Seq(Nat)
    BY <1>1, <2>2, SubSeqProperties
  <2>4. Len(d) >= size
    BY <1>1, <1>3
  <2>5. QED BY <2>1, <2>3, <2>4
<1>4. QED BY <1>2, <1>3

LEMMA InitIInv == FetchInit => IInv
<1> SUFFICES ASSUME FetchInit PROVE IInv
  OBVIOUS
<1>1. FetchTypeOK
  <2>1. 0 \in 0 .. MaxFetch /\ << >> \in Seq(Nat)
    BY FetchAssumption, EmptySeq
  <2>2. QED BY <2>1, StatusTypes DEF FetchInit, FetchTypeOK, NoBuf
<1>2. QED BY <1>1 DEF IInv, FetchInit, Counted, Witnessed, DeliveredWhole,
                 MountHeld, NoBuf

LEMMA NextIInv == IInv /\ [FetchNext]_fetchVars => IInv'
<1> SUFFICES ASSUME IInv, [FetchNext]_fetchVars PROVE IInv'
  OBVIOUS
<1>0. FetchTypeOK /\ Counted /\ Witnessed /\ DeliveredWhole /\ MountHeld
  BY DEF IInv
<1>1. ASSUME NEW u \in Uris, Fetch(u) PROVE IInv'
  <2>1. FetchTypeOK'
    BY <1>0, <1>1, FetchAssumption, StatusTypes DEF FetchTypeOK, Fetch, UriPath, Uri
  <2>2. Counted' /\ Witnessed'
    BY <1>0, <1>1 DEF Fetch, Counted, Witnessed
  <2>3. DeliveredWhole' /\ MountHeld'
    BY <1>0, <1>1 DEF Fetch, DeliveredWhole, MountHeld
  <2>4. QED BY <2>1, <2>2, <2>3 DEF IInv
<1>2. CASE EnsureMounted
  <2>5. /\ share' \in {"absent", "attached", "mounted"} /\ flag' \in BOOLEAN
        /\ unmounted' \in BOOLEAN /\ fpc' \in {"idle", "open"} /\ status' \in Statuses
        /\ UNCHANGED <<file, handles, bufs, out>> /\ path \in Paths
        /\ \/ fpc' = "idle" /\ path' = NoPath /\ size' = 0 /\ seen' = {}
           \/ UNCHANGED <<path, size, seen>>
    BY <1>0, <1>2, StatusTypes DEF FetchTypeOK, EnsureMounted, Quit, Forget, Proceed
  <2>1. FetchTypeOK'
    BY <1>0, <2>5, FetchAssumption DEF FetchTypeOK
  <2>2. Counted' /\ Witnessed'
    BY <1>0, <1>2 DEF EnsureMounted, Quit, Forget, Proceed, Counted, Witnessed
  <2>3. DeliveredWhole' /\ MountHeld'
    BY <1>0, <1>2 DEF EnsureMounted, Quit, Forget, Proceed, Counted, DeliveredWhole,
       MountHeld
  <2>4. QED BY <2>1, <2>2, <2>3 DEF IInv
<1>3. CASE Open
  <2>1. FetchTypeOK'
    BY <1>0, <1>3, StatusTypes, OpenFile, FetchAssumption
    DEF FetchTypeOK, Open, Quit, Forget, Proceed
  <2>2. Counted' /\ Witnessed'
    BY <1>0, <1>3 DEF Open, Quit, Forget, Proceed, Counted, Witnessed
  <2>3. DeliveredWhole' /\ MountHeld'
    BY <1>0, <1>3 DEF Open, Quit, Forget, Proceed, DeliveredWhole, MountHeld, Counted
  <2>4. QED BY <2>1, <2>2, <2>3 DEF IInv
<1>4. ASSUME NEW err \in Statuses, fpc \in {"stat", "read"}, Leave(err) PROVE IInv'
  <2>1. FetchTypeOK'
    BY <1>0, <1>4, FetchAssumption DEF FetchTypeOK, Leave, Quit, Forget, Proceed, Counted
  <2>2. Counted' /\ Witnessed'
    BY <1>0, <1>4 DEF Leave, Quit, Forget, Proceed, Counted, Witnessed
  <2>3. DeliveredWhole' /\ MountHeld'
    BY <1>0, <1>4 DEF Leave, Quit, Forget, Proceed, Counted, DeliveredWhole, MountHeld
  <2>4. QED BY <2>1, <2>2, <2>3 DEF IInv
<1>5. CASE Stat /\ ~\E err \in Statuses : Leave(err)
  <2> DEFINE d == file[path].data
  <2>1. /\ fpc = "stat" /\ StatStatus(file[path]) = NO_ERROR
        /\ size' = Len(d) /\ bufs' = bufs + 1 /\ fpc' = "read"
        /\ UNCHANGED <<file, share, flag, handles, path, out, status, unmounted, seen>>
    BY <1>5, StatusTypes DEF Stat
  <2>2. d \in Seq(Nat) /\ Len(d) \in Nat
    BY <1>0, <2>1, OpenFile, LenProperties
  <2>3. Len(d) # 0 /\ ~(Len(d) > MaxFetch)
    BY <2>1 DEF StatStatus, NO_ERROR, NOT_FILE, TOO_BIG
  <2> HIDE DEF d
  <2>4. size' \in 0 .. MaxFetch /\ size' > 0
    BY <2>1, <2>2, <2>3, FetchAssumption
  <2>5. FetchTypeOK'
    BY <1>0, <2>1, <2>4 DEF FetchTypeOK
  <2>6. Counted' /\ Witnessed'
    BY <1>0, <2>1, <2>4 DEF Counted, Witnessed
  <2>7. DeliveredWhole' /\ MountHeld'
    BY <1>0, <2>1 DEF DeliveredWhole, MountHeld, Counted
  <2>8. QED BY <2>5, <2>6, <2>7 DEF IInv
<1>6. CASE fpc = "read" /\ Len(BytesRead) = size /\ Give(BytesRead)
  <2>1. /\ BytesRead \in Seq(Nat) /\ Len(file[path].data) >= size
        /\ BytesRead = SubSeq(file[path].data, 1, size)
    BY <1>0, <1>6, ReadData
  <2>2. file[path] \in seen /\ file[path].type = "file"
    <3>1. file[path] \in seen /\ file[path] \in HostFiles
      BY <1>0, <1>6, OpenFile DEF Witnessed
    <3>2. file[path].data # << >>
      BY <1>0, <1>6, <2>1, EmptySeq DEF Counted
    <3>3. QED BY <3>1, <3>2, FetchAssumption
  <2>8. handles' = 0
    BY <1>0, <1>6 DEF Give, Counted
  <2>3. FetchTypeOK'
    BY <1>0, <1>6, <2>1, <2>8, StatusTypes DEF FetchTypeOK, Give, Quit, Forget, Proceed
  <2>4. BytesRead # NoBuf
    BY <1>0, <1>6 DEF Counted, NoBuf
  <2>5. Counted' /\ Witnessed'
    BY <1>0, <1>6, <2>4 DEF Give, Quit, Forget, Proceed, Counted, Witnessed
  <2>9. /\ out' = BytesRead /\ size' = size /\ seen' = seen /\ flag' = flag
        /\ unmounted' = unmounted /\ share' = share /\ fpc' = "idle"
    BY <1>6 DEF Give, Quit, Forget, Proceed
  <2>6. DeliveredWhole' /\ MountHeld'
    BY <1>0, <1>6, <2>1, <2>2, <2>9 DEF DeliveredWhole, MountHeld
  <2>7. QED BY <2>3, <2>5, <2>6 DEF IInv
<1>7. CASE Release
  <2>1. FetchTypeOK'
    BY <1>0, <1>7, FetchAssumption DEF FetchTypeOK, Release, Forget, NoBuf, Counted
  <2>2. Counted' /\ Witnessed'
    BY <1>0, <1>7 DEF Release, Forget, Counted, Witnessed
  <2>3. DeliveredWhole' /\ MountHeld'
    BY <1>0, <1>7 DEF Release, Forget, DeliveredWhole, MountHeld
  <2>4. QED BY <2>1, <2>2, <2>3 DEF IInv
<1>8. ASSUME NEW p \in Paths, HostWrites(p) PROVE IInv'
  <2>1. FetchTypeOK'
    BY <1>0, <1>8 DEF FetchTypeOK, HostWrites
  <2>2. Counted' /\ Witnessed'
    BY <1>0, <1>8 DEF HostWrites, Counted, Witnessed, FetchTypeOK
  <2>3. DeliveredWhole' /\ MountHeld'
    BY <1>0, <1>8 DEF HostWrites, DeliveredWhole, MountHeld
  <2>4. QED BY <2>1, <2>2, <2>3 DEF IInv
<1>9. CASE ConsoleMounts
  <2>1. FetchTypeOK'
    BY <1>0, <1>9 DEF FetchTypeOK, ConsoleMounts
  <2>2. Counted' /\ Witnessed'
    BY <1>0, <1>9 DEF ConsoleMounts, Counted, Witnessed
  <2>3. DeliveredWhole' /\ MountHeld'
    <3>1. DeliveredWhole'
      BY <1>0, <1>9 DEF ConsoleMounts, DeliveredWhole
    <3>2. fpc' = "idle" /\ flag' = flag /\ unmounted' = (share = "mounted")
      BY <1>9 DEF ConsoleMounts
    <3>3. share = "attached" => share' = "mounted"
      BY <1>9 DEF ConsoleMounts
    <3>4. share \in {"absent", "attached", "mounted"} /\ (flag => share # "absent")
      BY <1>0 DEF FetchTypeOK, Counted
    <3> QED
      BY <3>1, <3>2, <3>3, <3>4 DEF MountHeld
  <2>4. QED BY <2>1, <2>2, <2>3 DEF IInv
<1>10. CASE UNCHANGED fetchVars
  BY <1>0, <1>10 DEF IInv, fetchVars, FetchTypeOK, Counted, Witnessed,
                    DeliveredWhole, MountHeld
<1>11. CASE Stat
  BY <1>4, <1>5, <1>11 DEF Stat
<1>12. CASE Read
  BY <1>4, <1>6, <1>12, StatusTypes DEF Read
<1>13. QED BY <1>1, <1>2, <1>3, <1>7, <1>8, <1>9, <1>10, <1>11, <1>12
           DEF FetchNext, FetchStep

LEMMA Inductive == FetchSpec => []IInv
BY InitIInv, NextIInv, PTL DEF FetchSpec

------------------------------------------------------------------------------
\* Every variable of a fetch keeps its kind of value, and no buffer is larger
\* than MODLOADER_MAX_FETCH_SIZE.
THEOREM FetchTypeCorrect == FetchSpec => []FetchTypeOK
<1>1. IInv => FetchTypeOK
  BY DEF IInv
<1>2. QED BY <1>1, Inductive, PTL

\* Each of the returns of modloader_fetch_file_path closes the file and frees
\* the buffer it does not hand over.
THEOREM CleanReturnHolds == FetchSpec => []CleanReturn
<1>1. IInv => CleanReturn
  BY DEF IInv, Counted, CleanReturn
<1>2. QED BY <1>1, Inductive, PTL

\* What is delivered is what the host had, up to the size fs_stat_file told.
THEOREM DeliveredWholeHolds == FetchSpec => []DeliveredWhole
<1>1. IInv => DeliveredWhole
  BY DEF IInv
<1>2. QED BY <1>1, Inductive, PTL

\* modloader_v9p_ensure_mounted sets its flag when the share is mounted, and not
\* before: the flag is wrong only when the console has unmounted the share.
THEOREM MountHolds == FetchSpec => []MountHeld
<1>1. IInv => MountHeld
  BY DEF IInv
<1>2. QED BY <1>1, Inductive, PTL
==============================================================================
