-------------------------- MODULE BbDownloadProofs --------------------------
(***************************************************************************)
(* What downloadBb guarantees, for any number of calls and with crashes    *)
(* anywhere, until two downloads of the version overlap.                   *)
(***************************************************************************)
EXTENDS BbDownload, TLAPS

\* No file of d is held open.
Quiet(d) == d.writers = {} /\ d.by = None

\* What call c may rely on at each point of its download.
CallOK(c) ==
  /\ At(c, "write") => tmp.writers = {c} /\ tmp.by = None
  /\ At(c, "extract") => tmp.by = c /\ tmp.writers = {}
  /\ call[c].pc \notin {"write", "extract"} /\ Downloading(c) => Quiet(tmp)
  /\ call[c].pc \in {"open", "write", "untar", "extract", "check", "rename"}
       => tmp.here
  /\ call[c].pc \in {"check", "rename"} => tmp.bb = "whole"
  /\ ~At(c, "rm") /\ ~At(c, "rename2")
  /\ At(c, "cached") => dir.bb = "whole"
  /\ At(c, "read") => call[c].read = "whole"

Serial ==
  /\ \A c, d \in Call : Downloading(c) /\ Downloading(d) => c = d
  /\ \A c \in Call : CallOK(c)
  /\ (\A c \in Call : ~Downloading(c)) => Quiet(tmp)
  /\ dir = Absent \/ (dir.bb = "whole" /\ Quiet(dir))
  /\ (\E c \in Call : Downloading(c)) => dir = Absent

Typed ==
  /\ tmp \in Directory
  /\ dir \in Directory
  /\ call \in [Call -> Local]

LEMMA TypedStep == Typed /\ [Next]_vars => Typed'
<1> SUFFICES ASSUME Typed, [Next]_vars PROVE Typed'
  OBVIOUS
<1> USE DownloadAssumption
<1>1. Absent \in Directory /\ Idle \in Local
  BY DEF Absent, Directory, Quality, Idle, Local, Pc
<1>2. CASE UNCHANGED vars
  BY <1>2 DEF Typed, vars
<1>3. CASE Crash
  BY <1>1, <1>3 DEF Crash, Stopped, Typed, Directory
<1>4. ASSUME NEW c \in Call, Begin(c) \/ Work(c) PROVE Typed'
  <2> USE DEF Typed, Goto, Local, Pc
  <2>1. CASE Begin(c) \/ Fetch(c) \/ Check(c)
    BY <2>1 DEF Begin, Fetch, Check
  <2>2. CASE Reset(c) \/ Cleanup(c) \/ RmCached(c)
    BY <1>1, <2>2 DEF Reset, Cleanup, RmCached
  <2>3. CASE MkTmp(c) \/ OpenTarball(c)
    <3>1. /\ [tmp EXCEPT !.here = TRUE] \in Directory
          /\ [tmp EXCEPT !.here = TRUE, !.tarball = "part",
                         !.writers = @ \cup {c}] \in Directory
      BY DEF Directory, Quality
    <3>2. call' \in [Call -> Local] /\ dir' = dir
      BY <2>3 DEF MkTmp, OpenTarball
    <3>3. QED BY <2>3, <3>1, <3>2 DEF MkTmp, OpenTarball
  <2>4. CASE FinishTarball(c) \/ FailTarball(c)
    <3>1. \A d \in Directory, q \in Quality : Closed(d, c, q) \in Directory
      BY DEF Closed, Directory
    <3>2. {"part", "whole"} \subseteq Quality
      BY DEF Quality
    <3>3. call' \in [Call -> Local]
      BY <2>4 DEF FinishTarball, FailTarball
    <3>4. PICK q \in Quality : /\ tmp' = Closed(tmp, c, q)
                               /\ dir' = Closed(dir, c, q)
      BY <2>4, <3>2 DEF FinishTarball, FailTarball
    <3>5. QED BY <3>1, <3>3, <3>4
  <2>5. CASE Untar(c)
    <3>1. [tmp EXCEPT !.bb = "part", !.by = c] \in Directory
      BY DEF Directory, Quality
    <3>2. tmp.tarball \in Quality
      BY DEF Directory
    <3>3. call' \in [Call -> Local]
      BY <2>5, <3>2 DEF Untar
    <3>4. QED BY <2>5, <3>1, <3>3 DEF Untar
  <2>6. CASE ExitTar(c)
    <3>1. \A d \in Directory, q \in Quality : Extracted(d, c, q) \in Directory
      BY DEF Extracted, Directory
    <3>2. {"part", "whole"} \subseteq Quality
      BY DEF Quality
    <3>3. call' \in [Call -> Local]
      BY <2>6 DEF ExitTar
    <3>4. PICK q \in Quality : /\ tmp' = Extracted(tmp, c, q)
                               /\ dir' = Extracted(dir, c, q)
      BY <2>6, <3>2 DEF ExitTar
    <3>5. QED BY <3>1, <3>3, <3>4
  <2>7. CASE Rename(c) \/ RenameAgain(c)
    BY <1>1, <2>7 DEF Rename, RenameAgain, Move
  <2>8. CASE ReadCached(c)
    <3>1. dir.bb \in Quality
      BY DEF Directory
    <3>2. PICK pc \in {"read", "failed"} :
            call' = [call EXCEPT ![c].pc = pc, ![c].read = dir.bb]
      BY <2>8 DEF ReadCached
    <3>3. call' \in [Call -> Local]
      <4>1. [call[c] EXCEPT !.pc = pc, !.read = dir.bb] \in Local
        BY <3>1
      <4>2. QED BY <3>2, <4>1
    <3>4. QED BY <2>8, <3>3 DEF ReadCached
  <2>9. CASE Done(c)
    BY <1>1, <2>9 DEF Done
  <2>10. QED
    BY <1>4, <2>1, <2>2, <2>3, <2>4, <2>5, <2>6, <2>7, <2>8, <2>9 DEF Work
<1>5. QED BY <1>2, <1>3, <1>4 DEF Next

LEMMA TypedAlways == Spec => []Typed
<1>1. Init => Typed
  BY DownloadAssumption
     DEF Init, Typed, Absent, Directory, Quality, Idle, Local, Pc
<1>2. QED BY <1>1, TypedStep, PTL DEF Spec

\* Who holds the files of directory d open, when the calls are where k says.
Open(d, k) ==
  /\ d.here \/ d = Absent
  /\ \A c \in d.writers : k[c].pc = "write"
  /\ d.by # None => k[d.by].pc = "extract" /\ d.bb = "part"

OpenInv == Open(tmp, call) /\ Open(dir, call)

\* A directory that c does not hold open, left alone by a step of c.
LEMMA OpenOther ==
  ASSUME Typed, Typed', NEW c \in Call, NEW d \in Directory, Open(d, call),
         \A e \in Call \ {c} : call'[e] = call[e],
         call[c].pc \notin {"write", "extract"} \/ (c \notin d.writers /\ d.by # c)
  PROVE  Open(d, call')
BY DownloadAssumption DEF Open, Directory

LEMMA OpenStep == Typed /\ Typed' /\ OpenInv /\ [Next]_vars => OpenInv'
<1> SUFFICES ASSUME Typed, Typed', OpenInv, [Next]_vars
             PROVE  Open(tmp', call') /\ Open(dir', call')
  BY DEF OpenInv
<1> USE DownloadAssumption
<1>1. \A k : Open(Absent, k)
  BY DEF Open, Absent
<1>2. CASE UNCHANGED vars
  BY <1>2 DEF vars, OpenInv
<1>3. CASE Crash
  <2>1. ASSUME NEW d \in Directory, Open(d, call)
        PROVE  Open(Stopped(d), call')
    <3>1. Stopped(d) = [d EXCEPT !.writers = {}, !.by = None]
      BY Zenon DEF Stopped
    <3>2. /\ Stopped(d).here = d.here /\ Stopped(d).writers = {}
          /\ Stopped(d).by = None
      BY <3>1 DEF Directory
    <3>3. d = Absent => Stopped(d) = Absent
      <4>1. d.writers = {} /\ d.by = None => Stopped(d) = d
        BY <3>1 DEF Directory
      <4>2. QED BY <4>1 DEF Absent
    <3>4. QED BY <2>1, <3>2, <3>3 DEF Open
  <2>2. QED BY <1>3, <2>1 DEF Crash, OpenInv, Typed
<1>4. ASSUME NEW c \in Call, Begin(c) \/ Work(c)
      PROVE  Open(tmp', call') /\ Open(dir', call')
  <2>1. \A e \in Call \ {c} : call'[e] = call[e]
    BY <1>4
       DEF Work, Begin, Fetch, Reset, MkTmp, OpenTarball, FinishTarball,
           FailTarball, Untar, ExitTar, Check, Cleanup, Rename, RmCached,
           RenameAgain, ReadCached, Done, Goto, Typed
  <2>2. CASE FinishTarball(c) \/ FailTarball(c)
    <3>1. PICK q : tmp' = Closed(tmp, c, q) /\ dir' = Closed(dir, c, q)
      BY <2>2 DEF FinishTarball, FailTarball
    <3>2. call[c].pc = "write"
      BY <2>2 DEF FinishTarball, FailTarball, At
    <3>3. ASSUME NEW d \in Directory, Open(d, call)
          PROVE  Open(Closed(d, c, q), call')
      <4>1. CASE c \in d.writers
        <5>1. d # Absent
          BY <4>1 DEF Absent
        <5>2. Closed(d, c, q) = [d EXCEPT !.tarball = q, !.writers = @ \ {c}]
          BY <4>1 DEF Closed
        <5>3. d.by # c
          BY <3>2, <3>3 DEF Open
        <5>4. QED BY <2>1, <3>3, <5>1, <5>2, <5>3 DEF Open, Directory
      <4>2. CASE c \notin d.writers
        <5>1. Closed(d, c, q) = d /\ d.by # c
          BY <3>2, <3>3, <4>2 DEF Closed, Open
        <5>2. QED BY <2>1, <3>3, <4>2, <5>1, OpenOther
      <4>3. QED BY <4>1, <4>2
    <3>4. QED BY <3>1, <3>3 DEF OpenInv, Typed
  <2>3. CASE ExitTar(c)
    <3>1. PICK q : tmp' = Extracted(tmp, c, q) /\ dir' = Extracted(dir, c, q)
      BY <2>3 DEF ExitTar
    <3>2. call[c].pc = "extract"
      BY <2>3 DEF ExitTar, At
    <3>3. ASSUME NEW d \in Directory, Open(d, call)
          PROVE  Open(Extracted(d, c, q), call')
      <4>1. c \notin d.writers
        BY <3>2, <3>3 DEF Open
      <4>2. CASE d.by = c
        <5>1. d # Absent
          BY <4>2 DEF Absent
        <5>2. Extracted(d, c, q) = [d EXCEPT !.bb = q, !.by = None]
          BY <4>2 DEF Extracted
        <5>3. QED BY <2>1, <3>3, <4>1, <5>1, <5>2 DEF Open, Directory
      <4>3. CASE d.by # c
        <5>1. Extracted(d, c, q) = d
          BY <4>3 DEF Extracted
        <5>2. QED BY <2>1, <3>3, <4>1, <4>3, <5>1, OpenOther
      <4>4. QED BY <4>2, <4>3
    <3>4. QED BY <3>1, <3>3 DEF OpenInv, Typed
  <2>4. CASE call[c].pc \notin {"write", "extract"}
    <3>1. Open(tmp, call') /\ Open(dir, call')
      BY <2>1, <2>4, OpenOther DEF OpenInv, Typed
    <3>2. CASE Untar(c)
      <4>1. CASE tmp.tarball = "none"
        BY <3>1, <3>2, <4>1 DEF Untar
      <4>2. CASE tmp.tarball # "none"
        <5>1. tmp.here
          BY <4>2 DEF OpenInv, Open, Absent
        <5>2. tmp' = [tmp EXCEPT !.bb = "part", !.by = c] /\ dir' = dir
          BY <3>2, <4>2 DEF Untar
        <5>3. call'[c].pc = "extract"
          BY <3>2, <4>2 DEF Untar, Typed, Local
        <5>4. QED BY <3>1, <5>1, <5>2, <5>3 DEF Open, Typed, Directory
      <4>3. QED BY <4>1, <4>2
    <3>3. CASE OpenTarball(c)
      <4>1. call'[c].pc = "write"
        BY <3>3 DEF OpenTarball, Goto, Typed, Local
      <4>2. QED BY <3>1, <3>3, <4>1 DEF OpenTarball, Open, Typed, Directory
    <3>4. CASE MkTmp(c)
      BY <3>1, <3>4 DEF MkTmp, Open, Typed, Directory
    <3>5. CASE ~Untar(c) /\ ~OpenTarball(c) /\ ~MkTmp(c)
      <4>1. tmp' \in {tmp, dir, Absent} /\ dir' \in {tmp, dir, Absent}
        BY <1>4, <2>4, <3>5
           DEF Work, Begin, Fetch, Reset, FinishTarball, FailTarball, ExitTar,
               Check, Cleanup, Rename, Move, RmCached, RenameAgain, ReadCached,
               Done, At
      <4>2. QED BY <1>1, <3>1, <4>1
    <3>6. QED BY <3>2, <3>3, <3>4, <3>5
  <2>5. QED
    BY <1>4, <2>2, <2>3, <2>4
       DEF Work, Begin, Fetch, Reset, MkTmp, OpenTarball, Untar, Check,
           Cleanup, Rename, RmCached, RenameAgain, ReadCached, Done, At
<1>5. QED BY <1>2, <1>3, <1>4 DEF Next

\* Whatever renames and deletions do to the directories under it, a file is held
\* open only by a call that is at that point of its work.
THEOREM DownloadType == Spec => []TypeOK
<1> DEFINE MetOK == met \in BOOLEAN
<1>1. Init => OpenInv
  BY DEF Init, OpenInv, Open, Absent
<1>2. Init => MetOK
  BY Zenon DEF Init
<1>3. MetOK /\ [Next]_vars => MetOK'
  BY Zenon
     DEF Next, vars, Crash, Work, Begin, Meet, Fetch, Reset, MkTmp,
         OpenTarball, FinishTarball, FailTarball, Untar, ExitTar, Check,
         Cleanup, Rename, Move, RmCached, RenameAgain, ReadCached, Done
<1>4. Typed /\ OpenInv /\ MetOK => TypeOK
  BY DEF Typed, OpenInv, Open, TypeOK
<1> HIDE DEF MetOK
<1>5. QED BY <1>1, <1>2, <1>3, <1>4, OpenStep, TypedAlways, PTL DEF Spec

-----------------------------------------------------------------------------
LEMMA MetStays == Typed /\ [Next]_vars /\ met => met'
BY DEF Typed, Next, vars, Crash, Work, Begin, Meet, Fetch, Reset, MkTmp,
       OpenTarball, FinishTarball, FailTarball, Untar, ExitTar, Check, Cleanup,
       Rename, Move, RmCached, RenameAgain, ReadCached, Done

LEMMA SerialStep ==
  Typed /\ Typed' /\ Serial /\ ~met' /\ [Next]_vars => Serial'
<1> SUFFICES ASSUME Typed, Typed', Serial, ~met', [Next]_vars PROVE Serial'
  OBVIOUS
<1> USE DownloadAssumption
<1>1. CASE UNCHANGED vars
  BY <1>1
     DEF Serial, CallOK, Quiet, Downloading, At, vars
<1>2. CASE Crash
  <2>1. \A c \in Call : call'[c].pc = "idle"
    BY <1>2 DEF Crash, Idle
  <2>2. Quiet(tmp') /\ (dir = Absent => dir' = Absent)
        /\ (dir.bb = "whole" => dir'.bb = "whole" /\ Quiet(dir'))
    <3>1. \A d \in Directory : /\ Quiet(Stopped(d))
                               /\ Stopped(d).bb = d.bb
                               /\ Quiet(d) => Stopped(d) = d
      BY DEF Stopped, Quiet, Directory
    <3>2. Quiet(Absent)
      BY DEF Quiet, Absent
    <3>3. QED BY <1>2, <3>1, <3>2 DEF Crash, Typed
  <2>3. QED
    BY <2>1, <2>2 DEF Serial, CallOK, Downloading, At, Quiet
<1>3. ASSUME NEW c \in Call, Begin(c) \/ Done(c) \/ ReadCached(c)
      PROVE  Serial'
  <2>1. UNCHANGED <<tmp, dir>> /\ \A d \in Call \ {c} : call'[d] = call[d]
    BY <1>3 DEF Begin, Done, ReadCached, Goto, Typed
  <2>2. CASE Begin(c) /\ dir.bb # "none"
    <3>1. call'[c].pc = "cached" /\ dir.bb = "whole"
      BY <2>2 DEF Begin, Goto, Typed, Local, Serial, Absent
    <3>2. ~Downloading(c)
      BY <2>2 DEF Begin, At, Downloading
    <3>3. \A d \in Call : CallOK(d)'
      BY <2>1, <3>1, <3>2 DEF Serial, CallOK, Downloading, At, Quiet
    <3>4. QED
      BY <2>1, <3>1, <3>2, <3>3 DEF Serial, Downloading, Quiet
  <2>3. CASE Begin(c) /\ dir.bb = "none"
    <3>1. call'[c].pc = "fetch" /\ dir = Absent
      BY <2>3 DEF Begin, Goto, Typed, Local, Serial
    <3>2. \A d \in Call : ~Downloading(d)
      BY <2>3 DEF Begin, Meet
    <3>3. Quiet(tmp) /\ \A d \in Call \ {c} : CallOK(d)
      BY <3>2 DEF Serial
    <3>4. \A d \in Call : CallOK(d)'
      BY <2>1, <3>1, <3>2, <3>3 DEF CallOK, Downloading, At, Quiet
    <3>5. QED
      BY <2>1, <3>1, <3>2, <3>4 DEF Serial, Downloading, Quiet
  <2>4. CASE Done(c)
    <3>1. call'[c].pc = "idle" /\ ~Downloading(c)
      BY <2>4 DEF Done, Idle, Typed, Downloading
    <3>2. QED
      BY <2>1, <3>1 DEF Serial, CallOK, Downloading, At, Quiet
  <2>5. CASE ReadCached(c)
    <3>1. dir.bb = "whole" /\ At(c, "cached")
      BY <2>5 DEF ReadCached, Serial, CallOK
    <3>2. call'[c].pc = "read" /\ call'[c].read = "whole"
      BY <2>5, <3>1 DEF ReadCached, Typed, Local
    <3>3. QED
      BY <2>1, <3>1, <3>2 DEF Serial, CallOK, Downloading, At, Quiet
  <2>6. QED BY <1>3, <2>2, <2>3, <2>4, <2>5
<1>4. ASSUME NEW c \in Call, Work(c), Downloading(c) PROVE Serial'
  <2>1. /\ dir = Absent
        /\ \A d \in Call \ {c} : ~Downloading(d)
        /\ \A d \in Call : CallOK(d) /\ ~At(d, "cached")
    BY <1>4 DEF Serial, CallOK, Absent
  <2>2. \A d \in Call \ {c} : call'[d] = call[d]
    BY <1>4
       DEF Work, Fetch, Reset, MkTmp, OpenTarball, FinishTarball, FailTarball,
           Untar, ExitTar, Check, Cleanup, Rename, RmCached, RenameAgain,
           ReadCached, Done, Goto, Typed
  <2>3. \A d \in Call \ {c} : CallOK(d)'
    BY <2>1, <2>2 DEF CallOK, Downloading, At
  \* What remains is c itself: its own condition and the two directories.
  <2>4. SUFFICES /\ CallOK(c)'
                 /\ Downloading(c)' \/ Quiet(tmp)'
                 /\ dir' = Absent \/ (dir'.bb = "whole" /\ Quiet(dir)')
                 /\ Downloading(c)' => dir' = Absent
    <3>1. \A d \in Call \ {c} : ~Downloading(d)'
      BY <2>1, <2>2 DEF Downloading
    <3>2. QED BY <2>3, <3>1 DEF Serial
  <2> USE DEF CallOK, Downloading, At, Goto, Typed, Local
  <2>5. CASE Fetch(c)
    <3>1. call[c].pc = "fetch" /\ call'[c].pc \in {"reset", "failed"}
      BY <2>5 DEF Fetch
    <3>2. QED BY <2>1, <2>5, <3>1 DEF Fetch, Quiet
  <2>6. CASE Reset(c) \/ Cleanup(c)
    BY <2>1, <2>6 DEF Reset, Cleanup, Absent, Quiet
  <2>7. CASE MkTmp(c)
    <3>1. /\ Quiet(tmp') /\ tmp'.here
          /\ call'[c].pc = "open" /\ dir' = dir
      BY <2>1, <2>7 DEF MkTmp, Quiet, Directory
    <3>2. QED BY <2>1, <3>1 DEF Quiet
  <2>8. CASE OpenTarball(c)
    <3>1. /\ tmp'.writers = {c} /\ tmp'.by = None /\ tmp'.here
          /\ call'[c].pc = "write" /\ dir' = dir
      BY <2>1, <2>8 DEF OpenTarball, Quiet, Directory
    <3>2. QED BY <2>1, <3>1
  <2>9. CASE FinishTarball(c) \/ FailTarball(c)
    <3>1. call[c].pc = "write" /\ call'[c].pc \in {"untar", "failed"}
      BY <2>9 DEF FinishTarball, FailTarball
    <3>2. PICK q : tmp' = Closed(tmp, c, q) /\ dir' = Closed(dir, c, q)
      BY <2>9 DEF FinishTarball, FailTarball
    <3>3. Quiet(tmp') /\ dir' = dir /\ tmp'.here
      BY <2>1, <3>1, <3>2 DEF Closed, Absent, Quiet, Directory
    <3>4. QED BY <2>1, <3>1, <3>3 DEF Quiet
  <2>11. CASE Untar(c)
    <3>1. call[c].pc = "untar" /\ Quiet(tmp) /\ tmp.here /\ dir' = dir
      BY <2>1, <2>11 DEF Untar
    <3>2. CASE tmp.tarball = "none"
      BY <2>1, <2>11, <3>1, <3>2 DEF Untar, Quiet
    <3>3. CASE tmp.tarball # "none"
      <4>1. /\ tmp'.by = c /\ tmp'.writers = {} /\ tmp'.here
            /\ call'[c].pc = "extract"
        <5>1. tmp' = [tmp EXCEPT !.bb = "part", !.by = c]
          BY <2>11, <3>3 DEF Untar
        <5>2. call'[c].pc = "extract"
          BY <2>11, <3>3 DEF Untar
        <5>3. QED BY <3>1, <5>1, <5>2 DEF Quiet, Directory
      <4>2. QED BY <2>1, <3>1, <4>1
    <3>4. QED BY <3>2, <3>3
  <2>12. CASE ExitTar(c)
    <3>1. call[c].pc = "extract" /\ tmp.by = c /\ tmp.writers = {}
      BY <2>1, <2>12 DEF ExitTar
    <3>2. PICK q \in {"part", "whole"} :
            /\ tmp' = Extracted(tmp, c, q) /\ dir' = Extracted(dir, c, q)
            /\ call' = [call EXCEPT ![c].pc =
                          IF q = "whole" THEN "check" ELSE "cleanup"]
      BY <2>12 DEF ExitTar
    <3>3. /\ Quiet(tmp') /\ tmp'.bb = q /\ dir' = dir
          /\ tmp'.here = tmp.here
      BY <2>1, <3>1, <3>2 DEF Extracted, Absent, Quiet, Directory
    <3>4. call'[c].pc = IF q = "whole" THEN "check" ELSE "cleanup"
      BY <3>2
    <3>5. QED BY <2>1, <3>1, <3>3, <3>4 DEF Quiet
  <2>13. CASE Check(c)
    BY <2>1, <2>13 DEF Check, Quiet
  <2>14. CASE Rename(c)
    <3>1. tmp.here /\ tmp.bb = "whole" /\ Quiet(tmp)
      BY <2>1, <2>14 DEF Rename
    <3>2. Movable
      BY <2>1, <3>1 DEF Movable, Absent
    <3>3. dir' = tmp /\ tmp' = Absent /\ call'[c].pc = "cached"
      BY <2>14, <3>2 DEF Rename, Move
    <3>4. QED BY <3>1, <3>3 DEF Quiet, Absent
  <2>15. QED
    BY <1>4, <2>1, <2>5, <2>6, <2>7, <2>8, <2>9, <2>11, <2>12, <2>13,
       <2>14 DEF Work, RmCached, RenameAgain, ReadCached, Done
<1>5. ASSUME NEW c \in Call, Work(c)
      PROVE  Downloading(c) \/ Done(c) \/ ReadCached(c)
  <2>1. CASE ReadCached(c) \/ Done(c)
    BY <2>1
  <2>2. CASE ~ReadCached(c) /\ ~Done(c)
    <3>1. call[c].pc \in {"fetch", "reset", "mkdir", "open", "write", "untar",
                          "extract", "check", "cleanup", "rename", "rm",
                          "rename2"}
      BY <1>5, <2>2
         DEF Work, Fetch, Reset, MkTmp, OpenTarball, FinishTarball,
             FailTarball, Untar, ExitTar, Check, Cleanup, Rename, RmCached,
             RenameAgain, At
    <3>2. QED BY <3>1 DEF Downloading
  <2>3. QED BY <2>1, <2>2
<1>6. QED BY <1>1, <1>2, <1>3, <1>4, <1>5 DEF Next

SerialInv == ~met => Serial

LEMMA SerialAlways == Spec => []SerialInv
<1>1. Init => SerialInv
  BY DEF Init, SerialInv, Serial, CallOK, Quiet, Downloading, At, Absent, Idle
<1>2. Typed /\ Typed' /\ SerialInv /\ [Next]_vars => SerialInv'
  BY SerialStep, MetStays DEF SerialInv
<1>3. QED BY <1>1, <1>2, TypedAlways, PTL DEF Spec

\* bb-download.ts:18: unless downloads of a version have overlapped its cache
\* holds a complete binary or none, wherever the host crashes.
THEOREM DownloadIsWhole == Spec => []CachedIsWhole
<1>1. SerialInv => CachedIsWhole
  BY DEF SerialInv, Serial, CachedIsWhole, Absent
<1>2. QED BY <1>1, SerialAlways, PTL

\* Unless downloads have overlapped, what uploadBb sends is a complete binary.
THEOREM SentIsWhole == Spec => []UploadIsWhole
<1>1. SerialInv => UploadIsWhole
  BY DEF SerialInv, Serial, CallOK, UploadIsWhole
<1>2. QED BY <1>1, SerialAlways, PTL

\* Unless downloads have overlapped, a complete cached binary stays.
THEOREM CachedStaysWhole == Spec => WholeIsKept
<1>1. SerialInv /\ Typed /\ [Next]_vars
        => [~met' /\ dir.bb = "whole" => dir'.bb = "whole"]_vars
  <2> SUFFICES ASSUME SerialInv, Typed, Next, ~met', dir.bb = "whole"
               PROVE  dir'.bb = "whole"
    OBVIOUS
  <2>1. \A c \in Call : ~Downloading(c)
    BY MetStays DEF SerialInv, Serial, Absent
  <2>2. CASE Crash
    BY <2>2 DEF Crash, Stopped, Typed, Directory
  <2>3. ASSUME NEW c \in Call, Begin(c) \/ Work(c) PROVE dir' = dir
    BY <2>1, <2>3
       DEF Work, Begin, Fetch, Reset, MkTmp, OpenTarball, FinishTarball,
           FailTarball, Untar, ExitTar, Check, Cleanup, Rename, RmCached,
           RenameAgain, ReadCached, Done, Downloading, At
  <2>4. QED BY <2>2, <2>3 DEF Next
<1>2. QED BY <1>1, SerialAlways, TypedAlways, PTL DEF Spec, WholeIsKept

\* Unless downloads have overlapped, a call whose archive was extracted
\* succeeds: it neither misses its binary nor needs the second rename.
THEOREM ExtractedSucceeds == Spec => ExtractedIsCached
<1> DEFINE A == ~met' => \A c \in Call :
       call[c].pc \in {"check", "rename", "rm", "rename2"}
         => call'[c].pc \notin {"cleanup", "failed"}
<1>1. SerialInv /\ Typed /\ [Next]_vars => [A]_vars
  <2> SUFFICES ASSUME SerialInv, Typed, Next, ~met', NEW c \in Call,
                      call[c].pc \in {"check", "rename", "rm", "rename2"}
               PROVE  call'[c].pc \notin {"cleanup", "failed"}
    OBVIOUS
  <2>1. /\ call[c].pc \in {"check", "rename"} /\ tmp.bb = "whole"
        /\ tmp.here /\ dir = Absent
    BY MetStays DEF SerialInv, Serial, CallOK, At, Downloading
  <2>2. CASE Crash
    BY <2>2 DEF Crash, Idle
  <2>3. ASSUME NEW d \in Call \ {c}, Begin(d) \/ Work(d)
        PROVE  call'[c] = call[c]
    BY <2>3
       DEF Work, Begin, Fetch, Reset, MkTmp, OpenTarball, FinishTarball,
           FailTarball, Untar, ExitTar, Check, Cleanup, Rename, RmCached,
           RenameAgain, ReadCached, Done, Goto, Typed
  <2>4. CASE Begin(c) \/ Work(c)
    <3>1. Check(c) \/ Rename(c)
      BY <2>1, <2>4
         DEF Work, Begin, Fetch, Reset, MkTmp, OpenTarball, FinishTarball,
             FailTarball, Untar, ExitTar, Cleanup, RmCached, RenameAgain,
             ReadCached, Done, At
    <3>2. CASE Check(c)
      BY <2>1, <3>2 DEF Check, Goto, Typed, Local
    <3>3. CASE Rename(c)
      <4>1. Movable
        BY <2>1 DEF Movable, Absent
      <4>2. QED BY <3>3, <4>1 DEF Rename, Goto, Typed, Local
    <3>4. QED BY <3>1, <3>2, <3>3
  <2>5. QED BY <2>1, <2>2, <2>3, <2>4 DEF Next
<1>2. QED BY <1>1, SerialAlways, TypedAlways, PTL DEF Spec, ExtractedIsCached
=============================================================================
