----------------------------- MODULE BbDownload -----------------------------
(***************************************************************************)
(* downloadBb (packages/server/src/lib/bb-download.ts): how the host       *)
(* fetches a bb release into its cache, and how uploadBb then reads it.    *)
(*                                                                         *)
(* All paths of one version are disjoint from those of another, so the     *)
(* module is about one version: its cached directory {v} and the temporary *)
(* directory .{v}.tmp that every download of the version uses.  Each       *)
(* action runs from one await to the next.  An rm of a directory is one    *)
(* step; a tar process follows its directory when that is renamed.         *)
(***************************************************************************)
EXTENDS Naturals

CONSTANTS
  Call,      \* concurrent calls of downloadBb for the version
  None

ASSUME DownloadAssumption == None \notin Call

VARIABLES
  tmp,       \* the directory .{v}.tmp
  dir,       \* the cached directory {v}
  call,      \* call[d]: the position and locals of call d
  met        \* history: have two calls ever been downloading at once?

vars == <<tmp, dir, call, met>>

\* A file that is not there, incomplete, or as released.
Quality == {"none", "part", "whole"}

\* tarball: bb.tar.gz, and writers the calls streaming into it.
\* bb: the extracted binary, and by whose tar process it is being written.
Directory == [here : BOOLEAN, tarball : Quality, writers : SUBSET Call,
              bb : Quality, by : Call \cup {None}]

Absent == [here |-> FALSE, tarball |-> "none", writers |-> {},
           bb |-> "none", by |-> None]

Pc == {"idle", "fetch", "reset", "mkdir", "open", "write", "untar", "extract",
       "check", "rename", "rm", "rename2", "cleanup", "cached", "read",
       "failed"}

\* read: what the tar process, and later uploadBb, found in the file it read.
Local == [pc : Pc, read : Quality]

Idle == [pc |-> "idle", read |-> "none"]

\* Files are held open only by calls that are at that point of their work.
TypeOK ==
  /\ tmp \in Directory
  /\ dir \in Directory
  /\ call \in [Call -> Local]
  /\ met \in BOOLEAN
  /\ \A d \in {tmp, dir} :
       /\ d.here \/ d = Absent
       /\ \A c \in d.writers : call[c].pc = "write"
       /\ d.by # None => call[d.by].pc = "extract" /\ d.bb = "part"

Init ==
  /\ tmp = Absent
  /\ dir = Absent
  /\ call = [c \in Call |-> Idle]
  /\ met = FALSE

At(c, pc) == call[c].pc = pc
Goto(c, pc) == call' = [call EXCEPT ![c].pc = pc]

Downloading(c) == call[c].pc \notin {"idle", "cached", "read", "failed"}

-----------------------------------------------------------------------------
Meet == met' = (met \/ \E e \in Call : Downloading(e))

Begin_NoCache(c) ==       \* mutant: the cache is not consulted
  /\ At(c, "idle")
  /\ Goto(c, "fetch")
  /\ Meet
  /\ UNCHANGED <<tmp, dir>>

\* A cached binary is returned without a download.
Begin(c) ==
  /\ At(c, "idle")
  /\ IF dir.bb # "none" THEN Goto(c, "cached") /\ UNCHANGED met
                         ELSE Goto(c, "fetch") /\ Meet
  /\ UNCHANGED <<tmp, dir>>

\* The response headers are in: an error status throws.
Fetch(c) ==
  /\ At(c, "fetch")
  /\ \E pc \in {"reset", "failed"} : Goto(c, pc)
  /\ UNCHANGED <<tmp, dir, met>>

\* "Clean up any previous incomplete download."
Reset(c) ==
  /\ At(c, "reset")
  /\ tmp' = Absent
  /\ Goto(c, "mkdir")
  /\ UNCHANGED <<dir, met>>

MkTmp(c) ==
  /\ At(c, "mkdir")
  /\ tmp' = [tmp EXCEPT !.here = TRUE]
  /\ Goto(c, "open")
  /\ UNCHANGED <<dir, met>>

\* Bun.write truncates the tarball, making its directory again if need be, ...
OpenTarball(c) ==
  /\ At(c, "open")
  /\ tmp' = [tmp EXCEPT !.here = TRUE, !.tarball = "part",
                        !.writers = @ \cup {c}]
  /\ Goto(c, "write")
  /\ UNCHANGED <<dir, met>>

Closed(d, c, q) ==
  IF c \in d.writers
    THEN [d EXCEPT !.tarball = q, !.writers = @ \ {c}]
    ELSE d

\* ... and streams the body into it, wherever the directory is by now.
FinishTarball(c) ==
  /\ At(c, "write")
  /\ \E q \in {"part", "whole"} :
       /\ (\A d \in {tmp, dir} : d.writers \subseteq {c}) => q = "whole"
       /\ tmp' = Closed(tmp, c, q)
       /\ dir' = Closed(dir, c, q)
  /\ Goto(c, "untar")
  /\ UNCHANGED met

\* The connection or the disk fails: Bun.write throws, nothing is cleaned up.
FailTarball(c) ==
  /\ At(c, "write")
  /\ tmp' = Closed(tmp, c, "part")
  /\ dir' = Closed(dir, c, "part")
  /\ Goto(c, "failed")
  /\ UNCHANGED met

\* tar unlinks an older bb and starts a new one in the directory it runs in.
Untar(c) ==
  /\ At(c, "untar")
  /\ IF tmp.tarball = "none"
       THEN Goto(c, "cleanup") /\ UNCHANGED tmp
       ELSE /\ tmp' = [tmp EXCEPT !.bb = "part", !.by = c]
            /\ call' = [call EXCEPT ![c].pc = "extract",
                                    ![c].read = tmp.tarball]
  /\ UNCHANGED <<dir, met>>

Extracted(d, c, q) == IF d.by = c THEN [d EXCEPT !.bb = q, !.by = None] ELSE d

ExitTar_Ignored(c) ==     \* mutant: the exit code of tar is not looked at
  /\ At(c, "extract")
  /\ \E q \in Quality :
       /\ tmp' = Extracted(tmp, c, q)
       /\ dir' = Extracted(dir, c, q)
  /\ Goto(c, "check")
  /\ UNCHANGED met

\* tar exits with 0 only if it read a whole tarball, from start to end.  A
\* release holds bb at its root.
ExitTar(c) ==
  /\ At(c, "extract")
  /\ \E q \in {"part", "whole"} :
       /\ q = "whole" => "whole" \in {call[c].read, tmp.tarball, dir.tarball}
       /\ tmp' = Extracted(tmp, c, q)
       /\ dir' = Extracted(dir, c, q)
       /\ Goto(c, IF q = "whole" THEN "check" ELSE "cleanup")
  /\ UNCHANGED met

\* existsSync and chmodSync of the extracted binary.
Check(c) ==
  /\ At(c, "check")
  /\ Goto(c, IF tmp.bb = "none" THEN "cleanup" ELSE "rename")
  /\ UNCHANGED <<tmp, dir, met>>

\* rm of the temporary directory before an error is thrown.
Cleanup(c) ==
  /\ At(c, "cleanup")
  /\ tmp' = Absent
  /\ Goto(c, "failed")
  /\ UNCHANGED <<dir, met>>

\* rename(tmp, dir) replaces no directory that has entries.
Movable == tmp.here /\ dir.tarball = "none" /\ dir.bb = "none"

Move == dir' = tmp /\ tmp' = Absent /\ UNCHANGED met

Rename(c) ==
  /\ At(c, "rename")
  /\ \/ Movable /\ Move /\ Goto(c, "cached")
     \/ ~Movable /\ Goto(c, "rm") /\ UNCHANGED <<tmp, dir, met>>

\* "Target exists (race condition) -- overwrite", whatever the rename's error.
RmCached(c) ==
  /\ At(c, "rm")
  /\ dir' = Absent
  /\ Goto(c, "rename2")
  /\ UNCHANGED <<tmp, met>>

RenameAgain_Retries(c) ==     \* mutant: the second rename is tried forever
  /\ At(c, "rename2")
  /\ \/ Movable /\ Move /\ Goto(c, "cached")
     \/ ~Movable /\ UNCHANGED vars

RenameAgain(c) ==
  /\ At(c, "rename2")
  /\ \/ Movable /\ Move /\ Goto(c, "cached")
     \/ ~Movable /\ Goto(c, "failed") /\ UNCHANGED <<tmp, dir, met>>

\* uploadBb reads the path it was given; a missing file throws.
ReadCached(c) ==
  /\ At(c, "cached")
  /\ call' = [call EXCEPT ![c].pc = IF dir.bb = "none" THEN "failed"
                                                       ELSE "read",
                          ![c].read = dir.bb]
  /\ UNCHANGED <<tmp, dir, met>>

Done(c) ==
  /\ call[c].pc \in {"read", "failed"}
  /\ call' = [call EXCEPT ![c] = Idle]
  /\ UNCHANGED <<tmp, dir, met>>

\* The host process and its children die and are started again; what is on
\* disk stays as it is.
Stopped(d) == [d EXCEPT !.writers = {}, !.by = None]

Crash ==
  /\ tmp' = Stopped(tmp)
  /\ dir' = Stopped(dir)
  /\ call' = [c \in Call |-> Idle]
  /\ UNCHANGED met

Work(c) ==
  \/ Fetch(c) \/ Reset(c) \/ MkTmp(c) \/ OpenTarball(c)
  \/ FinishTarball(c) \/ FailTarball(c) \/ Untar(c) \/ ExitTar(c)
  \/ Check(c) \/ Cleanup(c) \/ Rename(c) \/ RmCached(c) \/ RenameAgain(c)
  \/ ReadCached(c) \/ Done(c)

Next == Crash \/ \E c \in Call : Begin(c) \/ Work(c)

\* File operations and child processes finish; nothing obliges a call to come.
Spec == Init /\ [][Next]_vars /\ \A c \in Call : WF_vars(Work(c))

-----------------------------------------------------------------------------
\* Unless downloads have overlapped, what the cache holds is a complete binary,
\* crashes included.
CachedIsWhole == ~met => dir.bb \in {"none", "whole"}

\* Unless downloads have overlapped, what uploadBb sends to the enclave is a
\* complete binary.
UploadIsWhole == ~met => \A c \in Call : At(c, "read") => call[c].read = "whole"

\* A complete binary in the cache is never taken away or spoiled again, unless
\* downloads overlap.
WholeIsKept == [][~met' /\ dir.bb = "whole" => dir'.bb = "whole"]_vars

\* A call that has downloaded and extracted a release succeeds: it fails on the
\* network, the disk or the archive, and on leftovers only if downloads overlap.
ExtractedIsCached ==
  [][~met' => \A c \in Call :
       call[c].pc \in {"check", "rename", "rm", "rename2"}
         => call'[c].pc \notin {"cleanup", "failed"}]_vars

\* Every call is answered, whatever others do to its temporary directory.
EveryCallAnswered == \A c \in Call : ~At(c, "idle") ~> At(c, "idle")
=============================================================================
