--------------------------- MODULE EnclaveVersions ---------------------------
(***************************************************************************)
(* The bb binaries a running enclave holds, and who uses them.             *)
(*                                                                         *)
(* packages/server/src/enclave.ts serves every request in an async handler *)
(* on one JavaScript thread, so handlers interleave at each await, while   *)
(* the file writes they await run on other threads.  Each connection below *)
(* is one such handler, and each action runs from one await to the next.   *)
(*                                                                         *)
(* A version has two places on the enclave's in-memory file system: the    *)
(* installed directory {version}/bb and {version}.tmp/bb, which all        *)
(* uploads of that version share.  A file keeps its open writers when its  *)
(* directory is renamed, so it is modelled with them.                      *)
(***************************************************************************)
EXTENDS Naturals, FiniteSets

CONSTANTS
  Conn,      \* connections, each served by one handler at a time
  Version,   \* Aztec versions
  Binary,    \* contents of complete bb binaries
  Default,   \* the bb findBb() resolves without a version, or None
  Torn,      \* any content no complete upload had
  None

ASSUME EnclaveAssumption ==
  /\ None \notin Version \cup Binary
  /\ Torn \notin Binary \cup {None}
  /\ Default \in Binary \cup {None}

VARIABLES
  tmp,       \* tmp[v]: the file {v}.tmp/bb
  dir,       \* dir[v]: the installed file {v}/bb
  hashes,    \* hashes[v]: the binary whose SHA-256 bbHashCache holds for v
  conn,      \* conn[c]: the handler's position and locals
  met        \* history: the versions of which two uploads have been in flight
             \* at once since the enclave started

vars == <<tmp, dir, hashes, conn, met>>

Content == Binary \cup {Torn, None}

\* body: what a reader sees (None: no file).  writers: the handlers with the
\* file open for writing.  srcs: the contents they and their predecessors
\* since the last exclusive open have been writing over each other.
File == [body : Content, writers : SUBSET Conn, srcs : SUBSET Binary]

NoFile == [body |-> None, writers |-> {}, srcs |-> {}]

UploadPc == {"open", "write", "install", "hash", "report"}
ProvePc  == {"decrypt", "choose", "spawn", "running"}

\* body: the content uploaded, or the binary executed.  read: the content a
\* handler hashed.  path: the version whose file findBb chose, None for Default.
Handler ==
  [pc : UploadPc \cup ProvePc \cup {"idle", "ok", "failed"},
   version : Version \cup {None}, body : Content,
   read : Content, path : Version \cup {None}]

Idle == [pc |-> "idle", version |-> None, body |-> None,
         read |-> None, path |-> None]

TypeOK ==
  /\ tmp \in [Version -> File]
  /\ dir \in [Version -> File]
  /\ hashes \in [Version -> Content]
  /\ conn \in [Conn -> Handler]
  /\ met \subseteq Version
  /\ \A c \in Conn : conn[c].pc \in UploadPc
                       => /\ conn[c].version \in Version
                          /\ conn[c].body \in Binary

Init ==
  /\ tmp = [v \in Version |-> NoFile]
  /\ dir = [v \in Version |-> NoFile]
  /\ hashes = [v \in Version |-> None]
  /\ conn = [c \in Conn |-> Idle]
  /\ met = {}

Uploading(c, v) == conn[c].pc \in UploadPc /\ conn[c].version = v

Goto(c, pc) == conn' = [conn EXCEPT ![c].pc = pc]

-----------------------------------------------------------------------------
(* POST /upload-bb *)

\* The body has arrived: a missing version or an empty body answers 400.
Refuse(c) ==
  /\ conn[c].pc = "idle"
  /\ Goto(c, "failed")
  /\ UNCHANGED <<tmp, dir, hashes, met>>

Upload(c, v, b) ==
  /\ conn[c].pc = "idle"
  /\ met' = IF \E d \in Conn : Uploading(d, v) THEN met \cup {v} ELSE met
  /\ conn' = [conn EXCEPT ![c] = [Idle EXCEPT !.pc = "open", !.version = v,
                                               !.body = b]]
  /\ UNCHANGED <<tmp, dir, hashes>>

OpenTmp_NoAwait(c) ==      \* mutant: the write is not awaited
  LET v == conn[c].version IN
  /\ conn[c].pc = "open"
  /\ tmp' = [tmp EXCEPT ![v] = [body |-> Torn, writers |-> @.writers \cup {c},
                                srcs |-> {conn[c].body}]]
  /\ Goto(c, "install")
  /\ UNCHANGED <<dir, hashes, met>>

\* mkdir, then Bun.write opens the shared tmp file, truncating what it held.
OpenTmp(c) ==
  LET v == conn[c].version IN
  /\ conn[c].pc = "open"
  /\ tmp' = [tmp EXCEPT ![v] =
       [body |-> Torn,
        writers |-> @.writers \cup {c},
        srcs |-> IF @.writers = {} THEN {conn[c].body}
                 ELSE @.srcs \cup {conn[c].body}]]
  /\ Goto(c, "write")
  /\ UNCHANGED <<dir, hashes, met>>

\* What file f may hold once writer c has finished its write.
Outcomes(f, c) ==
  IF f.writers = {c} /\ f.srcs = {conn[c].body}
    THEN {conn[c].body}
    ELSE f.srcs \cup {Torn}

Closed(f, c, b) ==
  IF c \in f.writers THEN [f EXCEPT !.body = b, !.writers = @ \ {c}] ELSE f

\* The files writer c has open: none once its directory was deleted.
Held(c) == {f \in {tmp[conn[c].version], dir[conn[c].version]} : c \in f.writers}

\* Writer c lets go of its file, wherever renames have taken it.
Close(c, b) ==
  LET v == conn[c].version IN
  /\ tmp' = [tmp EXCEPT ![v] = Closed(@, c, b)]
  /\ dir' = [dir EXCEPT ![v] = Closed(@, c, b)]
  /\ UNCHANGED <<hashes, met>>

FinishWrite(c) ==
  /\ conn[c].pc = "write"
  /\ \E b \in Binary \cup {Torn} :
       /\ \A f \in Held(c) : b \in Outcomes(f, c)
       /\ Close(c, b)
  /\ Goto(c, "install")

\* The write fails part way (the file system is memory, which can be full).
FailWrite(c) ==
  /\ conn[c].pc = "write"
  /\ \E b \in Binary \cup {Torn} :
       /\ \A f \in Held(c) : b \in {f.body, Torn}
       /\ Close(c, b)
  /\ Goto(c, "failed")

Install_RmOnly(c) ==       \* mutant: no second rename
  LET v == conn[c].version IN
  /\ conn[c].pc = "install"
  /\ dir' = [dir EXCEPT ![v] = IF @.body = None THEN tmp[v] ELSE NoFile]
  /\ tmp' = [tmp EXCEPT ![v] = IF dir[v].body = None THEN NoFile ELSE @]
  /\ Goto(c, "hash")
  /\ UNCHANGED <<hashes, met>>

Install_NoHash(c) ==       \* mutant: the installed binary is never hashed
  LET v == conn[c].version IN
  /\ conn[c].pc = "install"
  /\ dir' = [dir EXCEPT ![v] = tmp[v]]
  /\ tmp' = [tmp EXCEPT ![v] = NoFile]
  /\ Goto(c, "ok")
  /\ UNCHANGED <<hashes, met>>

Install_NoCatch(c) ==      \* mutant: chmod's exception answers nobody
  LET v == conn[c].version IN
  /\ conn[c].pc = "install"
  /\ tmp[v].body # None
  /\ dir' = [dir EXCEPT ![v] = tmp[v]]
  /\ tmp' = [tmp EXCEPT ![v] = NoFile]
  /\ Goto(c, "hash")
  /\ UNCHANGED <<hashes, met>>

\* chmod, rename, and on a failed rename rm and rename again: synchronous, so
\* no other handler runs in between.  chmod throws when the tmp file is gone.
Install(c) ==
  LET v == conn[c].version IN
  /\ conn[c].pc = "install"
  /\ IF tmp[v].body = None
       THEN Goto(c, "failed") /\ UNCHANGED <<tmp, dir>>
       ELSE /\ dir' = [dir EXCEPT ![v] = tmp[v]]
            /\ tmp' = [tmp EXCEPT ![v] = NoFile]
            /\ Goto(c, "hash")
  /\ UNCHANGED <<hashes, met>>

\* computeBbHash reads the installed file back ...
HashInstalled(c) ==
  LET v == conn[c].version IN
  /\ conn[c].pc = "hash"
  /\ conn' = [conn EXCEPT ![c].pc = IF dir[v].body = None THEN "failed"
                                                          ELSE "report",
                          ![c].read = dir[v].body]
  /\ UNCHANGED <<tmp, dir, hashes, met>>

Report_Swapped(c) ==       \* mutant: set(sha256, version)
  /\ conn[c].pc = "report"
  /\ hashes' = [hashes EXCEPT ![conn[c].version] = conn[c].version]
  /\ Goto(c, "ok")
  /\ UNCHANGED <<tmp, dir, met>>

Report_FirstOnly(c) ==     \* mutant: a known version keeps its old hash
  LET v == conn[c].version IN
  /\ conn[c].pc = "report"
  /\ hashes' = [hashes EXCEPT ![v] = IF @ = None THEN conn[c].read ELSE @]
  /\ Goto(c, "ok")
  /\ UNCHANGED <<tmp, dir, met>>

\* ... and one more await later the hash is recorded and the upload answered.
Report(c) ==
  /\ conn[c].pc = "report"
  /\ hashes' = [hashes EXCEPT ![conn[c].version] = conn[c].read]
  /\ Goto(c, "ok")
  /\ UNCHANGED <<tmp, dir, met>>

-----------------------------------------------------------------------------
(* POST /prove *)

Prove(c, v) ==
  /\ conn[c].pc = "idle"
  /\ conn' = [conn EXCEPT ![c] = [Idle EXCEPT !.pc = "decrypt",
                                               !.version = v]]
  /\ UNCHANGED <<tmp, dir, hashes, met>>

\* An undecryptable payload answers 400.
Decrypt(c, readable) ==
  /\ conn[c].pc = "decrypt"
  /\ Goto(c, IF readable THEN "choose" ELSE "failed")
  /\ UNCHANGED <<tmp, dir, hashes, met>>

Choose_NoExists(c) ==      \* mutant: findBb does not test for the file
  /\ conn[c].pc = "choose"
  /\ conn' = [conn EXCEPT ![c].pc = "spawn", ![c].path = conn[c].version]
  /\ UNCHANGED <<tmp, dir, hashes, met>>

\* getProver() throws without a default bb; then findBb(version) takes the
\* installed file if there is one and the default otherwise.
Choose(c) ==
  LET v == conn[c].version IN
  /\ conn[c].pc = "choose"
  /\ conn' = [conn EXCEPT
       ![c].pc = IF Default = None THEN "failed" ELSE "spawn",
       ![c].path = IF v # None /\ dir[v].body # None THEN v ELSE None]
  /\ UNCHANGED <<tmp, dir, hashes, met>>

\* Between findBb and Bun.spawn the handler awaits its temp directory and input
\* file.  A file open for writing cannot be executed, nor can a missing one.
Spawn(c) ==
  LET p == conn[c].path
      f == IF p = None THEN [NoFile EXCEPT !.body = Default] ELSE dir[p] IN
  /\ conn[c].pc = "spawn"
  /\ conn' = [conn EXCEPT
       ![c].pc = IF f.body = None \/ f.writers # {} THEN "failed"
                                                     ELSE "running",
       ![c].body = f.body]
  /\ UNCHANGED <<tmp, dir, hashes, met>>

\* bb exits: a non-zero exit (always, for a torn binary) throws.
Exit(c) ==
  /\ conn[c].pc = "running"
  /\ \E pc \in {"ok", "failed"} :
       /\ conn[c].body = Torn => pc = "failed"
       /\ Goto(c, pc)
  /\ UNCHANGED <<tmp, dir, hashes, met>>

-----------------------------------------------------------------------------
\* The response is sent and the connection free again.
Reply(c) ==
  /\ conn[c].pc \in {"ok", "failed"}
  /\ conn' = [conn EXCEPT ![c] = Idle]
  /\ UNCHANGED <<tmp, dir, hashes, met>>

\* The enclave stops and is started again: files and hashes are in its memory.
Restart ==
  /\ tmp' = [v \in Version |-> NoFile]
  /\ dir' = [v \in Version |-> NoFile]
  /\ hashes' = [v \in Version |-> None]
  /\ conn' = [c \in Conn |-> Idle]
  /\ met' = {}

Request(c) ==
  \/ Refuse(c)
  \/ \E v \in Version, b \in Binary : Upload(c, v, b)
  \/ \E v \in Version \cup {None} : Prove(c, v)

\* What a handler does of its own accord once its request is in.
Work(c) ==
  \/ OpenTmp(c) \/ FinishWrite(c) \/ FailWrite(c) \/ Install(c)
  \/ HashInstalled(c) \/ Report(c)
  \/ \E readable \in BOOLEAN : Decrypt(c, readable)
  \/ Choose(c) \/ Spawn(c) \/ Exit(c)
  \/ Reply(c)

Next == Restart \/ \E c \in Conn : Request(c) \/ Work(c)

\* The JavaScript event loop and the file-system threads finish what they
\* start; nothing obliges a request or a restart to come.
Spec == Init /\ [][Next]_vars /\ \A c \in Conn : WF_vars(Work(c))

-----------------------------------------------------------------------------
\* A version in bbHashCache, so in /health and in attestations, has a binary
\* on disk: the proxy sends proofs to the enclave on the strength of /health.
ReportedIsInstalled ==
  \A v \in Version : hashes[v] # None => dir[v].body # None

\* The file findBb has chosen is still there when bb is spawned several awaits
\* later, whatever uploads replaced it meanwhile.
ChosenIsInstalled ==
  \A c \in Conn : conn[c].pc = "spawn" /\ conn[c].path # None
                    => dir[conn[c].path].body # None

\* Every request that was taken up is answered, also when another upload of the
\* version renamed the shared tmp directory away.
EveryRequestAnswered ==
  \A c \in Conn : conn[c].pc # "idle" ~> conn[c].pc = "idle"

Whole(v) == dir[v].body # Torn /\ dir[v].writers = {}

\* Unless uploads of the version have overlapped, what is installed is a
\* complete binary that nobody is writing.
InstalledIsWhole == \A v \in Version \ met : Whole(v)

HashCurrent(v) ==
  (\A c \in Conn : ~Uploading(c, v)) => hashes[v] = dir[v].body

\* Unless uploads of the version have overlapped, the hash reported and attested
\* for it is that of the binary installed, once no upload is in flight.
HashIsInstalled == \A v \in Version \ met : HashCurrent(v)

\* A binary that starts to run for a version is the one whose hash is being
\* attested, or one that an upload of that version is on its way to report;
\* unless uploads of it have overlapped.
RunsAttestedBinary ==
  [][\A c \in Conn : LET v == conn[c].path IN
       (/\ conn[c].pc = "spawn" /\ conn'[c].pc = "running"
        /\ v \in Version \ met)
       => \/ conn'[c].body = hashes[v]
          \/ \E d \in Conn : /\ Uploading(d, v)
                             /\ conn[d].pc \in {"hash", "report"}
                             /\ conn'[c].body = conn[d].body]_vars
=============================================================================
