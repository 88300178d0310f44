--------------------------- MODULE ProxyProveProofs ---------------------------
(***************************************************************************)
(* What holds of the enclave's version store for any number of             *)
(* connections, versions and binaries, and, from there, of POST /prove in  *)
(* proxy mode for any number of requests, versions and restarts,           *)
(* overlapping uploads included.                                           *)
(***************************************************************************)
EXTENDS ProxyProve, TLAPS

(***************************************************************************)
(* PART I.  The enclave alone                                              *)
(***************************************************************************)

LEMMA IdleTyped == Idle \in Handler /\ NoFile \in File
BY EnclaveAssumption DEF Idle, Handler, Content, NoFile, File

LEMMA ClosedTyped ==
  ASSUME NEW f \in File, NEW c, NEW b \in Content
  PROVE  Closed(f, c, b) \in File
BY DEF Closed, File

-----------------------------------------------------------------------------
(* Every variable keeps its type. *)

\* A step of handler c to a state k that has its types.
LEMMA TypeLocal ==
  ASSUME TypeOK, NEW c \in Conn, NEW k \in Handler,
         conn' = [conn EXCEPT ![c] = k],
         k.pc \in UploadPc => k.version \in Version /\ k.body \in Binary,
         tmp' \in [Version -> File], dir' \in [Version -> File],
         hashes' \in [Version -> Content], met' \subseteq Version
  PROVE  TypeOK'
<1>1. \A d \in Conn : conn'[d] = IF d = c THEN k ELSE conn[d]
  BY DEF TypeOK
<1>2. conn' \in [Conn -> Handler]
  BY DEF TypeOK
<1>3. QED BY <1>1, <1>2 DEF TypeOK

LEMMA TypeGoto ==
  ASSUME TypeOK, NEW c \in Conn,
         NEW pc \in UploadPc \cup ProvePc \cup {"idle", "ok", "failed"},
         Goto(c, pc), pc \in UploadPc => conn[c].pc \in UploadPc,
         tmp' \in [Version -> File], dir' \in [Version -> File],
         hashes' \in [Version -> Content], met' \subseteq Version
  PROVE  TypeOK'
<1> DEFINE k == [conn[c] EXCEPT !.pc = pc]
<1>1. /\ k \in Handler /\ k.pc = pc
      /\ k.version = conn[c].version /\ k.body = conn[c].body
  BY DEF TypeOK, Handler
<1>2. conn' = [conn EXCEPT ![c] = k]
  BY DEF Goto
<1>3. pc \in UploadPc => k.version \in Version /\ k.body \in Binary
  BY <1>1 DEF TypeOK
<1> HIDE DEF k
<1>4. QED BY <1>1, <1>2, <1>3, TypeLocal

FilesTyped ==
  /\ tmp' \in [Version -> File] /\ dir' \in [Version -> File]
  /\ hashes' \in [Version -> Content] /\ met' \subseteq Version

LEMMA CloseTyped ==
  ASSUME TypeOK, NEW c \in Conn, NEW b \in Binary \cup {Torn}, Close(c, b)
  PROVE  FilesTyped
<1>1. b \in Content
  BY DEF Content
<1>2. \A f \in File : Closed(f, c, b) \in File
  BY <1>1, ClosedTyped
<1>3. QED BY <1>2 DEF Close, TypeOK, FilesTyped

LEMMA TypeStep == TypeOK /\ [Next]_vars => TypeOK'
<1> SUFFICES ASSUME TypeOK, [Next]_vars PROVE TypeOK'
  OBVIOUS
<1> USE EnclaveAssumption, IdleTyped
<1>1. CASE UNCHANGED vars
  BY <1>1 DEF TypeOK, vars
<1>2. CASE Restart
  BY <1>2 DEF TypeOK, Restart, Content, Idle, UploadPc
<1>3. ASSUME NEW c \in Conn, Request(c) PROVE TypeOK'
  <2>1. CASE Refuse(c)
    BY <2>1 DEF TypeOK, Refuse, Goto, Handler, UploadPc
  <2>2. ASSUME NEW v \in Version, NEW b \in Binary, Upload(c, v, b)
        PROVE  TypeOK'
    <3>1. [Idle EXCEPT !.pc = "open", !.version = v, !.body = b] \in Handler
      BY DEF Handler, Idle, UploadPc, Content
    <3>2. QED BY <2>2, <3>1 DEF TypeOK, Upload, Idle
  <2>3. ASSUME NEW v \in Version \cup {None}, Prove(c, v) PROVE TypeOK'
    <3>1. [Idle EXCEPT !.pc = "decrypt", !.version = v] \in Handler
      BY DEF Handler, Idle, ProvePc, Content
    <3>2. QED BY <2>3, <3>1 DEF TypeOK, Prove, Idle, UploadPc
  <2>4. QED BY <1>3, <2>1, <2>2, <2>3 DEF Request
<1>4. ASSUME NEW c \in Conn, Work(c) PROVE TypeOK'
  <2>1. CASE OpenTmp(c)
    <3> DEFINE v == conn[c].version
               f == [body |-> Torn, writers |-> tmp[v].writers \cup {c},
                     srcs |-> IF tmp[v].writers = {} THEN {conn[c].body}
                              ELSE tmp[v].srcs \cup {conn[c].body}]
               k == [conn[c] EXCEPT !.pc = "write"]
    <3>1. v \in Version /\ conn[c].body \in Binary /\ conn[c] \in Handler
      BY <2>1 DEF TypeOK, OpenTmp, UploadPc
    <3>2. f \in File
      BY <3>1 DEF TypeOK, File, Content
    <3>3. k \in Handler /\ k.version = v /\ k.body = conn[c].body
      BY <3>1 DEF Handler, UploadPc
    <3>4. /\ tmp' = [tmp EXCEPT ![v] = f] /\ UNCHANGED <<dir, hashes, met>>
          /\ conn' = [conn EXCEPT ![c] = k]
      BY <2>1 DEF OpenTmp, Goto
    <3> HIDE DEF f, k
    <3>5. tmp' \in [Version -> File]
      BY <3>2, <3>4 DEF TypeOK
    <3>6. QED BY <3>1, <3>3, <3>4, <3>5, TypeLocal DEF TypeOK
  <2>2. CASE FinishWrite(c)
    <3>1. PICK b \in Binary \cup {Torn} : Close(c, b)
      BY <2>2 DEF FinishWrite
    <3>2. FilesTyped
      BY <3>1, CloseTyped
    <3>3. conn[c].pc = "write" /\ Goto(c, "install")
      BY <2>2 DEF FinishWrite
    <3>4. QED BY <3>2, <3>3, TypeGoto DEF FilesTyped, UploadPc
  <2>3. CASE FailWrite(c)
    <3>1. PICK b \in Binary \cup {Torn} : Close(c, b)
      BY <2>3 DEF FailWrite
    <3>2. FilesTyped
      BY <3>1, CloseTyped
    <3>3. conn[c].pc = "write" /\ Goto(c, "failed")
      BY <2>3 DEF FailWrite
    <3>4. QED BY <3>2, <3>3, TypeGoto DEF FilesTyped, UploadPc
  <2>4. CASE Install(c)
    BY <2>4 DEF TypeOK, Install, Goto, Handler, UploadPc
  <2>5. CASE HashInstalled(c)
    <3>1. conn[c].version \in Version /\ conn[c].body \in Binary
      BY <2>5 DEF TypeOK, HashInstalled, UploadPc
    <3>2. dir[conn[c].version].body \in Content
      BY <3>1 DEF TypeOK, File
    <3>3. PICK pc \in {"failed", "report"}, b \in Content :
            /\ conn' = [conn EXCEPT ![c].pc = pc, ![c].read = b]
            /\ UNCHANGED <<tmp, dir, hashes, met>>
      BY <2>5, <3>2 DEF HashInstalled
    <3> DEFINE k == [conn[c] EXCEPT !.pc = pc, !.read = b]
    <3>4. k \in Handler /\ k.version = conn[c].version /\ k.body = conn[c].body
      BY DEF TypeOK, Handler, UploadPc
    <3>5. conn' = [conn EXCEPT ![c] = k]
      BY <3>3
    <3> HIDE DEF k
    <3>6. QED BY <3>1, <3>3, <3>4, <3>5, TypeLocal DEF TypeOK
  <2>6. CASE Report(c)
    BY <2>6 DEF TypeOK, Report, Goto, Handler, UploadPc
  <2>7. ASSUME NEW readable \in BOOLEAN, Decrypt(c, readable) PROVE TypeOK'
    BY <2>7 DEF TypeOK, Decrypt, Goto, Handler, ProvePc, UploadPc
  <2>8. CASE Choose(c)
    <3>1. PICK pc \in {"failed", "spawn"}, p \in Version \cup {None} :
            /\ conn' = [conn EXCEPT ![c].pc = pc, ![c].path = p]
            /\ UNCHANGED <<tmp, dir, hashes, met>>
      BY <2>8 DEF TypeOK, Choose, Handler
    <3> DEFINE k == [conn[c] EXCEPT !.pc = pc, !.path = p]
    <3>2. k \in Handler /\ k.pc \notin UploadPc
      BY DEF TypeOK, Handler, ProvePc, UploadPc
    <3>3. conn' = [conn EXCEPT ![c] = k]
      BY <3>1
    <3> HIDE DEF k
    <3>4. QED BY <3>1, <3>2, <3>3, TypeLocal DEF TypeOK
  <2>9. CASE Spawn(c)
    <3> DEFINE p == conn[c].path
               f == IF p = None THEN [NoFile EXCEPT !.body = Default] ELSE dir[p]
               pc == IF f.body = None \/ f.writers # {} THEN "failed"
                                                        ELSE "running"
    <3>1. p \in Version \cup {None}
      BY DEF TypeOK, Handler
    <3>2. f.body \in Content
      BY <3>1 DEF TypeOK, File, Content, NoFile
    <3> HIDE DEF f
    <3>3. conn' = [conn EXCEPT ![c].pc = pc, ![c].body = f.body]
      BY <2>9 DEF Spawn, f
    <3>4. UNCHANGED <<tmp, dir, hashes, met>> /\ pc \notin UploadPc
      BY <2>9 DEF Spawn, UploadPc
    <3>5. pc \in {"failed", "running"}
      OBVIOUS
    <3> HIDE DEF pc
    <3> DEFINE k == [conn[c] EXCEPT !.pc = pc, !.body = f.body]
    <3>6. k \in Handler /\ k.pc = pc
      BY <3>2, <3>5 DEF TypeOK, Handler, ProvePc
    <3>7. conn' = [conn EXCEPT ![c] = k]
      BY <3>3
    <3> HIDE DEF k
    <3>8. QED BY <3>4, <3>6, <3>7, TypeLocal DEF TypeOK
  <2>10. CASE Exit(c)
    BY <2>10 DEF TypeOK, Exit, Goto, Handler, UploadPc
  <2>11. CASE Reply(c)
    BY <2>11 DEF TypeOK, Reply, Idle, UploadPc
  <2>12. QED
    BY <1>4, <2>1, <2>2, <2>3, <2>4, <2>5, <2>6, <2>7, <2>8, <2>9, <2>10,
       <2>11 DEF Work
<1>5. QED BY <1>1, <1>2, <1>3, <1>4 DEF Next

\* The state stays within its types: in particular a file's content is always
\* a released binary, torn or absent, and its writers are connections.
THEOREM TypeCorrect == Spec => []TypeOK
<1>1. Init => TypeOK
  BY EnclaveAssumption, IdleTyped DEF Init, TypeOK, Content, Idle, UploadPc
<1>2. QED BY <1>1, TypeStep, PTL DEF Spec

-----------------------------------------------------------------------------
(* A binary once installed stays installed until the enclave restarts, so   *)
(* what /health reports and what findBb chose can be relied on.  This needs *)
(* the rm and the rename of Install to be one step.                         *)

KeptInv ==
  /\ ReportedIsInstalled
  /\ ChosenIsInstalled
  /\ \A c \in Conn : conn[c].pc \in {"hash", "report"}
                       => dir[conn[c].version].body # None

LEMMA DirKept ==
  ASSUME TypeOK, NEW c \in Conn, Request(c) \/ Work(c),
         NEW v \in Version, dir[v].body # None
  PROVE  dir'[v].body # None
<1> USE EnclaveAssumption
<1>1. CASE UNCHANGED dir
  BY <1>1
<1>2. ASSUME NEW b \in Binary \cup {Torn}, Close(c, b) PROVE dir'[v].body # None
  BY <1>2 DEF Close, Closed, TypeOK, File
<1>3. CASE Install(c)
  BY <1>3 DEF Install, TypeOK
<1>4. QED
  BY <1>1, <1>2, <1>3
     DEF Request, Work, Refuse, Upload, Prove, OpenTmp, FinishWrite, FailWrite,
         HashInstalled, Report, Decrypt, Choose, Spawn, Exit, Reply

\* Where a handler can be after a step of its own: only Choose leads to
\* "spawn", only Install to "hash", only HashInstalled to "report".
LEMMA PcAfter ==
  ASSUME TypeOK, NEW c \in Conn, Request(c) \/ Work(c)
  PROVE  /\ Choose(c) \/ conn'[c].pc # "spawn"
         /\ Install(c) \/ conn'[c].pc # "hash"
         /\ HashInstalled(c) \/ conn'[c].pc # "report"
<1>1. ASSUME Request(c)
      PROVE  conn'[c].pc \in {"failed", "open", "decrypt"}
  <2>1. CASE Refuse(c)
    BY <2>1 DEF Refuse, Goto, TypeOK, Handler
  <2>2. ASSUME NEW v \in Version, NEW b \in Binary, Upload(c, v, b)
        PROVE  conn'[c].pc = "open"
    BY <2>2 DEF Upload, TypeOK, Idle
  <2>3. ASSUME NEW v \in Version \cup {None}, Prove(c, v)
        PROVE  conn'[c].pc = "decrypt"
    BY <2>3 DEF Prove, TypeOK, Idle
  <2>4. QED BY <1>1, <2>1, <2>2, <2>3 DEF Request
<1>2. CASE OpenTmp(c) \/ FinishWrite(c) \/ FailWrite(c)
  BY <1>2 DEF OpenTmp, FinishWrite, FailWrite, Goto, TypeOK, Handler
<1>3. CASE Install(c)
  BY <1>3 DEF Install, Goto, TypeOK, Handler
<1>4. CASE HashInstalled(c)
  BY <1>4 DEF HashInstalled, TypeOK, Handler
<1>5. CASE Report(c) \/ Reply(c) \/ Exit(c)
  BY <1>5 DEF Report, Reply, Exit, Goto, Idle, TypeOK, Handler
<1>6. ASSUME NEW readable \in BOOLEAN, Decrypt(c, readable)
      PROVE  conn'[c].pc \in {"choose", "failed"}
  BY <1>6 DEF Decrypt, Goto, TypeOK, Handler
<1>7. CASE Choose(c)
  BY <1>7 DEF Choose, TypeOK, Handler
<1>8. CASE Spawn(c)
  BY <1>8 DEF Spawn, TypeOK, Handler
<1>9. QED
  BY <1>1, <1>2, <1>3, <1>4, <1>5, <1>6, <1>7, <1>8 DEF Work

LEMMA KeptStep == TypeOK /\ TypeOK' /\ KeptInv /\ [Next]_vars => KeptInv'
<1> SUFFICES ASSUME TypeOK, TypeOK', KeptInv, [Next]_vars PROVE KeptInv'
  OBVIOUS
<1> USE EnclaveAssumption
<1>1. CASE UNCHANGED vars
  BY <1>1 DEF KeptInv, ReportedIsInstalled, ChosenIsInstalled, vars
<1>2. CASE Restart
  BY <1>2 DEF Restart, KeptInv, ReportedIsInstalled, ChosenIsInstalled, Idle
<1>3. ASSUME NEW c \in Conn, Request(c) \/ Work(c) PROVE KeptInv'
  <2>1. \A v \in Version : dir[v].body # None => dir'[v].body # None
    BY <1>3, DirKept
  <2>2. ReportedIsInstalled'
    <3>1. CASE Report(c)
      BY <2>1, <3>1
         DEF Report, KeptInv, ReportedIsInstalled, TypeOK, UploadPc
    <3>2. CASE ~Report(c)
      <4>1. UNCHANGED hashes
        BY <1>3, <3>2
           DEF Request, Work, Refuse, Upload, Prove, OpenTmp, FinishWrite,
               FailWrite, Close, Install, HashInstalled, Decrypt, Choose,
               Spawn, Exit, Reply
      <4>2. QED BY <2>1, <4>1 DEF KeptInv, ReportedIsInstalled
    <3>3. QED BY <3>1, <3>2
  <2>3. \A d \in Conn \ {c} : conn'[d] = conn[d]
    BY <1>3
       DEF Request, Work, Refuse, Upload, Prove, OpenTmp, FinishWrite,
           FailWrite, Install, HashInstalled, Report, Decrypt, Choose, Spawn,
           Exit, Reply, Goto, TypeOK
  <2>4. conn'[c].pc = "spawn" /\ conn'[c].path # None
          => dir[conn'[c].path].body # None
    <3>1. CASE Choose(c)
      BY <3>1 DEF Choose, TypeOK, Handler
    <3>2. CASE ~Choose(c)
      BY <1>3, <3>2, PcAfter
    <3>3. QED BY <3>1, <3>2
  <2>5. ChosenIsInstalled'
    BY <2>1, <2>3, <2>4 DEF KeptInv, ChosenIsInstalled, TypeOK, Handler
  <2>6. conn'[c].pc \in {"hash", "report"}
          => dir'[conn'[c].version].body # None
    <3>1. CASE Install(c)
      BY <3>1 DEF Install, Goto, TypeOK, Handler, UploadPc
    <3>2. CASE HashInstalled(c)
      BY <3>2 DEF HashInstalled, TypeOK, Handler, UploadPc
    <3>3. CASE ~Install(c) /\ ~HashInstalled(c)
      BY <1>3, <3>3, PcAfter
    <3>4. QED BY <3>1, <3>2, <3>3
  <2>7. QED
    BY <2>1, <2>2, <2>3, <2>5, <2>6 DEF KeptInv, TypeOK, UploadPc
<1>4. QED BY <1>1, <1>2, <1>3 DEF Next

LEMMA KeptAlways == Spec => []KeptInv
<1>1. Init => KeptInv
  BY DEF Init, KeptInv, ReportedIsInstalled, ChosenIsInstalled, Idle
<1>2. QED BY <1>1, KeptStep, TypeCorrect, PTL DEF Spec

\* Whatever uploads overlap, a version the enclave reports has a binary.
THEOREM ReportedStaysInstalled == Spec => []ReportedIsInstalled
BY KeptAlways, PTL DEF KeptInv

\* Whatever uploads overlap, bb is there when a proof comes to spawn it.
THEOREM ChosenStaysInstalled == Spec => []ChosenIsInstalled
BY KeptAlways, PTL DEF KeptInv

-----------------------------------------------------------------------------
(* As long as uploads of one version come one after another, the shared tmp *)
(* file has one writer, what is renamed is what that writer wrote, and the  *)
(* hash lags behind the installed binary only until the upload reports it.  *)

OneUpload ==
  \A v \in Version \ met, c, d \in Conn :
    Uploading(c, v) /\ Uploading(d, v) => c = d

\* What handler c may rely on at each point of its upload.
UploadOK(c) ==
  LET v == conn[c].version IN
  /\ conn[c].pc = "write" => /\ tmp[v].writers = {c}
                             /\ tmp[v].srcs = {conn[c].body}
  /\ conn[c].pc = "install" => /\ tmp[v].writers = {}
                               /\ tmp[v].body = conn[c].body
  /\ conn[c].pc \in {"hash", "report"} => dir[v].body = conn[c].body
  /\ conn[c].pc = "report" => conn[c].read = conn[c].body

VersionOK(v) ==
  /\ \A c \in tmp[v].writers : conn[c].pc = "write" /\ conn[c].version = v
  /\ dir[v].body # Torn /\ dir[v].writers = {}
  /\ \/ hashes[v] = dir[v].body
     \/ \E c \in Conn : Uploading(c, v) /\ conn[c].pc \in {"hash", "report"}

SerialInv ==
  /\ OneUpload
  /\ \A c \in Conn : conn[c].version \notin met => UploadOK(c)
  /\ \A v \in Version \ met : VersionOK(v)

\* A step of handler c at version v keeps the invariant if it leaves every
\* other handler and version alone and keeps it for these two.
LEMMA SerialLocal ==
  ASSUME TypeOK, TypeOK', SerialInv, NEW c \in Conn, NEW v \in Version,
         Uploading(c, v), UNCHANGED met,
         conn'[c].version = v,
         \A d \in Conn \ {c} : conn'[d] = conn[d],
         \A w \in Version \ {v} :
           tmp'[w] = tmp[w] /\ dir'[w] = dir[w] /\ hashes'[w] = hashes[w],
         v \notin met => UploadOK(c)' /\ VersionOK(v)'
  PROVE  SerialInv'
<1>1. ASSUME NEW d \in Conn, NEW w \in Version, Uploading(d, w)'
      PROVE  Uploading(d, w)
  BY <1>1 DEF Uploading
<1>2. OneUpload'
  BY <1>1 DEF SerialInv, OneUpload
<1>3. ASSUME NEW d \in Conn \ {c}, conn[d].version \notin met
      PROVE  UploadOK(d)'
  <2>1. UploadOK(d) /\ conn'[d] = conn[d]
    BY <1>3 DEF SerialInv
  <2>2. CASE conn[d].pc \in UploadPc
    <3>1. conn[d].version \in Version \ {v}
      BY <1>3, <2>2 DEF SerialInv, OneUpload, Uploading, TypeOK
    <3>2. QED BY <2>1, <3>1 DEF UploadOK
  <2>3. CASE conn[d].pc \notin UploadPc
    BY <2>3 DEF UploadOK, UploadPc
  <2>4. QED BY <2>2, <2>3
<1>4. ASSUME NEW w \in Version \ {v}, w \notin met PROVE VersionOK(w)'
  <2>1. VersionOK(w)
    BY <1>4 DEF SerialInv
  <2>2. \A d \in Conn : conn[d].version = w => d # c
    BY DEF Uploading
  <2>3. tmp[w].writers \subseteq Conn
    BY DEF TypeOK, File
  <2>4. QED BY <2>1, <2>2, <2>3 DEF VersionOK, Uploading
<1>5. QED BY <1>2, <1>3, <1>4 DEF SerialInv

\* A step that touches no file and no hash, of a handler that is not uploading
\* before or after it, keeps the invariant.
LEMMA SerialOutside ==
  ASSUME TypeOK, SerialInv, NEW c \in Conn,
         UNCHANGED <<tmp, dir, hashes, met>>,
         \A d \in Conn \ {c} : conn'[d] = conn[d],
         conn[c].pc \notin UploadPc, conn'[c].pc \notin UploadPc
  PROVE  SerialInv'
<1>1. \A d \in Conn : conn[d].pc \in UploadPc \/ conn'[d].pc \in UploadPc
                        => d # c /\ conn'[d] = conn[d]
  OBVIOUS
<1>2. OneUpload'
  BY <1>1 DEF SerialInv, OneUpload, Uploading
<1>3. ASSUME NEW d \in Conn, conn'[d].version \notin met PROVE UploadOK(d)'
  <2>1. CASE conn'[d].pc \in UploadPc
    <3>1. UploadOK(d) /\ conn'[d] = conn[d]
      BY <1>1, <1>3, <2>1 DEF SerialInv
    <3>2. QED BY <3>1 DEF UploadOK
  <2>2. CASE conn'[d].pc \notin UploadPc
    BY <2>2 DEF UploadOK, UploadPc
  <2>3. QED BY <2>1, <2>2
<1>4. ASSUME NEW v \in Version \ met PROVE VersionOK(v)'
  <2>1. VersionOK(v) /\ tmp[v].writers \subseteq Conn
    BY DEF SerialInv, TypeOK, File
  <2>2. \A d \in tmp[v].writers : d # c
    BY <2>1 DEF VersionOK, UploadPc
  <2>3. QED BY <1>1, <2>1, <2>2 DEF VersionOK, Uploading, UploadPc
<1>5. QED BY <1>2, <1>3, <1>4 DEF SerialInv

\* A new upload either is the only one of its version, or puts it into met.
LEMMA SerialUpload ==
  ASSUME TypeOK, SerialInv,
         NEW c \in Conn, NEW v \in Version, NEW b \in Binary, Upload(c, v, b)
  PROVE  SerialInv'
<1>1. /\ conn'[c].pc = "open" /\ conn'[c].version = v
      /\ conn[c].pc = "idle" /\ UNCHANGED <<tmp, dir, hashes>>
      /\ \A d \in Conn \ {c} : conn'[d] = conn[d]
      /\ met \subseteq met'
      /\ v \notin met' => \A d \in Conn : ~Uploading(d, v)
  BY DEF Upload, TypeOK, Idle
<1>2. OneUpload'
  BY <1>1 DEF SerialInv, OneUpload, Uploading
<1>3. ASSUME NEW d \in Conn, conn'[d].version \notin met' PROVE UploadOK(d)'
  BY <1>1, <1>3 DEF SerialInv, UploadOK
<1>4. ASSUME NEW w \in Version \ met' PROVE VersionOK(w)'
  <2>1. VersionOK(w) /\ tmp[w].writers \subseteq Conn
    BY <1>1 DEF SerialInv, TypeOK, File
  <2>2. QED BY <1>1, <2>1 DEF VersionOK, Uploading
<1>5. QED BY <1>2, <1>3, <1>4 DEF SerialInv

LEMMA SerialStep == TypeOK /\ TypeOK' /\ SerialInv /\ [Next]_vars => SerialInv'
<1> SUFFICES ASSUME TypeOK, TypeOK', SerialInv, [Next]_vars PROVE SerialInv'
  OBVIOUS
<1> USE EnclaveAssumption
<1>1. CASE UNCHANGED vars
  BY <1>1
     DEF SerialInv, OneUpload, UploadOK, VersionOK, Uploading, vars
<1>2. CASE Restart
  BY <1>2
     DEF Restart, SerialInv, OneUpload, UploadOK, VersionOK, Uploading,
         UploadPc, Idle, NoFile
<1>3. ASSUME NEW c \in Conn, Request(c) PROVE SerialInv'
  <2>1. CASE Refuse(c)
    <3>1. /\ \A d \in Conn \ {c} : conn'[d] = conn[d]
          /\ conn[c].pc \notin UploadPc /\ conn'[c].pc \notin UploadPc
      BY <2>1 DEF Refuse, Goto, TypeOK, Handler, UploadPc
    <3>2. QED BY <2>1, <3>1, SerialOutside DEF Refuse
  <2>2. ASSUME NEW v \in Version \cup {None}, Prove(c, v) PROVE SerialInv'
    <3>1. /\ \A d \in Conn \ {c} : conn'[d] = conn[d]
          /\ conn[c].pc \notin UploadPc /\ conn'[c].pc \notin UploadPc
      BY <2>2 DEF Prove, TypeOK, Idle, UploadPc
    <3>2. QED BY <2>2, <3>1, SerialOutside DEF Prove
  <2>3. QED BY <1>3, <2>1, <2>2, SerialUpload DEF Request
<1>4. ASSUME NEW c \in Conn, Work(c), conn[c].pc \notin UploadPc
      PROVE  SerialInv'
  <2>1. \/ \E readable \in BOOLEAN : Decrypt(c, readable)
        \/ Choose(c) \/ Spawn(c) \/ Exit(c) \/ Reply(c)
    BY <1>4 DEF Work, OpenTmp, FinishWrite, FailWrite, Install, HashInstalled,
                Report, UploadPc
  <2>2. /\ \A d \in Conn \ {c} : conn'[d] = conn[d]
        /\ UNCHANGED <<tmp, dir, hashes, met>>
    BY <2>1 DEF Decrypt, Choose, Spawn, Exit, Reply, Goto, TypeOK
  <2>3. conn'[c].pc \notin UploadPc
    <3>1. ASSUME NEW readable \in BOOLEAN, Decrypt(c, readable)
          PROVE  conn'[c].pc \notin UploadPc
      BY <3>1 DEF Decrypt, Goto, TypeOK, Handler, UploadPc
    <3>2. CASE Choose(c)
      <4>1. conn'[c].pc \in {"failed", "spawn"}
        BY <3>2 DEF Choose, TypeOK, Handler
      <4>2. QED BY <4>1 DEF UploadPc
    <3>3. CASE Spawn(c)
      <4>0. PICK b : \E pc \in {"failed", "running"} :
              conn' = [conn EXCEPT ![c].pc = pc, ![c].body = b]
        BY <3>3 DEF Spawn
      <4>1. conn'[c].pc \in {"failed", "running"}
        BY <4>0 DEF TypeOK, Handler
      <4>2. QED BY <4>1 DEF UploadPc
    <3>4. CASE Exit(c) \/ Reply(c)
      BY <3>4 DEF Exit, Reply, Goto, Idle, TypeOK, Handler, UploadPc
    <3>5. QED BY <2>1, <3>1, <3>2, <3>3, <3>4
  <2>4. QED BY <1>4, <2>2, <2>3, SerialOutside
<1>5. ASSUME NEW c \in Conn, Work(c), conn[c].pc \in UploadPc
      PROVE  SerialInv'
  <2> DEFINE v == conn[c].version
  <2>1. v \in Version /\ conn[c].body \in Binary /\ Uploading(c, v)
    BY <1>5 DEF TypeOK, Uploading
  <2>4. \/ OpenTmp(c) \/ FinishWrite(c) \/ FailWrite(c) \/ Install(c)
        \/ HashInstalled(c) \/ Report(c)
    BY <1>5 DEF Work, Decrypt, Choose, Spawn, Exit, Reply, UploadPc
  <2>5. /\ conn'[c].version = v /\ conn'[c].body = conn[c].body
        /\ UNCHANGED met
        /\ \A d \in Conn \ {c} : conn'[d] = conn[d]
        /\ \A w \in Version \ {v} :
             tmp'[w] = tmp[w] /\ dir'[w] = dir[w] /\ hashes'[w] = hashes[w]
    BY <2>1, <2>4
       DEF OpenTmp, FinishWrite, FailWrite, Close, Install, HashInstalled,
           Report, Goto, TypeOK, Handler
  <2>6. ASSUME v \notin met PROVE UploadOK(c)' /\ VersionOK(v)'
    <3>a. UploadOK(c) /\ VersionOK(v)
      BY <2>1, <2>6 DEF SerialInv
    <3>b. \A d \in Conn : Uploading(d, v) => d = c
      BY <2>1, <2>6 DEF SerialInv, OneUpload
    <3>1. CASE OpenTmp(c)
      <4>1. tmp[v].writers = {}
        BY <3>1, <3>a, <3>b DEF OpenTmp, VersionOK, Uploading, UploadPc, TypeOK, File
      <4>2. /\ tmp'[v] = [body |-> Torn, writers |-> {c},
                          srcs |-> {conn[c].body}]
            /\ conn'[c].pc = "write" /\ conn[c].pc = "open"
            /\ UNCHANGED <<dir, hashes>>
        BY <3>1, <2>1, <4>1 DEF OpenTmp, Goto, TypeOK, Handler
      <4>3. QED
        BY <4>2, <2>1, <3>a, <3>b, <2>5 DEF UploadOK, VersionOK, Uploading
    <3>2. CASE FinishWrite(c)
      <4>1. /\ conn[c].pc = "write" /\ conn'[c].pc = "install"
            /\ tmp[v].writers = {c} /\ tmp[v].srcs = {conn[c].body}
            /\ UNCHANGED hashes
        BY <3>2, <3>a DEF FinishWrite, Close, Goto, TypeOK, Handler, UploadOK
      <4>2. PICK b \in Binary \cup {Torn} :
              (\A f \in Held(c) : b \in Outcomes(f, c)) /\ Close(c, b)
        BY <3>2 DEF FinishWrite
      <4>3. b = conn[c].body
        BY <4>1, <4>2 DEF Held, Outcomes
      <4>4. /\ tmp'[v].body = conn[c].body /\ tmp'[v].writers = {}
            /\ dir'[v] = dir[v]
        BY <2>1, <3>a, <4>1, <4>2, <4>3
           DEF Close, Closed, TypeOK, File, VersionOK
      <4>5. QED
        BY <4>1, <4>4, <2>1, <3>a, <3>b, <2>5
           DEF UploadOK, VersionOK, Uploading
    <3>3. CASE FailWrite(c)
      <4>1. /\ conn[c].pc = "write" /\ conn'[c].pc = "failed"
            /\ tmp[v].writers = {c} /\ UNCHANGED hashes
        BY <3>3, <3>a DEF FailWrite, Close, Goto, TypeOK, Handler, UploadOK
      <4>2. PICK b \in Binary \cup {Torn} : Close(c, b)
        BY <3>3 DEF FailWrite
      <4>3. tmp'[v].writers = {} /\ dir'[v] = dir[v]
        BY <2>1, <3>a, <4>1, <4>2 DEF Close, Closed, TypeOK, File, VersionOK
      <4>4. QED
        BY <4>1, <4>3, <2>1, <3>a, <3>b, <2>5
           DEF UploadOK, VersionOK, Uploading
    <3>4. CASE Install(c)
      <4>1. /\ conn[c].pc = "install" /\ conn'[c].pc = "hash"
            /\ tmp[v].body = conn[c].body /\ tmp[v].writers = {}
            /\ UNCHANGED hashes
            /\ dir'[v] = tmp[v] /\ tmp'[v] = NoFile
        BY <3>4, <2>1, <3>a DEF Install, Goto, TypeOK, Handler, UploadOK
      <4>2. QED
        BY <4>1, <2>1, <2>5
           DEF UploadOK, VersionOK, Uploading, UploadPc, NoFile
    <3>5. CASE HashInstalled(c)
      <4>1. conn[c].pc = "hash" /\ dir[v].body = conn[c].body
        BY <3>5, <3>a DEF HashInstalled, UploadOK
      <4>2. dir[v].body # None
        BY <4>1, <2>1
      <4>3. conn'[c].pc = "report" /\ conn'[c].read = conn[c].body
        BY <3>5, <4>1, <4>2 DEF HashInstalled, TypeOK, Handler
      <4>4. UNCHANGED <<tmp, dir, hashes>>
        BY <3>5 DEF HashInstalled
      <4>5. UploadOK(c)'
        BY <4>1, <4>3, <4>4, <2>5 DEF UploadOK
      <4>6. \A d \in tmp[v].writers : d # c
        BY <3>a, <4>1 DEF VersionOK
      <4>7. Uploading(c, v)'
        BY <2>5, <4>3 DEF Uploading, UploadPc
      <4>8. tmp[v].writers \subseteq Conn
        BY <2>1 DEF TypeOK, File
      <4>9. QED
        BY <4>3, <4>4, <4>5, <4>6, <4>7, <4>8, <3>a, <2>5 DEF VersionOK
    <3>6. CASE Report(c)
      <4>1. /\ conn[c].pc = "report" /\ conn'[c].pc = "ok"
            /\ hashes'[v] = dir[v].body
            /\ UNCHANGED <<tmp, dir>>
        BY <3>6, <2>1, <3>a DEF Report, Goto, TypeOK, Handler, UploadOK
      <4>2. UploadOK(c)'
        BY <4>1 DEF UploadOK
      <4>3. \A d \in tmp[v].writers : d # c
        BY <3>a, <4>1 DEF VersionOK
      <4>4. tmp[v].writers \subseteq Conn
        BY <2>1 DEF TypeOK, File
      <4>5. QED
        BY <4>1, <4>2, <4>3, <4>4, <3>a, <2>5 DEF VersionOK
    <3>7. QED BY <2>4, <3>1, <3>2, <3>3, <3>4, <3>5, <3>6
  <2>7. QED BY <2>1, <2>5, <2>6, SerialLocal
<1>6. QED BY <1>1, <1>2, <1>3, <1>4, <1>5 DEF Next

LEMMA SerialAlways == Spec => []SerialInv
<1>1. Init => SerialInv
  BY EnclaveAssumption
     DEF Init, SerialInv, OneUpload, UploadOK, VersionOK, Uploading, UploadPc,
         Idle, NoFile
<1>2. TypeOK /\ TypeOK' /\ SerialInv /\ [Next]_vars => SerialInv'
  BY SerialStep
<1>3. QED BY <1>1, <1>2, TypeCorrect, PTL DEF Spec

\* enclave.ts:96, "Atomic write": unless two uploads of a version have
\* overlapped, what is installed is a complete binary nobody is writing.
THEOREM InstallIsWhole == Spec => []InstalledIsWhole
<1>1. SerialInv => InstalledIsWhole
  BY DEF SerialInv, VersionOK, InstalledIsWhole, Whole
<1>2. QED BY <1>1, SerialAlways, PTL

\* Unless two uploads of a version have overlapped, the hash the enclave attests
\* for it is that of the binary it runs, except during an upload.
THEOREM HashIsOfInstalled == Spec => []HashIsInstalled
<1>1. SerialInv => HashIsInstalled
  BY DEF SerialInv, VersionOK, HashIsInstalled, HashCurrent
<1>2. QED BY <1>1, SerialAlways, PTL

LEMMA OnlySpawnRuns ==
  ASSUME TypeOK, Next, NEW c \in Conn,
         conn[c].pc = "spawn", conn'[c].pc = "running"
  PROVE  Spawn(c)
<1>1. ~Restart
  BY DEF Restart, Idle
<1>2. PICK d \in Conn : Request(d) \/ Work(d)
  BY <1>1 DEF Next
<1>3. d = c
  BY <1>2
     DEF Request, Work, Refuse, Upload, Prove, OpenTmp, FinishWrite,
         FailWrite, Install, HashInstalled, Report, Decrypt, Choose, Spawn,
         Exit, Reply, Goto, TypeOK
<1>4. QED
  BY <1>2, <1>3
     DEF Request, Work, Refuse, Upload, Prove, OpenTmp, FinishWrite,
         FailWrite, Install, HashInstalled, Report, Decrypt, Choose, Exit,
         Reply

\* Unless two uploads of a version have overlapped, the binary that starts to
\* prove for it is the one attested for it, or the one an upload that has just
\* installed it is about to report.
THEOREM RunsAttested == Spec => RunsAttestedBinary
<1> DEFINE A == \A c \in Conn : LET v == conn[c].path IN
       (/\ conn[c].pc = "spawn" /\ conn'[c].pc = "running"
        /\ v \in Version \ met)
       => \/ conn'[c].body = hashes[v]
          \/ \E d \in Conn : /\ Uploading(d, v)
                             /\ conn[d].pc \in {"hash", "report"}
                             /\ conn'[c].body = conn[d].body
<1>1. TypeOK /\ SerialInv /\ [Next]_vars => [A]_vars
  <2> SUFFICES ASSUME TypeOK, SerialInv, Next, NEW c \in Conn,
                      conn[c].pc = "spawn", conn'[c].pc = "running",
                      conn[c].path \in Version \ met
               PROVE  \/ conn'[c].body = hashes[conn[c].path]
                      \/ \E d \in Conn : /\ Uploading(d, conn[c].path)
                                         /\ conn[d].pc \in {"hash", "report"}
                                         /\ conn'[c].body = conn[d].body
    OBVIOUS
  <2> DEFINE v == conn[c].path
  <2>1. v # None
    BY EnclaveAssumption
  <2>2. conn'[c].body = dir[v].body
    BY <2>1, OnlySpawnRuns DEF Spawn, TypeOK, Handler
  <2>3. VersionOK(v)
    BY DEF SerialInv
  <2>4. \A d \in Conn : Uploading(d, v) /\ conn[d].pc \in {"hash", "report"}
                           => dir[v].body = conn[d].body
    BY DEF SerialInv, UploadOK, Uploading
  <2>5. QED BY <2>2, <2>3, <2>4 DEF VersionOK
<1>2. QED BY <1>1, SerialAlways, TypeCorrect, PTL DEF Spec, RunsAttestedBinary

(***************************************************************************)
(* PART II.  The host in front of it                                       *)
(***************************************************************************)

HostTyped ==
  /\ epoch \in 1..MaxEpoch
  /\ host \in [Conn -> HostHandler]
  /\ sealed \in [Conn -> 0..MaxEpoch]

\* The enclave is only ever given released binaries: however uploads overlap,
\* a file of a version holds its release, nothing, or is torn.
ReleasedInv ==
  /\ \A v \in Version :
       /\ tmp[v].body \in {Release[v], Torn, None}
       /\ dir[v].body \in {Release[v], Torn, None}
       /\ tmp[v].srcs \subseteq {Release[v]}
       /\ dir[v].srcs \subseteq {Release[v]}
  /\ \A c \in Conn :
       conn[c].pc \in UploadPc => conn[c].body = Release[conn[c].version]

\* What the host's handler c may rely on while it waits for an upload ...
UploadingOK(c) ==
  /\ host[c].version \in Version
  /\ conn[c].pc \in UploadPc \cup {"ok", "failed"}
  /\ conn[c].pc = "ok" => dir[host[c].version].body # None

\* ... and for a proof.  Past its decryption the payload was encrypted to the
\* enclave's present key, so the enclave still has what it had when it said so.
ProvingOK(c) ==
  LET v == host[c].version IN
  /\ conn[c].pc \in ProvePc \cup {"ok", "failed"}
  /\ sealed[c] = host[c].key
  /\ conn[c].pc \in {"choose", "spawn", "running", "ok"} => host[c].key = epoch
  /\ v # None =>
       /\ conn[c].pc = "spawn" => conn[c].path = v
       /\ conn[c].pc = "running" => conn[c].body \in {Release[v], Torn}
       /\ conn[c].pc = "ok" => conn[c].body = Release[v]

HostOK(c) ==
  LET v == host[c].version IN
  /\ host[c].key <= epoch
  /\ host[c].pc \in Waiting => conn[c].pc # "idle" /\ conn[c].version = v
  /\ host[c].pc \in {"health", "download", "upload"} => v \in Version
  /\ host[c].pc = "uploading" => UploadingOK(c)
  /\ host[c].pc = "proving" => ProvingOK(c)
  /\ host[c].pc \in {"prove", "proving"} /\ v # None /\ host[c].key = epoch
       => dir[v].body # None
  /\ host[c].pc = "ok" /\ v # None => host[c].proof = Release[v]

ProxyInv ==
  /\ TypeOK
  /\ KeptInv
  /\ HostTyped
  /\ ReleasedInv
  /\ \A c \in Conn : HostOK(c)

-----------------------------------------------------------------------------
\* The host and its clients drive the enclave through its own operations only.
LEMMA EnclaveStep ==
  ASSUME ProxyInv, ProxyNext
  PROVE  [Next]_vars
<1>1. CASE EnclaveRestart
  BY <1>1 DEF EnclaveRestart, Next
<1>2. CASE HostRestart
  BY <1>2 DEF HostRestart, EnclaveUnchanged, vars
<1>3. ASSUME NEW c \in Conn, NEW v \in Version \cup {None}, NEW k \in 1..epoch,
             Post(c, v, k)
      PROVE  [Next]_vars
  BY <1>3 DEF Post, EnclaveUnchanged, vars
<1>4. ASSUME NEW c \in Conn, GiveUp(c) PROVE [Next]_vars
  BY <1>4 DEF GiveUp, EnclaveUnchanged, vars
<1>5. ASSUME NEW c \in Conn, Serve(c) PROVE [Next]_vars
  <2>1. (sealed[c] = epoch) \in BOOLEAN
    OBVIOUS
  <2>2. Work(c)
    BY <1>5, <2>1, Zenon DEF Serve, Work
  <2>3. QED BY <2>2 DEF Next
<1>6. ASSUME NEW c \in Conn, HostWork(c) PROVE [Next]_vars
  <2>1. CASE Health(c) \/ Download(c) \/ HostFail(c) \/ Answer(c)
    BY <2>1 DEF Health, Download, HostFail, Answer, EnclaveUnchanged, vars
  <2>2. CASE CallUpload(c)
    <3>1. host[c].version \in Version
      BY <2>2 DEF CallUpload, HostAt, ProxyInv, HostOK
    <3>2. Release[host[c].version] \in Binary
      BY <3>1, ProxyAssumption
    <3>3. Request(c)
      BY <2>2, <3>1, <3>2 DEF CallUpload, Request
    <3>4. QED BY <3>3 DEF Next
  <2>3. CASE CallProve(c)
    <3>1. host[c].version \in Version \cup {None}
      BY DEF ProxyInv, HostTyped, HostHandler
    <3>2. Request(c)
      BY <2>3, <3>1 DEF CallProve, Request
    <3>3. QED BY <3>2 DEF Next
  <2>4. CASE Return(c)
    BY <2>4 DEF Return, Work, Next
  <2>5. QED BY <1>6, <2>1, <2>2, <2>3, <2>4 DEF HostWork
<1>7. QED BY <1>1, <1>2, <1>3, <1>4, <1>5, <1>6 DEF ProxyNext

\* A request's own steps leave the other requests alone, and never remove an
\* installed binary.
LEMMA OthersAlone ==
  ASSUME ProxyInv, NEW c \in Conn,
         \/ \E v \in Version \cup {None}, k \in 1..epoch : Post(c, v, k)
         \/ HostWork(c) \/ GiveUp(c) \/ Serve(c)
  PROVE  /\ epoch' = epoch
         /\ \A d \in Conn \ {c} : /\ host'[d] = host[d] /\ conn'[d] = conn[d]
                                  /\ sealed'[d] = sealed[d]
         /\ \A v \in Version : dir[v].body # None => dir'[v].body # None
<1> USE DEF HostGoto, EnclaveUnchanged
<1>1. TypeOK /\ HostTyped
  BY DEF ProxyInv
<1>2. ASSUME NEW v, NEW k, Post(c, v, k)
      PROVE  /\ UNCHANGED <<epoch, conn, dir, sealed>>
             /\ \A d \in Conn \ {c} : host'[d] = host[d]
  BY <1>1, <1>2 DEF Post, HostTyped
<1>3. ASSUME Health(c) \/ Download(c) \/ HostFail(c) \/ Answer(c) \/ GiveUp(c)
      PROVE  /\ UNCHANGED <<epoch, conn, dir, sealed>>
             /\ \A d \in Conn \ {c} : host'[d] = host[d]
  BY <1>1, <1>3 DEF Health, Download, HostFail, Answer, GiveUp, HostTyped
<1>4. ASSUME CallUpload(c)
      PROVE  /\ UNCHANGED <<epoch, dir, sealed>>
             /\ \A d \in Conn \ {c} : host'[d] = host[d] /\ conn'[d] = conn[d]
  BY <1>1, <1>4 DEF CallUpload, Upload, HostTyped, TypeOK
<1>5. ASSUME CallProve(c)
      PROVE  /\ UNCHANGED <<epoch, dir>>
             /\ \A d \in Conn \ {c} : /\ host'[d] = host[d] /\ conn'[d] = conn[d]
                                      /\ sealed'[d] = sealed[d]
  BY <1>1, <1>5 DEF CallProve, Prove, HostTyped, TypeOK
<1>6. ASSUME Return(c)
      PROVE  /\ UNCHANGED <<epoch, dir, sealed>>
             /\ \A d \in Conn \ {c} : host'[d] = host[d] /\ conn'[d] = conn[d]
  BY <1>1, <1>6 DEF Return, Reply, HostTyped, TypeOK
<1>7. ASSUME Serve(c)
      PROVE  /\ UNCHANGED <<epoch, host, sealed>>
             /\ \A d \in Conn \ {c} : conn'[d] = conn[d]
             /\ \A v \in Version : dir[v].body # None => dir'[v].body # None
  <2>1. UNCHANGED <<epoch, host, sealed>>
    BY <1>7 DEF Serve
  <2>2. \A d \in Conn \ {c} : conn'[d] = conn[d]
    <3>1. ASSUME NEW pc, Goto(c, pc)
          PROVE  \A d \in Conn \ {c} : conn'[d] = conn[d]
      BY <1>1, <3>1 DEF Goto, TypeOK
    <3>2. CASE OpenTmp(c) \/ FinishWrite(c) \/ FailWrite(c) \/ Report(c)
                 \/ Decrypt(c, sealed[c] = epoch) \/ Exit(c) \/ Install(c)
      BY <3>1, <3>2 DEF OpenTmp, FinishWrite, FailWrite, Report, Decrypt, Exit, Install
    <3>3. CASE HashInstalled(c) \/ Choose(c) \/ Spawn(c)
      BY <1>1, <3>3 DEF HashInstalled, Choose, Spawn, TypeOK
    <3>4. QED BY <1>7, <3>2, <3>3 DEF Serve
  <2>3. Work(c)
    <3>1. (sealed[c] = epoch) \in BOOLEAN
      OBVIOUS
    <3>2. QED BY <1>7, <3>1, Zenon DEF Serve, Work
  <2>4. QED BY <1>1, <2>1, <2>2, <2>3, DirKept
<1>8. QED BY <1>2, <1>3, <1>4, <1>5, <1>6, <1>7 DEF HostWork

\* What others do cannot invalidate what a request relies on.
LEMMA HostStays ==
  ASSUME ProxyInv, NEW d \in Conn,
         epoch' = epoch, host'[d] = host[d], conn'[d] = conn[d],
         sealed'[d] = sealed[d],
         \A v \in Version : dir[v].body # None => dir'[v].body # None
  PROVE  HostOK(d)'
<1>1. HostOK(d) /\ host[d].version \in Version \cup {None}
  BY DEF ProxyInv, HostTyped, HostHandler
<1>2. host[d].pc = "uploading" => UploadingOK(d)'
  BY <1>1 DEF HostOK, UploadingOK
<1>3. host[d].pc = "proving" => ProvingOK(d)'
  BY <1>1 DEF HostOK, ProvingOK
<1>4. QED BY <1>1, <1>2, <1>3 DEF HostOK

LEMMA HostTypedStep == ProxyInv /\ ProxyNext => HostTyped'
<1> SUFFICES ASSUME ProxyInv, ProxyNext PROVE HostTyped'
  OBVIOUS
<1> USE DEF HostTyped, EnclaveUnchanged
<1>1. TypeOK /\ HostTyped
  BY DEF ProxyInv
<1>2. HostIdle \in HostHandler
  BY ProxyAssumption, EnclaveAssumption DEF HostIdle, HostHandler, Content
<1>3. ASSUME NEW c \in Conn, NEW pc \in Waiting \cup {"health", "download",
               "upload", "prove", "ok", "failed"}, HostGoto(c, pc)
      PROVE  host' \in [Conn -> HostHandler]
  BY <1>1, <1>3 DEF HostGoto, HostHandler
<1>4. CASE EnclaveRestart
  <2>1. epoch' \in 1..MaxEpoch
    BY <1>1, <1>4, ProxyAssumption DEF EnclaveRestart
  <2>2. Severed \in [Conn -> HostHandler]
    BY <1>1 DEF Severed, HostHandler
  <2>3. QED BY <1>1, <1>4, <2>1, <2>2 DEF EnclaveRestart
<1>5. CASE HostRestart
  BY <1>1, <1>2, <1>5 DEF HostRestart
<1>6. ASSUME NEW c \in Conn, NEW v \in Version \cup {None}, NEW k \in 1..epoch,
             Post(c, v, k)
      PROVE  HostTyped'
  <2>1. PICK pc \in {"failed", "prove", "health"} :
          host' = [host EXCEPT ![c] = [HostIdle EXCEPT !.pc = pc, !.version = v,
                                                       !.key = k]]
    BY <1>6 DEF Post
  <2>2. k \in 0..MaxEpoch
    BY <1>1, ProxyAssumption
  <2> DEFINE h == [HostIdle EXCEPT !.pc = pc, !.version = v, !.key = k]
  <2>3. h \in HostHandler
    BY <1>2, <2>2 DEF HostHandler
  <2>4. host' = [host EXCEPT ![c] = h]
    BY <2>1
  <2> HIDE DEF h
  <2>5. QED BY <1>1, <1>6, <2>3, <2>4 DEF Post
<1>7. ASSUME NEW c \in Conn, HostWork(c) \/ GiveUp(c) PROVE HostTyped'
  <2>1. CASE Health(c) \/ Download(c) \/ HostFail(c) \/ GiveUp(c) \/ CallUpload(c)
    BY <1>1, <1>3, <2>1
       DEF Health, Download, HostFail, GiveUp, CallUpload, Waiting
  <2>2. CASE CallProve(c)
    BY <1>1, <1>3, <2>2 DEF CallProve, Waiting, HostHandler
  <2>3. CASE Return(c)
    <3>1. conn[c].pc \in {"ok", "failed"} /\ conn[c].body \in Content
      BY <1>1, <2>3 DEF Return, Reply, TypeOK, Handler
    <3> DEFINE h == [host[c] EXCEPT
                 !.pc = IF HostAt(c, "uploading") /\ conn[c].pc = "ok"
                          THEN "prove" ELSE conn[c].pc,
                 !.proof = IF HostAt(c, "proving") /\ conn[c].pc = "ok"
                             THEN conn[c].body ELSE None]
    <3>2. h \in HostHandler
      BY <1>1, <3>1 DEF HostHandler, Content
    <3>3. host' = [host EXCEPT ![c] = h] \/ UNCHANGED host
      BY <2>3 DEF Return
    <3> HIDE DEF h
    <3>4. QED BY <1>1, <2>3, <3>2, <3>3 DEF Return
  <2>4. CASE Answer(c)
    BY <1>1, <1>2, <2>4 DEF Answer
  <2>5. QED BY <1>7, <2>1, <2>2, <2>3, <2>4 DEF HostWork
<1>8. ASSUME NEW c \in Conn, Serve(c) PROVE HostTyped'
  BY <1>1, <1>8 DEF Serve
<1>9. QED BY <1>4, <1>5, <1>6, <1>7, <1>8 DEF ProxyNext

-----------------------------------------------------------------------------
(* However uploads of a version overlap, only its release is ever written. *)

FilesReleased ==
  \A v \in Version :
    /\ tmp[v].body \in {Release[v], Torn, None}
    /\ dir[v].body \in {Release[v], Torn, None}
    /\ tmp[v].srcs \subseteq {Release[v]}
    /\ dir[v].srcs \subseteq {Release[v]}

\* A step of handler c that is in an upload afterwards only if it was before,
\* with the same version and content.
LEMMA ReleasedLocal ==
  ASSUME TypeOK, ReleasedInv, NEW c \in Conn, NEW k,
         conn' = [conn EXCEPT ![c] = k],
         k.pc \in UploadPc => /\ conn[c].pc \in UploadPc
                              /\ k.version = conn[c].version
                              /\ k.body = conn[c].body,
         FilesReleased'
  PROVE  ReleasedInv'
<1>1. \A d \in Conn : conn'[d] = IF d = c THEN k ELSE conn[d]
  BY DEF TypeOK
<1>2. QED BY <1>1 DEF ReleasedInv, FilesReleased

LEMMA ReleasedGoto ==
  ASSUME TypeOK, ReleasedInv, NEW c \in Conn, NEW pc, Goto(c, pc),
         pc \in UploadPc => conn[c].pc \in UploadPc, FilesReleased'
  PROVE  ReleasedInv'
<1> DEFINE k == [conn[c] EXCEPT !.pc = pc]
<1>1. k.pc = pc /\ k.version = conn[c].version /\ k.body = conn[c].body
  BY DEF TypeOK, Handler
<1>2. conn' = [conn EXCEPT ![c] = k]
  BY DEF Goto
<1> HIDE DEF k
<1>3. QED BY <1>1, <1>2, ReleasedLocal

LEMMA ReleasedClose ==
  ASSUME TypeOK, ReleasedInv, NEW c \in Conn, conn[c].pc = "write",
         NEW b \in Binary \cup {Torn}, Close(c, b),
         \A f \in Held(c) : b \in {Release[conn[c].version], f.body, Torn}
  PROVE  FilesReleased'
<1> DEFINE v == conn[c].version
<1>1. v \in Version
  BY DEF TypeOK, UploadPc
<1>2. ASSUME NEW f \in {tmp[v], dir[v]}
      PROVE  /\ Closed(f, c, b).body \in {Release[v], Torn, None}
             /\ Closed(f, c, b).srcs \subseteq {Release[v]}
  <2>1. f \in File
    BY <1>1, <1>2 DEF TypeOK
  <2>2. f.body \in {Release[v], Torn, None} /\ f.srcs \subseteq {Release[v]}
    BY <1>1, <1>2 DEF ReleasedInv
  <2>3. CASE c \in f.writers
    <3>1. b \in {Release[v], Torn, None}
      BY <1>2, <2>2, <2>3 DEF Held
    <3>2. Closed(f, c, b) = [f EXCEPT !.body = b, !.writers = @ \ {c}]
      BY <2>3 DEF Closed
    <3>3. Closed(f, c, b).body = b /\ Closed(f, c, b).srcs = f.srcs
      BY <2>1, <3>2 DEF File
    <3>4. QED BY <2>2, <3>1, <3>3
  <2>4. CASE c \notin f.writers
    BY <2>2, <2>4 DEF Closed
  <2>5. QED BY <2>3, <2>4
<1>3. ASSUME NEW w \in Version
      PROVE  /\ tmp'[w] = IF w = v THEN Closed(tmp[v], c, b) ELSE tmp[w]
             /\ dir'[w] = IF w = v THEN Closed(dir[v], c, b) ELSE dir[w]
  BY DEF Close, TypeOK
<1>4. QED BY <1>1, <1>2, <1>3 DEF ReleasedInv, FilesReleased

LEMMA ReleasedStep == ProxyInv /\ ProxyNext => ReleasedInv'
<1> SUFFICES ASSUME ProxyInv, ProxyNext PROVE ReleasedInv'
  OBVIOUS
<1> USE EnclaveAssumption, ProxyAssumption
<1>1. TypeOK /\ ReleasedInv /\ FilesReleased
  BY DEF ProxyInv, ReleasedInv, FilesReleased
<1>2. ASSUME EnclaveUnchanged PROVE ReleasedInv'
  BY <1>1, <1>2 DEF EnclaveUnchanged, ReleasedInv
<1>3. CASE EnclaveRestart
  BY <1>3 DEF EnclaveRestart, Restart, ReleasedInv, NoFile, Idle, UploadPc
<1>4. ASSUME NEW c \in Conn, HostWork(c) PROVE ReleasedInv'
  <2>1. CASE Health(c) \/ Download(c) \/ HostFail(c) \/ Answer(c)
    BY <1>2, <2>1 DEF Health, Download, HostFail, Answer
  <2>2. CASE CallUpload(c)
    <3> DEFINE v == host[c].version
               k == [Idle EXCEPT !.pc = "open", !.version = v, !.body = Release[v]]
    <3>1. /\ conn' = [conn EXCEPT ![c] = k] /\ UNCHANGED <<tmp, dir>>
      BY <2>2 DEF CallUpload, Upload
    <3>2. k.version = v /\ k.body = Release[v]
      BY DEF Idle
    <3> HIDE DEF k
    <3>3. \A d \in Conn : conn'[d] = IF d = c THEN k ELSE conn[d]
      BY <1>1, <3>1 DEF TypeOK
    <3>4. QED BY <1>1, <3>1, <3>2, <3>3 DEF ReleasedInv
  <2>3. CASE CallProve(c)
    <3> DEFINE k == [Idle EXCEPT !.pc = "decrypt", !.version = host[c].version]
    <3>1. k.pc \notin UploadPc
      BY DEF Idle, UploadPc
    <3>2. conn' = [conn EXCEPT ![c] = k] /\ UNCHANGED <<tmp, dir>>
      BY <2>3 DEF CallProve, Prove
    <3> HIDE DEF k
    <3>3. QED BY <1>1, <3>1, <3>2, ReleasedLocal DEF FilesReleased
  <2>4. CASE Return(c)
    <3>1. Idle.pc \notin UploadPc
      BY DEF Idle, UploadPc
    <3>2. conn' = [conn EXCEPT ![c] = Idle] /\ UNCHANGED <<tmp, dir>>
      BY <2>4 DEF Return, Reply
    <3>3. QED BY <1>1, <3>1, <3>2, ReleasedLocal DEF FilesReleased
  <2>5. QED BY <1>4, <2>1, <2>2, <2>3, <2>4 DEF HostWork
<1>5. ASSUME NEW c \in Conn, Serve(c) PROVE ReleasedInv'
  <2>1. CASE OpenTmp(c)
    <3> DEFINE v == conn[c].version
    <3>1. v \in Version /\ conn[c].pc \in UploadPc /\ conn[c].body = Release[v]
      BY <1>1, <2>1 DEF OpenTmp, TypeOK, ReleasedInv, UploadPc
    <3>2. FilesReleased'
      BY <1>1, <2>1, <3>1 DEF OpenTmp, FilesReleased, TypeOK
    <3>3. QED BY <1>1, <2>1, <3>1, <3>2, ReleasedGoto DEF OpenTmp
  <2>2. CASE FinishWrite(c)
    <3>1. conn[c].pc = "write" /\ conn[c].version \in Version
      BY <1>1, <2>2 DEF FinishWrite, TypeOK, UploadPc
    <3>2. conn[c].body = Release[conn[c].version]
      BY <1>1, <3>1 DEF ReleasedInv, UploadPc
    <3>3. PICK b \in Binary \cup {Torn} :
            Close(c, b) /\ \A f \in Held(c) : b \in Outcomes(f, c)
      BY <2>2 DEF FinishWrite
    <3>4. \A f \in Held(c) : b \in {Release[conn[c].version], f.body, Torn}
      BY <1>1, <3>1, <3>2, <3>3 DEF Held, Outcomes, ReleasedInv
    <3>5. FilesReleased'
      BY <1>1, <3>1, <3>3, <3>4, ReleasedClose
    <3>6. QED BY <1>1, <2>2, <3>1, <3>5, ReleasedGoto DEF FinishWrite, UploadPc
  <2>3. CASE FailWrite(c)
    <3>1. conn[c].pc = "write"
      BY <2>3 DEF FailWrite
    <3>2. PICK b \in Binary \cup {Torn} :
            Close(c, b) /\ \A f \in Held(c) : b \in {f.body, Torn}
      BY <2>3 DEF FailWrite
    <3>3. FilesReleased'
      BY <1>1, <3>1, <3>2, ReleasedClose
    <3>4. QED BY <1>1, <2>3, <3>3, ReleasedGoto DEF FailWrite, UploadPc
  <2>4. CASE Install(c)
    <3>1. conn[c].pc = "install" /\ conn[c].version \in Version
      BY <1>1, <2>4 DEF Install, TypeOK, UploadPc
    <3>2. FilesReleased'
      BY <1>1, <2>4, <3>1 DEF Install, FilesReleased, TypeOK, NoFile
    <3>3. PICK pc \in {"failed", "hash"} : Goto(c, pc)
      BY <2>4 DEF Install
    <3>4. QED BY <1>1, <3>1, <3>2, <3>3, ReleasedGoto DEF UploadPc
  <2>5. CASE HashInstalled(c)
    <3> DEFINE k == [conn[c] EXCEPT
               !.pc = IF dir[conn[c].version].body = None THEN "failed"
                                                         ELSE "report",
               !.read = dir[conn[c].version].body]
    <3>1. conn[c].pc \in UploadPc /\ conn[c] \in Handler
      BY <1>1, <2>5 DEF HashInstalled, TypeOK, UploadPc
    <3>2. k.version = conn[c].version /\ k.body = conn[c].body
      BY <3>1 DEF Handler
    <3>3. conn' = [conn EXCEPT ![c] = k] /\ UNCHANGED <<tmp, dir>>
      BY <2>5 DEF HashInstalled
    <3> HIDE DEF k
    <3>4. QED BY <1>1, <3>1, <3>2, <3>3, ReleasedLocal DEF FilesReleased
  <2>6. CASE Report(c)
    BY <1>1, <2>6, ReleasedGoto DEF Report, UploadPc, FilesReleased
  <2>7. CASE Decrypt(c, sealed[c] = epoch)
    <3>1. PICK pc \in {"choose", "failed"} : Goto(c, pc)
      BY <2>7 DEF Decrypt
    <3>2. FilesReleased'
      BY <1>1, <2>7 DEF Decrypt, FilesReleased
    <3>3. QED BY <1>1, <3>1, <3>2, ReleasedGoto DEF UploadPc
  <2>8. CASE Choose(c)
    <3> DEFINE v == conn[c].version
               k == [conn[c] EXCEPT
                 !.pc = IF Default = None THEN "failed" ELSE "spawn",
                 !.path = IF v # None /\ dir[v].body # None THEN v ELSE None]
    <3>1. k.pc \notin UploadPc
      BY <1>1 DEF UploadPc, TypeOK, Handler
    <3>2. conn' = [conn EXCEPT ![c] = k]
      BY <2>8 DEF Choose
    <3>3. FilesReleased'
      BY <1>1, <2>8 DEF Choose, FilesReleased
    <3> HIDE DEF k
    <3>4. QED BY <1>1, <3>1, <3>2, <3>3, ReleasedLocal
  <2>9. CASE Spawn(c)
    <3> DEFINE p == conn[c].path
               f == IF p = None THEN [NoFile EXCEPT !.body = Default] ELSE dir[p]
               pc == IF f.body = None \/ f.writers # {} THEN "failed"
                                                        ELSE "running"
    <3> HIDE DEF f
    <3>1. conn' = [conn EXCEPT ![c].pc = pc, ![c].body = f.body]
      BY <2>9 DEF Spawn, f
    <3>2. pc \notin UploadPc
      BY DEF UploadPc
    <3> HIDE DEF pc
    <3> DEFINE k == [conn[c] EXCEPT !.pc = pc, !.body = f.body]
    <3>4. k.pc = pc
      BY <1>1 DEF TypeOK, Handler
    <3>5. conn' = [conn EXCEPT ![c] = k]
      BY <3>1
    <3>3. FilesReleased'
      BY <1>1, <2>9 DEF Spawn, FilesReleased
    <3> HIDE DEF k
    <3>6. QED BY <1>1, <3>2, <3>3, <3>4, <3>5, ReleasedLocal
  <2>10. CASE Exit(c)
    <3>1. PICK pc \in {"ok", "failed"} : Goto(c, pc)
      BY <2>10 DEF Exit
    <3>2. FilesReleased'
      BY <1>1, <2>10 DEF Exit, FilesReleased
    <3>3. QED BY <1>1, <3>1, <3>2, ReleasedGoto DEF UploadPc
  <2>11. QED BY <1>5, <2>1, <2>2, <2>3, <2>4, <2>5, <2>6, <2>7, <2>8, <2>9,
                <2>10 DEF Serve
<1>6. CASE HostRestart
  BY <1>2, <1>6 DEF HostRestart
<1>7. ASSUME NEW c \in Conn, NEW v, NEW k, Post(c, v, k) \/ GiveUp(c)
      PROVE  ReleasedInv'
  BY <1>2, <1>7 DEF Post, GiveUp
<1>8. QED BY <1>3, <1>4, <1>5, <1>6, <1>7 DEF ProxyNext

-----------------------------------------------------------------------------
(* What a request relies on survives its own steps. *)

\* The enclave works on the call of a host that waits for it, or on one whose
\* host has given up.
LEMMA ServeKeeps ==
  ASSUME ProxyInv, NEW c \in Conn, Serve(c)
  PROVE  HostOK(c)'
<1> USE EnclaveAssumption, ProxyAssumption
<1> DEFINE v == host[c].version
<1>1. TypeOK /\ KeptInv /\ HostTyped /\ ReleasedInv /\ HostOK(c)
      /\ v \in Version \cup {None} /\ conn[c] \in Handler
  BY DEF ProxyInv, HostTyped, HostHandler, TypeOK
<1>2. /\ epoch' = epoch /\ host' = host /\ sealed' = sealed
      /\ \A w \in Version : dir[w].body # None => dir'[w].body # None
  <2>1. epoch' = epoch /\ host' = host /\ sealed' = sealed
    BY DEF Serve
  <2>2. QED BY <2>1, OthersAlone
<1>3. SUFFICES
        /\ conn'[c].version = conn[c].version /\ conn'[c].pc # "idle"
        /\ host[c].pc = "uploading" => UploadingOK(c)'
        /\ host[c].pc = "proving" => ProvingOK(c)'
  BY <1>1, <1>2 DEF HostOK
\* One step of an upload.
<1>4. ASSUME conn[c].pc \in UploadPc,
             conn'[c].version = conn[c].version,
             conn'[c].pc \in UploadPc \cup {"ok", "failed"},
             conn'[c].pc = "ok" => conn[c].pc = "report"
      PROVE  /\ conn'[c].version = conn[c].version /\ conn'[c].pc # "idle"
             /\ host[c].pc = "uploading" => UploadingOK(c)'
             /\ host[c].pc = "proving" => ProvingOK(c)'
  <2>1. host[c].pc # "proving"
    BY <1>1, <1>4 DEF HostOK, ProvingOK, UploadPc, ProvePc
  <2>2. conn'[c].pc # "idle"
    BY <1>4 DEF UploadPc
  <2>3. ASSUME host[c].pc = "uploading" PROVE UploadingOK(c)'
    <3>1. v \in Version /\ conn[c].version = v
      BY <1>1, <2>3 DEF HostOK, UploadingOK, Waiting
    <3>2. conn[c].pc = "report" => dir[v].body # None
      BY <1>1, <3>1 DEF KeptInv
    <3>3. QED BY <1>2, <1>4, <3>1, <3>2 DEF UploadingOK
  <2>4. QED BY <1>4, <2>1, <2>2, <2>3
\* One step of a proof.
<1>5. ASSUME conn[c].pc \in ProvePc,
             conn'[c].version = conn[c].version,
             conn'[c].pc \in ProvePc \cup {"ok", "failed"},
             host[c].pc = "proving" =>
               /\ conn'[c].pc \in {"choose", "spawn", "running", "ok"}
                    => host[c].key = epoch
               /\ v # None =>
                    /\ conn'[c].pc = "spawn" => conn'[c].path = v
                    /\ conn'[c].pc = "running" => conn'[c].body \in {Release[v], Torn}
                    /\ conn'[c].pc = "ok" => conn'[c].body = Release[v]
      PROVE  /\ conn'[c].version = conn[c].version /\ conn'[c].pc # "idle"
             /\ host[c].pc = "uploading" => UploadingOK(c)'
             /\ host[c].pc = "proving" => ProvingOK(c)'
  <2>1. host[c].pc # "uploading"
    BY <1>1, <1>5 DEF HostOK, UploadingOK, UploadPc, ProvePc
  <2>2. conn'[c].pc # "idle"
    BY <1>5 DEF ProvePc
  <2>3. ASSUME host[c].pc = "proving" PROVE ProvingOK(c)'
    <3>1. sealed[c] = host[c].key
      BY <1>1, <2>3 DEF HostOK, ProvingOK
    <3>2. QED BY <1>2, <1>5, <2>3, <3>1 DEF ProvingOK
  <2>4. QED BY <1>5, <2>1, <2>2, <2>3
<1>6. ASSUME NEW pc, Goto(c, pc)
      PROVE  /\ conn'[c].pc = pc /\ conn'[c].version = conn[c].version
             /\ conn'[c].body = conn[c].body /\ conn'[c].path = conn[c].path
  BY <1>1, <1>6 DEF Goto, TypeOK, Handler
<1>7. CASE OpenTmp(c) \/ FinishWrite(c) \/ FailWrite(c) \/ Report(c)
  BY <1>4, <1>6, <1>7 DEF OpenTmp, FinishWrite, FailWrite, Report, UploadPc
<1>8. CASE Install(c)
  <2>1. PICK pc \in {"failed", "hash"} : Goto(c, pc)
    BY <1>8 DEF Install
  <2>2. QED BY <1>4, <1>6, <1>8, <2>1 DEF Install, UploadPc
<1>9. CASE HashInstalled(c)
  <2>1. PICK pc \in {"failed", "report"} : \E r :
          conn' = [conn EXCEPT ![c].pc = pc, ![c].read = r]
    BY <1>9 DEF HashInstalled
  <2>2. conn'[c].pc = pc /\ conn'[c].version = conn[c].version
    BY <1>1, <2>1 DEF TypeOK, Handler
  <2>3. QED BY <1>4, <1>9, <2>1, <2>2 DEF HashInstalled, UploadPc
<1>10. CASE Decrypt(c, sealed[c] = epoch)
  <2>1. PICK pc \in {"choose", "failed"} : 
          /\ Goto(c, pc)
          /\ pc = "choose" => sealed[c] = epoch
    BY <1>10 DEF Decrypt
  <2>2. host[c].pc = "proving" => sealed[c] = host[c].key
    BY <1>1 DEF HostOK, ProvingOK
  <2>3. conn[c].pc = "decrypt"
    BY <1>10 DEF Decrypt
  <2>4. /\ conn'[c].pc = pc /\ conn'[c].version = conn[c].version
    BY <1>6, <2>1
  <2>5. QED BY <1>5, <2>1, <2>2, <2>3, <2>4 DEF ProvePc
<1>11. CASE Choose(c)
  <2> DEFINE w == conn[c].version
  <2>1. PICK pc \in {"failed", "spawn"} :
          conn' = [conn EXCEPT ![c].pc = pc,
            ![c].path = IF w # None /\ dir[w].body # None THEN w ELSE None]
    BY <1>11 DEF Choose
  <2>2. /\ conn'[c].pc = pc /\ conn'[c].version = w
        /\ conn'[c].path = IF w # None /\ dir[w].body # None THEN w ELSE None
    BY <1>1, <2>1 DEF TypeOK, Handler
  <2>3. conn[c].pc = "choose"
    BY <1>11 DEF Choose
  <2>4. ASSUME host[c].pc = "proving"
        PROVE  /\ host[c].key = epoch /\ w = v
               /\ v # None => dir[v].body # None
    BY <1>1, <2>3, <2>4 DEF HostOK, ProvingOK, Waiting
  <2>5. QED BY <1>5, <2>2, <2>3, <2>4 DEF ProvePc
<1>12. CASE Spawn(c)
  <2> DEFINE p == conn[c].path
             f == IF p = None THEN [NoFile EXCEPT !.body = Default] ELSE dir[p]
  <2>1. PICK pc \in {"failed", "running"} :
          /\ pc = "running" => f.body # None
          /\ conn' = [conn EXCEPT ![c].pc = pc, ![c].body = f.body]
    BY <1>12 DEF Spawn
  <2>2. /\ conn'[c].pc = pc /\ conn'[c].version = conn[c].version
        /\ conn'[c].body = f.body
    BY <1>1, <2>1 DEF TypeOK, Handler
  <2>3. conn[c].pc = "spawn"
    BY <1>12 DEF Spawn
  <2>4. ASSUME host[c].pc = "proving"
        PROVE  /\ host[c].key = epoch
               /\ v # None => f.body \in {Release[v], Torn, None}
    <3>1. host[c].key = epoch /\ (v # None => p = v)
      BY <1>1, <2>3, <2>4 DEF HostOK, ProvingOK
    <3>2. QED BY <1>1, <3>1 DEF ReleasedInv
  <2> HIDE DEF f
  <2>5. QED BY <1>5, <2>1, <2>2, <2>3, <2>4 DEF ProvePc
<1>13. CASE Exit(c)
  <2>1. PICK pc \in {"ok", "failed"} :
          Goto(c, pc) /\ (conn[c].body = Torn => pc = "failed")
    BY <1>13 DEF Exit
  <2>2. /\ conn'[c].pc = pc /\ conn'[c].version = conn[c].version
        /\ conn'[c].body = conn[c].body
    BY <1>6, <2>1
  <2>3. conn[c].pc = "running"
    BY <1>13 DEF Exit
  <2>4. ASSUME host[c].pc = "proving"
        PROVE  /\ host[c].key = epoch
               /\ v # None => conn[c].body \in {Release[v], Torn}
    BY <1>1, <2>3, <2>4 DEF HostOK, ProvingOK
  <2>5. QED BY <1>5, <2>1, <2>2, <2>3, <2>4 DEF ProvePc
<1>14. QED BY <1>7, <1>8, <1>9, <1>10, <1>11, <1>12, <1>13 DEF Serve

LEMMA HostWorkKeeps ==
  ASSUME ProxyInv, NEW c \in Conn,
         \/ \E v \in Version \cup {None}, k \in 1..epoch : Post(c, v, k)
         \/ HostWork(c) \/ GiveUp(c)
  PROVE  HostOK(c)'
<1> USE EnclaveAssumption, ProxyAssumption
<1> DEFINE v == host[c].version
<1>1. TypeOK /\ KeptInv /\ HostTyped /\ HostOK(c)
      /\ v \in Version \cup {None} /\ host[c] \in HostHandler /\ conn[c] \in Handler
      /\ epoch \in Nat /\ host[c].key \in Nat
  BY DEF ProxyInv, HostTyped, HostHandler, TypeOK
<1>2. epoch' = epoch /\ (\A w \in Version : dir[w].body # None => dir'[w].body # None)
  BY OthersAlone
<1>3. ASSUME NEW pc, HostGoto(c, pc)
      PROVE  /\ host'[c].pc = pc /\ host'[c].version = v
             /\ host'[c].key = host[c].key /\ host'[c].proof = host[c].proof
  BY <1>1, <1>3 DEF HostGoto, HostTyped, HostHandler
\* A step that leaves the host neither waiting nor answered.
<1>4. ASSUME host'[c].version = v, host'[c].key = host[c].key,
             host'[c].pc \in {"idle", "download", "upload", "failed", "prove"},
             host'[c].pc \in {"download", "upload"} => v \in Version,
             host'[c].pc = "prove" /\ v # None => dir[v].body # None
      PROVE  HostOK(c)'
  BY <1>1, <1>2, <1>4 DEF HostOK, Waiting
<1>5. ASSUME NEW w \in Version \cup {None}, NEW k \in 1..epoch, Post(c, w, k)
      PROVE  HostOK(c)'
  <2>1. PICK pc \in {"failed", "prove", "health"} :
          /\ pc = "prove" => w = None
          /\ pc = "health" => w # None
          /\ host' = [host EXCEPT ![c] = [HostIdle EXCEPT !.pc = pc, !.version = w,
                                                          !.key = k]]
    BY <1>5 DEF Post
  <2>2. host'[c].pc = pc /\ host'[c].version = w /\ host'[c].key = k
    BY <1>1, <2>1 DEF HostTyped, HostIdle
  <2>3. QED BY <1>1, <1>2, <2>1, <2>2 DEF HostOK, Waiting
<1>6. CASE Health(c)
  <2>1. v \in Version
    BY <1>1, <1>6 DEF Health, HostAt, HostOK
  <2>2. PICK pc \in {"prove", "download"} :
          HostGoto(c, pc) /\ (pc = "prove" => hashes[v] # None)
    BY <1>6 DEF Health
  <2>3. pc = "prove" => dir[v].body # None
    BY <1>1, <2>1, <2>2 DEF KeptInv, ReportedIsInstalled
  <2>4. QED BY <1>3, <1>4, <2>1, <2>2, <2>3
<1>7. CASE Download(c)
  <2>1. v \in Version /\ HostGoto(c, "upload")
    BY <1>1, <1>7 DEF Download, HostAt, HostOK
  <2>2. QED BY <1>3, <1>4, <2>1
<1>8. CASE HostFail(c) \/ GiveUp(c)
  <2>1. HostGoto(c, "failed")
    BY <1>8 DEF HostFail, GiveUp
  <2>2. QED BY <1>3, <1>4, <2>1
<1>9. CASE CallUpload(c)
  <2>1. v \in Version /\ HostGoto(c, "uploading")
    BY <1>1, <1>9 DEF CallUpload, HostAt, HostOK
  <2>2. conn' = [conn EXCEPT ![c] = [Idle EXCEPT !.pc = "open", !.version = v,
                                                 !.body = Release[v]]]
    BY <1>9 DEF CallUpload, Upload
  <2>3. conn'[c].pc = "open" /\ conn'[c].version = v
    BY <1>1, <2>2 DEF TypeOK, Idle
  <2>4. UploadingOK(c)'
    BY <1>3, <2>1, <2>3 DEF UploadingOK, UploadPc
  <2>5. QED BY <1>1, <1>2, <1>3, <2>1, <2>3, <2>4 DEF HostOK, Waiting
<1>10. CASE CallProve(c)
  <2>1. /\ HostGoto(c, "proving") /\ host[c].pc = "prove"
        /\ sealed' = [sealed EXCEPT ![c] = host[c].key]
        /\ conn' = [conn EXCEPT ![c] = [Idle EXCEPT !.pc = "decrypt", !.version = v]]
    BY <1>10 DEF CallProve, Prove, HostAt
  <2>2. conn'[c].pc = "decrypt" /\ conn'[c].version = v
    BY <1>1, <2>1 DEF TypeOK, Idle
  <2>3. sealed'[c] = host[c].key
    BY <1>1, <2>1 DEF HostTyped
  <2>4. ProvingOK(c)'
    BY <1>3, <2>1, <2>2, <2>3 DEF ProvingOK, ProvePc
  <2>5. v # None /\ host[c].key = epoch => dir[v].body # None
    BY <1>1, <2>1 DEF HostOK
  <2>6. QED BY <1>1, <1>2, <1>3, <2>1, <2>2, <2>4, <2>5 DEF HostOK, Waiting
<1>11. CASE Return(c)
  <2>1. CASE host[c].pc \notin Waiting
    <3>1. host' = host
      BY <1>11, <2>1 DEF Return
    <3>2. QED BY <1>1, <1>2, <2>1, <3>1 DEF HostOK, Waiting
  <2>2. CASE HostAt(c, "uploading")
    <3>1. PICK pc \in {"prove", "failed"} :
            /\ pc = "prove" => conn[c].pc = "ok"
            /\ host' = [host EXCEPT ![c].pc = pc, ![c].proof = None]
      BY <1>11, <2>2 DEF Return, Reply, HostAt, Waiting
    <3>2. /\ host'[c].pc = pc /\ host'[c].version = v
          /\ host'[c].key = host[c].key
      BY <1>1, <3>1 DEF HostTyped, HostHandler
    <3>3. pc = "prove" => dir[v].body # None
      BY <1>1, <2>2, <3>1 DEF HostOK, HostAt, UploadingOK
    <3>4. QED BY <1>4, <3>2, <3>3
  <2>3. CASE HostAt(c, "proving")
    <3>1. PICK q :
            /\ conn[c].pc \in {"ok", "failed"}
            /\ conn[c].pc = "ok" => q = conn[c].body
            /\ host' = [host EXCEPT ![c].pc = conn[c].pc, ![c].proof = q]
      BY <1>11, <2>3 DEF Return, Reply, HostAt, Waiting
    <3>2. /\ host'[c].pc = conn[c].pc /\ host'[c].version = v
          /\ host'[c].key = host[c].key /\ host'[c].proof = q
      BY <1>1, <3>1 DEF HostTyped, HostHandler
    <3>3. conn[c].pc = "ok" /\ v # None => q = Release[v]
      BY <1>1, <2>3, <3>1 DEF HostOK, HostAt, ProvingOK
    <3>4. QED BY <1>1, <1>2, <3>1, <3>2, <3>3 DEF HostOK, Waiting
  <2>4. QED BY <2>1, <2>2, <2>3 DEF HostAt, Waiting
<1>12. CASE Answer(c)
  <2>1. host'[c] = HostIdle
    BY <1>1, <1>12 DEF Answer, HostTyped
  <2>2. QED BY <1>1, <1>2, <2>1 DEF HostOK, HostIdle, Waiting
<1>13. QED BY <1>5, <1>6, <1>7, <1>8, <1>9, <1>10, <1>11, <1>12 DEF HostWork

\* A restart of the enclave outdates every payload and ends every wait for it;
\* one of the host ends its requests.
LEMMA RestartKeeps ==
  ASSUME ProxyInv, EnclaveRestart \/ HostRestart, NEW c \in Conn
  PROVE  HostOK(c)'
<1>1. /\ HostOK(c) /\ host[c] \in HostHandler
      /\ epoch \in Nat /\ epoch > 0 /\ host[c].key \in Nat
  BY ProxyAssumption DEF ProxyInv, HostTyped, HostHandler
<1>2. CASE EnclaveRestart
  <2>1. /\ epoch' = epoch + 1
        /\ host'[c] = IF host[c].pc \in Waiting
                        THEN [host[c] EXCEPT !.pc = "failed"] ELSE host[c]
    BY <1>2 DEF EnclaveRestart, Severed
  <2>2. host[c].key # epoch' /\ host[c].key <= epoch'
    BY <1>1, <2>1 DEF HostOK
  <2>3. CASE host[c].pc \in Waiting
    <3>1. host'[c].pc = "failed" /\ host'[c].key = host[c].key
      BY <1>1, <2>1, <2>3 DEF HostHandler
    <3>2. QED BY <2>2, <3>1 DEF HostOK, Waiting
  <2>4. CASE host[c].pc \notin Waiting
    BY <1>1, <2>1, <2>2, <2>4 DEF HostOK, Waiting
  <2>5. QED BY <2>3, <2>4
<1>3. CASE HostRestart
  <2>1. host'[c] = HostIdle /\ epoch' = epoch
    BY <1>3 DEF HostRestart, EnclaveUnchanged
  <2>2. QED BY <1>1, <2>1 DEF HostOK, HostIdle, Waiting
<1>4. QED BY <1>2, <1>3

-----------------------------------------------------------------------------
LEMMA ProxyStep == ProxyInv /\ [ProxyNext]_proxyVars => ProxyInv'
<1>1. ASSUME ProxyInv, ProxyNext PROVE ProxyInv'
  <2>1. [Next]_vars
    BY <1>1, EnclaveStep
  <2>2. TypeOK' /\ KeptInv'
    BY <1>1, <2>1, TypeStep, KeptStep DEF ProxyInv
  <2>3. HostTyped' /\ ReleasedInv'
    BY <1>1, HostTypedStep, ReleasedStep
  <2>4. ASSUME NEW d \in Conn PROVE HostOK(d)'
    <3>1. CASE EnclaveRestart \/ HostRestart
      BY <1>1, <3>1, RestartKeeps
    <3>2. ASSUME NEW c \in Conn,
                 \/ \E v \in Version \cup {None}, k \in 1..epoch : Post(c, v, k)
                 \/ HostWork(c) \/ GiveUp(c) \/ Serve(c)
          PROVE  HostOK(d)'
      <4>1. CASE d = c
        BY <1>1, <3>2, <4>1, HostWorkKeeps, ServeKeeps
      <4>2. CASE d # c
        BY <1>1, <3>2, <4>2, OthersAlone, HostStays
      <4>3. QED BY <4>1, <4>2
    <3>3. QED BY <1>1, <3>1, <3>2 DEF ProxyNext
  <2>5. QED BY <2>2, <2>3, <2>4 DEF ProxyInv
<1>2. ASSUME ProxyInv, UNCHANGED proxyVars PROVE ProxyInv'
  BY <1>2 DEF ProxyInv, proxyVars, TypeOK, KeptInv, ReportedIsInstalled,
              ChosenIsInstalled, HostTyped, ReleasedInv, HostOK, UploadingOK,
              ProvingOK
<1>3. QED BY <1>1, <1>2

LEMMA ProxyStart == ProxyInit => ProxyInv
<1> SUFFICES ASSUME ProxyInit PROVE ProxyInv
  OBVIOUS
<1> USE EnclaveAssumption, ProxyAssumption
<1>1. TypeOK
  BY IdleTyped DEF ProxyInit, Init, TypeOK, Content, Idle, UploadPc
<1>2. KeptInv
  BY DEF ProxyInit, Init, KeptInv, ReportedIsInstalled, ChosenIsInstalled, Idle
<1>3. HostTyped
  BY DEF ProxyInit, HostTyped, HostIdle, HostHandler, Content
<1>4. ReleasedInv
  BY DEF ProxyInit, Init, ReleasedInv, NoFile, Idle, UploadPc
<1>5. \A c \in Conn : HostOK(c)
  BY DEF ProxyInit, HostOK, HostIdle, Waiting
<1>6. QED BY <1>1, <1>2, <1>3, <1>4, <1>5 DEF ProxyInv

LEMMA ProxyAlways == ProxySpec => []ProxyInv
BY ProxyStart, ProxyStep, PTL DEF ProxySpec

\* Every variable keeps its type, and a host that waits waits for its own call.
THEOREM ProxyTypes == ProxySpec => []ProxyTypeOK
<1>1. ProxyInv => ProxyTypeOK
  BY DEF ProxyInv, HostTyped, HostOK, ProxyTypeOK
<1>2. QED BY <1>1, ProxyAlways, PTL

\* However requests, overlapping uploads, restarts of either side and timeouts
\* interleave, a proof answered for a version is by the bb released for it.
THEOREM ProofsAreByRelease == ProxySpec => []ProofIsByRelease
<1>1. ProxyInv => ProofIsByRelease
  BY DEF ProxyInv, HostOK, HostAt, ProofIsByRelease
<1>2. QED BY <1>1, ProxyAlways, PTL

\* A readable prove is only forwarded for a version the enclave has.
THEOREM ForwardedStaysInstalled == ProxySpec => []ForwardedIsInstalled
<1>1. ProxyInv => ForwardedIsInstalled
  BY DEF ProxyInv, HostOK, ForwardedIsInstalled
<1>2. QED BY <1>1, ProxyAlways, PTL

\* The host drives the enclave through the enclave's own operations only: what
\* is proved of the enclave alone holds of it behind the host.
THEOREM ProxyUsesEnclave == ProxySpec => Init /\ [][Next]_vars
<1>1. ProxyInit => Init
  BY DEF ProxyInit
<1>2. ProxyInv /\ [ProxyNext]_proxyVars => [Next]_vars
  BY EnclaveStep DEF proxyVars, vars
<1>3. QED BY <1>1, <1>2, ProxyAlways, PTL DEF ProxySpec
=============================================================================
