------------------------------ MODULE ProxyProve ------------------------------
(***************************************************************************)
(* POST /prove from the client to the bb process and back, in proxy mode:  *)
(* the host's handler (handleProxyProve in packages/server/src/index.ts)   *)
(* asks the enclave which versions it has, downloads and uploads a missing *)
(* one and forwards the payload; the enclave is module EnclaveVersions.    *)
(* The two run in different processes and talk HTTP over a vsock bridge.   *)
(*                                                                         *)
(* The enclave makes a key pair at each start and forgets its binaries at  *)
(* each stop, so one number, its epoch, stands for both.  Connection c of  *)
(* the enclave serves the calls of the host's handler c.                   *)
(***************************************************************************)
EXTENDS EnclaveVersions

CONSTANTS
  Release,    \* Release[v]: the bb binary published for version v
  MaxEpoch    \* bound: starts of the enclave considered

ASSUME ProxyAssumption ==
  /\ Release \in [Version -> Binary]
  /\ MaxEpoch \in Nat \ {0}

VARIABLES
  epoch,      \* which start of the enclave this is
  host,       \* host[c]: the host's handler: position and locals
  sealed      \* sealed[c]: the epoch whose key the payload at c is encrypted to

proxyVars == <<tmp, dir, hashes, conn, met, epoch, host, sealed>>

Waiting == {"uploading", "proving"}

\* version, key: of the client's request.  proof: which binary made its proof.
HostHandler ==
  [pc : Waiting \cup {"idle", "health", "download", "upload", "prove",
                      "ok", "failed"},
   version : Version \cup {None}, key : 0..MaxEpoch, proof : Content]

HostIdle == [pc |-> "idle", version |-> None, key |-> 0, proof |-> None]

\* A host that waits for the enclave waits for its own call.
ProxyTypeOK ==
  /\ TypeOK
  /\ epoch \in 1..MaxEpoch
  /\ host \in [Conn -> HostHandler]
  /\ sealed \in [Conn -> 0..MaxEpoch]
  /\ \A c \in Conn :
       host[c].pc \in Waiting => /\ conn[c].pc # "idle"
                                 /\ conn[c].version = host[c].version

ProxyInit ==
  /\ Init
  /\ epoch = 1
  /\ host = [c \in Conn |-> HostIdle]
  /\ sealed = [c \in Conn |-> 0]

HostAt(c, pc) == host[c].pc = pc
HostGoto(c, pc) == host' = [host EXCEPT ![c].pc = pc]

EnclaveUnchanged == UNCHANGED <<tmp, dir, hashes, conn, met, epoch, sealed>>

-----------------------------------------------------------------------------
\* A request past the rate limiter.  Its payload was encrypted earlier, to the
\* key of this epoch or a former one; a malformed body answers 400.
Post(c, v, k) ==
  /\ HostAt(c, "idle")
  /\ conn[c].pc = "idle"
  /\ k \in 1..epoch
  /\ \E pc \in {"failed", IF v = None THEN "prove" ELSE "health"} :
       host' = [host EXCEPT ![c] = [HostIdle EXCEPT !.pc = pc, !.version = v,
                                                    !.key = k]]
  /\ EnclaveUnchanged

\* The enclave's answer to GET /health decides how the host goes on: its next
\* step comes later, when the answer may no longer be true.
Health(c) ==
  /\ HostAt(c, "health")
  /\ HostGoto(c, IF hashes[host[c].version] # None THEN "prove" ELSE "download")
  /\ EnclaveUnchanged

\* downloadBb, and uploadBb's reading of the file.
Download(c) ==
  /\ HostAt(c, "download")
  /\ HostGoto(c, "upload")
  /\ EnclaveUnchanged

\* The enclave cannot be reached, /health takes longer than 5 s, a download
\* fails: the exception answers 500.
HostFail(c) ==
  /\ host[c].pc \in {"health", "download", "upload", "prove"}
  /\ HostGoto(c, "failed")
  /\ EnclaveUnchanged

CallUpload(c) ==
  /\ HostAt(c, "upload")
  /\ Upload(c, host[c].version, Release[host[c].version])
  /\ HostGoto(c, "uploading")
  /\ UNCHANGED <<epoch, sealed>>

CallProve_NoVersion(c) ==      \* mutant: x-aztec-version is not forwarded
  /\ HostAt(c, "prove")
  /\ Prove(c, None)
  /\ HostGoto(c, "proving")
  /\ sealed' = [sealed EXCEPT ![c] = host[c].key]
  /\ UNCHANGED epoch

CallProve(c) ==
  /\ HostAt(c, "prove")
  /\ Prove(c, host[c].version)
  /\ HostGoto(c, "proving")
  /\ sealed' = [sealed EXCEPT ![c] = host[c].key]
  /\ UNCHANGED epoch

Return_IgnoresStatus(c) ==     \* mutant: res.ok of uploadBb is not looked at
  /\ Reply(c)
  /\ IF host[c].pc \in Waiting
       THEN host' = [host EXCEPT
              ![c].pc = IF HostAt(c, "uploading") THEN "prove" ELSE conn[c].pc,
              ![c].proof = IF HostAt(c, "proving") /\ conn[c].pc = "ok"
                             THEN conn[c].body ELSE None]
       ELSE UNCHANGED host
  /\ UNCHANGED <<epoch, sealed>>

\* The enclave's response; nobody waits for it if the host gave up meanwhile.
Return(c) ==
  /\ Reply(c)
  /\ IF host[c].pc \in Waiting
       THEN host' = [host EXCEPT
              ![c].pc = IF HostAt(c, "uploading") /\ conn[c].pc = "ok"
                          THEN "prove" ELSE conn[c].pc,
              ![c].proof = IF HostAt(c, "proving") /\ conn[c].pc = "ok"
                             THEN conn[c].body ELSE None]
       ELSE UNCHANGED host
  /\ UNCHANGED <<epoch, sealed>>

\* The host's fetch fails or times out while the enclave goes on working.
GiveUp(c) ==
  /\ host[c].pc \in Waiting
  /\ HostGoto(c, "failed")
  /\ EnclaveUnchanged

Answer(c) ==
  /\ host[c].pc \in {"ok", "failed"}
  /\ host' = [host EXCEPT ![c] = HostIdle]
  /\ EnclaveUnchanged

-----------------------------------------------------------------------------
\* One await to the next in the enclave; lazyValue has made its keys by then.
Serve(c) ==
  /\ \/ OpenTmp(c) \/ FinishWrite(c) \/ FailWrite(c) \/ Install(c)
     \/ HashInstalled(c) \/ Report(c)
     \/ Decrypt(c, sealed[c] = epoch)
     \/ Choose(c) \/ Spawn(c) \/ Exit(c)
  /\ UNCHANGED <<epoch, host, sealed>>

\* Connections break when the enclave stops, so the host's calls throw.
Severed == [c \in Conn |-> IF host[c].pc \in Waiting
                             THEN [host[c] EXCEPT !.pc = "failed"]
                             ELSE host[c]]

EnclaveRestart_KeepsKey ==       \* mutant: the key pair outlives the enclave
  /\ epoch < MaxEpoch
  /\ Restart
  /\ host' = Severed
  /\ UNCHANGED <<epoch, sealed>>

EnclaveRestart_Unnoticed ==      \* mutant: a broken connection is not noticed
  /\ epoch < MaxEpoch
  /\ Restart
  /\ epoch' = epoch + 1
  /\ UNCHANGED <<host, sealed>>

EnclaveRestart ==
  /\ epoch < MaxEpoch
  /\ Restart
  /\ epoch' = epoch + 1
  /\ host' = Severed
  /\ UNCHANGED sealed

HostRestart ==
  /\ host' = [c \in Conn |-> HostIdle]
  /\ EnclaveUnchanged

HostWork(c) ==
  \/ Health(c) \/ Download(c) \/ HostFail(c)
  \/ CallUpload(c) \/ CallProve(c) \/ Return(c) \/ Answer(c)

ProxyNext ==
  \/ EnclaveRestart
  \/ HostRestart
  \/ \E c \in Conn :
       \/ \E v \in Version \cup {None}, k \in 1..epoch : Post(c, v, k)
       \/ HostWork(c)
       \/ GiveUp(c)
       \/ Serve(c)

\* Both event loops run what is ready.  The host need not ever give up.
ProxySpec ==
  /\ ProxyInit
  /\ [][ProxyNext]_proxyVars
  /\ \A c \in Conn : WF_proxyVars(HostWork(c)) /\ WF_proxyVars(Serve(c))

-----------------------------------------------------------------------------
\* A proof answered for a version was made by the bb released for it: never by
\* the enclave's default bb, though findBb falls back to that one and the
\* enclave may have lost the version since its health response.
ProofIsByRelease ==
  \A c \in Conn : HostAt(c, "ok") /\ host[c].version # None
                    => host[c].proof = Release[host[c].version]

\* A prove is never forwarded for a version the enclave, if it is the one that
\* can read the payload, does not have.
ForwardedIsInstalled ==
  \A c \in Conn :
    host[c].pc \in {"prove", "proving"} /\ host[c].version # None
      /\ host[c].key = epoch
      => dir[host[c].version].body # None

\* The client gets an answer whatever becomes of the enclave.
EveryPostAnswered == \A c \in Conn : ~HostAt(c, "idle") ~> HostAt(c, "idle")
=============================================================================
