----------------------------- MODULE VersionCache -----------------------------
(***************************************************************************)
(* The cache of bb versions of a host in standard mode: the script that    *)
(* fills it and evicts old versions (scripts/download-bb.ts), run by hand, *)
(* and the server that proves with what it finds there                     *)
(* (packages/server/src/index.ts, lib/prover-service.ts).  They share      *)
(* nothing but the directory.  BbDownload is the other way to fill it.     *)
(*                                                                         *)
(* A version is its place in the order of strings, the one versions are    *)
(* sorted in.  tar unlinks the bb it finds before it writes its own.       *)
(***************************************************************************)
EXTENDS Naturals, Sequences, FiniteSets

CONSTANTS
  Version,
  Nightly, Testnet,            \* classifyVersion; the others are mainnet's
  NightlyLimit, TestnetLimit,  \* RETENTION_LIMITS
  Script,                      \* runs of the script
  Connection,                  \* requests under way
  MaxArgs,                     \* bound: versions a script is given
  Default,                     \* the bb found when the server started
  None

ASSUME CacheAssumption ==
  /\ Version \subseteq Nat
  /\ Nightly \subseteq Version /\ Testnet \subseteq Version \ Nightly
  /\ NightlyLimit \in Nat \ {0} /\ TestnetLimit \in Nat \ {0} /\ MaxArgs \in Nat \ {0}
  /\ Default \notin Version /\ None \notin Version
  /\ Script \cap {"none", "whole", "broken"} = {}

VARIABLES
  file,     \* file[v]: what {v}/bb is, or the script whose tar writes it
  script,   \* script[s]: position, versions ahead, versions to evict
  job,      \* job[c]: position, and the bb it has chosen
  torn,     \* history: has a script been interrupted, or met another?
  unswept   \* history: was one interrupted after the last listing?

vars == <<file, script, job, torn, unswept>>

Idle == [pc |-> "idle", todo |-> <<>>, evict |-> {}]
Free == [pc |-> "idle", bb |-> None]

Init ==
  /\ file = [v \in Version |-> "none"]
  /\ script = [s \in Script |-> Idle]
  /\ job = [c \in Connection |-> Free]
  /\ torn = FALSE /\ unswept = FALSE

Listed == {v \in Version : file[v] # "none"}

Running == {s \in Script : script[s].pc # "idle"}

-----------------------------------------------------------------------------
(* The script: its versions, one after the other *)

Begin(s, args) ==
  /\ script[s] = Idle
  /\ script' = [script EXCEPT ![s] = [Idle EXCEPT !.pc = "look", !.todo = args]]
  /\ torn' = (torn \/ Running # {})
  /\ UNCHANGED <<file, job, unswept>>

At(s, pc) == script[s].pc = pc
Go(s, pc) == script' = [script EXCEPT ![s].pc = pc]
Current(s) == Head(script[s].todo)

\* On with the next version; what was thrown for this one is caught.
NextVersion(scripts, s) ==
  LET left == Tail(scripts[s].todo) IN
    [scripts EXCEPT ![s].pc = IF left = <<>> THEN "list" ELSE "look", ![s].todo = left]

Look(s) ==
  /\ At(s, "look")
  /\ \/ Current(s) \in Listed /\ script' = NextVersion(script, s)
     \/ Current(s) \notin Listed /\ Go(s, "fetch")
  /\ UNCHANGED <<file, job, torn, unswept>>

\* The download fails, or the directory is made and tar started, which fails at
\* once or opens its bb.
Fetch(s) ==
  /\ At(s, "fetch")
  /\ \/ script' = NextVersion(script, s) /\ UNCHANGED file
     \/ Go(s, "failed") /\ UNCHANGED file
     \/ Go(s, "writing") /\ file' = [file EXCEPT ![Current(s)] = s]
  /\ UNCHANGED <<job, torn, unswept>>

Remove(v) == file' = [file EXCEPT ![v] = "none"]

Leave(s, content) ==
  file' = IF file[Current(s)] = s THEN [file EXCEPT ![Current(s)] = content] ELSE file

TarSucceeds(s) ==
  /\ At(s, "writing")
  /\ Leave(s, "whole") /\ Go(s, "succeeded")
  /\ UNCHANGED <<job, torn, unswept>>

TarFails(s) ==
  /\ At(s, "writing")
  /\ Leave(s, "broken") /\ Go(s, "failed")
  /\ UNCHANGED <<job, torn, unswept>>

Exited_Ends(s) ==   \* mutant: a failed version ends the script
  /\ script[s].pc \in {"succeeded", "failed"}
  /\ \/ At(s, "succeeded") /\ Current(s) \in Listed
        /\ script' = NextVersion(script, s) /\ UNCHANGED file
     \/ /\ At(s, "failed") \/ Current(s) \notin Listed
        /\ Remove(Current(s)) /\ script' = [script EXCEPT ![s] = Idle]
  /\ UNCHANGED <<job, torn, unswept>>

Exited_Keeps(s) ==   \* mutant: what a failed tar has written is not removed
  /\ script[s].pc \in {"succeeded", "failed"}
  /\ script' = NextVersion(script, s)
  /\ UNCHANGED <<file, job, torn, unswept>>

Exited(s) ==
  /\ script[s].pc \in {"succeeded", "failed"}
  /\ \/ At(s, "succeeded") /\ Current(s) \in Listed
        /\ script' = NextVersion(script, s) /\ UNCHANGED file
     \/ /\ At(s, "failed") \/ Current(s) \notin Listed
        /\ Remove(Current(s)) /\ script' = NextVersion(script, s)
  /\ UNCHANGED <<job, torn, unswept>>

-----------------------------------------------------------------------------
(* Retention *)

Newer(v, versions) == {w \in versions : w > v}

Beyond_OffByOne(tier, limit) ==   \* mutant: while (sorted.length >= limit)
  {v \in Listed \cap tier : Cardinality(Newer(v, Listed \cap tier)) >= limit - 1}

\* Those shifted off the sorted list of a tier.
Beyond(tier, limit) ==
  {v \in Listed \cap tier : Cardinality(Newer(v, Listed \cap tier)) >= limit}

List(s) ==
  /\ At(s, "list")
  /\ script' = [script EXCEPT ![s].pc = "evict",
       ![s].evict = Beyond(Nightly, NightlyLimit) \cup Beyond(Testnet, TestnetLimit)]
  /\ unswept' = FALSE
  /\ UNCHANGED <<file, job, torn>>

Evict(s) ==
  /\ At(s, "evict")
  /\ \/ \E v \in script[s].evict :
          Remove(v) /\ script' = [script EXCEPT ![s].evict = @ \ {v}]
     \/ script[s].evict = {} /\ script' = [script EXCEPT ![s] = Idle] /\ UNCHANGED file
  /\ UNCHANGED <<job, torn, unswept>>

\* With the script goes its tar, which may have had all of its input.
Interrupt(s) ==
  /\ script[s].pc # "idle"
  /\ script' = [script EXCEPT ![s] = Idle]
  /\ \/ At(s, "writing") /\ \E content \in {"broken", "whole"} : Leave(s, content)
     \/ ~At(s, "writing") /\ UNCHANGED file
  /\ torn' = TRUE /\ unswept' = TRUE
  /\ UNCHANGED job

-----------------------------------------------------------------------------
(* The server *)

Post(c) ==
  /\ job[c] = Free
  /\ job' = [job EXCEPT ![c].pc = "decrypt"]
  /\ UNCHANGED <<file, script, torn, unswept>>

Answer(c) == job' = [job EXCEPT ![c] = Free]

\* A body that is malformed or cannot be decrypted is refused.  Without
\* x-aztec-version, or with one that is not cached, it is the default bb.
Decrypt(c) ==
  /\ job[c].pc = "decrypt"
  /\ \/ Answer(c)
     \/ \E bb \in Listed \cup {Default} :
          job' = [job EXCEPT ![c] = [pc |-> "spawn", bb |-> bb]]
  /\ UNCHANGED <<file, script, torn, unswept>>

Spawn_NoCatch(c) ==   \* mutant: a bb that has gone is not noticed
  /\ job[c].pc = "spawn" /\ job[c].bb \in Listed \cup {Default}
  /\ \/ job' = [job EXCEPT ![c] = [pc |-> "bb", bb |-> None]]
     \/ job[c].bb # Default /\ file[job[c].bb] \notin {"whole", "none"} /\ Answer(c)
  /\ UNCHANGED <<file, script, torn, unswept>>

\* Awaits after findBb.  A bb that has gone, or is not whole, cannot be spawned.
Spawn(c) ==
  /\ job[c].pc = "spawn"
  /\ \/ /\ job[c].bb \in Listed \cup {Default}
        /\ job' = [job EXCEPT ![c] = [pc |-> "bb", bb |-> None]]
     \/ job[c].bb # Default /\ file[job[c].bb] # "whole" /\ Answer(c)
  /\ UNCHANGED <<file, script, torn, unswept>>

Exit(c) ==
  /\ job[c].pc = "bb" /\ Answer(c)
  /\ UNCHANGED <<file, script, torn, unswept>>

-----------------------------------------------------------------------------

\* Bound: versions are given once and in order.  One given again is cached.
Args == {args \in UNION {[1..n -> Version] : n \in 1..MaxArgs} :
           \A i, j \in DOMAIN args : i < j => args[i] < args[j]}

Download(s) ==
  \/ Look(s) \/ Fetch(s) \/ TarSucceeds(s) \/ TarFails(s) \/ Exited(s)
  \/ List(s) \/ Evict(s)

Serve(c) == Decrypt(c) \/ Spawn(c) \/ Exit(c)

Next ==
  \/ \E s \in Script : (\E args \in Args : Begin(s, args)) \/ Download(s) \/ Interrupt(s)
  \/ \E c \in Connection : Post(c) \/ Serve(c)

\* The server goes on, and bb ends.
Spec == Init /\ [][Next]_vars /\ \A c \in Connection : WF_vars(Serve(c))

-----------------------------------------------------------------------------
(* Properties *)

\* What /health lists, and a prove is made with, is a complete binary unless a
\* tar is writing it: scripts that run one at a time to their end leave nothing
\* partial behind that the next would take for cached.
AvailableIsWhole ==
  ~torn => \A v \in Listed : file[v] = "whole" \/ \E s \in Script :
                                script[s].pc \in {"writing", "failed"} /\ Current(s) = v

\* A complete binary goes only when its tier has its number of newer ones,
\* complete too, as long as no script is interrupted or meets another.
WholeIsKept ==
  [][\A v \in Version : file[v] = "whole" /\ file'[v] # "whole" /\ ~torn' =>
       LET whole == {w \in Version : file[w] = "whole"} IN
         /\ v \in Nightly \cup Testnet
         /\ v \in Nightly => Cardinality(Newer(v, whole \cap Nightly)) >= NightlyLimit
         /\ v \in Testnet => Cardinality(Newer(v, whole \cap Testnet)) >= TestnetLimit]_vars

\* Once all scripts have ended no tier is beyond its limit, whatever they failed
\* to download, however they overlapped and whatever those before them left,
\* unless one was interrupted after the last listing.
TiersAreBounded ==
  Running = {} /\ ~unswept =>
    /\ Cardinality(Listed \cap Nightly) <= NightlyLimit
    /\ Cardinality(Listed \cap Testnet) <= TestnetLimit

\* Every POST /prove is answered though its bb may be evicted under it.
EveryProveAnswered == \A c \in Connection : job[c] # Free ~> job[c] = Free
=============================================================================
