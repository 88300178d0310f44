----------------------------- MODULE TeeRexProver -----------------------------
(***************************************************************************)
(* The SDK's prover (packages/sdk/src/lib/tee-rex-prover.ts): its mode and *)
(* its settings, which the application may change at any time, and the     *)
(* proofs it is asked for, which read them again after each await.         *)
(*                                                                         *)
(* Servers restart, and make a new key pair when they do.  A server        *)
(* answers GET /attestation with a public key and, if it says it is an     *)
(* enclave, a document.  Whose key it sends, and which document, is its    *)
(* affair: a host passes on those of its enclave, maybe older ones.        *)
(***************************************************************************)
EXTENDS NitroAttestation, FiniteSets

CONSTANTS
  Call,        \* calls of createChonkProof, concurrent ones included
  Offer,       \* Offer[u]: the documents u may answer with; None: standard mode
  MaxKey,      \* bound: key pairs of a server
  MaxDelay,    \* bound: age at which a document is looked at
  None

\* Key pairs, by the server that has the private half.
Key == Url \X (1..MaxKey)

ASSUME ProverAssumption ==
  /\ NitroAssumption
  /\ Offer \in [Url -> SUBSET (Document \cup {None})]
  /\ MaxKey \in Nat \ {0} /\ MaxDelay \in Nat
  /\ None \notin Url \cup Key \cup Document

VARIABLES
  settings,   \* #provingMode, #apiUrl, #attestationConfig; can x509 run here?
  server,     \* server[u]: the number of u's current key pair
  call        \* call[c]: position, locals and history of the call

vars == <<settings, server, call>>

\* Limit of ky's retry option: the calls it makes beyond the first.
Retries == 2

\* require, listed: requireAttestation, and whether expectedPCRs are given.
\* crypto is not a setting but where the SDK runs.
Settings == [mode : {"local", "uee"}, url : Url \cup {None},
             require : BOOLEAN, listed : BOOLEAN, crypto : BOOLEAN]

\* url: where /attestation is asked for.  tries: of that request, those that
\* failed for a passing reason.  doc, carried, body: its answer, that is the
\* document, the key in it, and the key beside it.  key: what the inputs are
\* encrypted to.  History: age: of the document when it was looked at.
\* require, listed: in force all through the call?  sentTo: where the inputs went.
CallState ==
  [pc : {"idle", "local", "fetch", "check", "encrypt", "post",
         "ok", "failed", "unreachable"},
   url : Url \cup {None}, tries : 0..Retries + 1,
   doc : Document \cup {None}, carried : Key \cup {None}, body : Key \cup {None},
   key : Key \cup {None}, age : 0..MaxDelay,
   require : BOOLEAN, listed : BOOLEAN, sentTo : Url \cup {None}]

Idle == [pc |-> "idle", url |-> None, tries |-> 0, doc |-> None,
         carried |-> None, body |-> None, key |-> None, age |-> 0,
         require |-> FALSE, listed |-> FALSE, sentTo |-> None]

TypeOK ==
  /\ settings \in Settings
  /\ server \in [Url -> 1..MaxKey]
  /\ call \in [Call -> CallState]

\* The constructor: "tee" is short for "uee" that requires an attestation.
Init ==
  /\ settings \in {s \in Settings : /\ s.mode = "uee" => s.url # None
                                    /\ s.mode = "local" => ~s.require /\ ~s.listed}
  /\ server = [u \in Url |-> 1]
  /\ call = [c \in Call |-> Idle]

At(c, pc) == call[c].pc = pc
Goto(c, pc) == call' = [call EXCEPT ![c].pc = pc]

-----------------------------------------------------------------------------
(* The application's calls *)

Configure(new) ==
  /\ settings' = new
  /\ call' = [c \in Call |-> [call[c] EXCEPT
       !.require = @ /\ new.require, !.listed = @ /\ new.listed]]
  /\ UNCHANGED server

Uee(u, require, listed) == Configure([settings EXCEPT
  !.mode = "uee", !.url = u, !.require = require, !.listed = listed])

\* setProvingMode.  A url that is not given stays as it is; "local" drops the
\* attestation config, "uee" keeps the one there is unless it is given another,
\* and "tee" is "uee" with one that requires an attestation.
SetProvingMode ==
  \/ Configure([settings EXCEPT !.mode = "local", !.require = FALSE, !.listed = FALSE])
  \/ \E u \in Url \cup {settings.url} :
       \/ Uee(u, settings.require, settings.listed)
       \/ \E require, listed \in BOOLEAN : Uee(u, require, listed)

SetApiUrl(u) == Configure([settings EXCEPT !.url = u])

SetAttestationConfig(require, listed) ==
  Configure([settings EXCEPT !.require = require, !.listed = listed])

\* createChonkProof looks at the mode and the url, and asks for /attestation.
CreateChonkProof(c) ==
  /\ At(c, "idle")
  /\ call' = [call EXCEPT ![c] = [Idle EXCEPT
       !.pc = IF settings.mode = "local" THEN "local"
              ELSE IF settings.url = None THEN "failed" ELSE "fetch",
       !.url = settings.url, !.require = settings.require,
       !.listed = settings.listed]]
  /\ UNCHANGED <<settings, server>>

-----------------------------------------------------------------------------
(* The steps of a proof *)

ProveLocally(c) ==
  /\ At(c, "local")
  /\ \E pc \in {"ok", "failed"} : Goto(c, pc)
  /\ UNCHANGED <<settings, server>>

\* The answer of u: a document or none, and a key, which it has or has got from
\* another server, and which may be of before a restart.
Answered(c, u) ==
  LET Made == {key \in Key : key[2] <= server[key[1]]} IN
  \E doc \in Offer[u], body \in Made :
    \E carried \in IF doc = None THEN {None} ELSE {key \in Made : key[1] = doc.of} :
      call' = [call EXCEPT ![c].pc = "check", ![c].url = None, ![c].tries = 0,
                 ![c].doc = doc, ![c].carried = carried, ![c].body = body]

Fetch_Forever(c) ==     \* mutant: the count of retries starts over
  /\ At(c, "fetch")
  /\ \/ Answered(c, call[c].url)
     \/ Goto(c, "failed")
     \/ call' = [call EXCEPT ![c].tries = IF @ < Retries THEN @ + 1 ELSE 0]
  /\ UNCHANGED <<settings, server>>

\* GET /attestation of the url read at the start: ky tries again, at most
\* Retries times, after a passing failure, and gives up after another one.
Fetch(c) ==
  /\ At(c, "fetch")
  /\ \/ Answered(c, call[c].url)
     \/ Goto(c, "failed")
     \/ call' = [call EXCEPT
          ![c].tries = @ + 1,
          ![c].pc = IF call[c].tries < Retries THEN "fetch" ELSE "unreachable"]
  /\ UNCHANGED <<settings, server>>

\* Under the settings of the moment: a server that is no enclave is refused
\* where attestation is required; a document is always verified, as far as that
\* can be done here, when its server's word is taken for the rest.
Accepted(doc, age) ==
  IF doc = None THEN ~settings.require
  ELSE IF settings.crypto THEN Verified(doc, age, settings.listed)
  ELSE WellFormed(doc)

Take(c, key) == \E age \in 0..MaxDelay :
  IF Accepted(call[c].doc, age)
  THEN call' = [call EXCEPT ![c].pc = "encrypt", ![c].key = key, ![c].age = age,
                            ![c].carried = None, ![c].body = None]
  ELSE Goto(c, "failed")

Check_BodyKey(c) ==     \* mutant: the answer's key, whatever was verified
  /\ At(c, "check")
  /\ Take(c, call[c].body)
  /\ UNCHANGED <<settings, server>>

\* Of an answer that is accepted, the key in the document where that was
\* verified, and the one beside it otherwise.
Check(c) ==
  /\ At(c, "check")
  /\ Take(c, IF call[c].doc # None /\ settings.crypto THEN call[c].carried
             ELSE call[c].body)
  /\ UNCHANGED <<settings, server>>

\* Encrypted, the inputs are posted to what is the url by now.
Encrypt(c) ==
  /\ At(c, "encrypt")
  /\ call' = [call EXCEPT ![c].pc = "post", ![c].sentTo = settings.url]
  /\ UNCHANGED <<settings, server>>

\* POST /prove: only the owner of the key can read the inputs, and only until
\* its next restart.  ky's retry option does not extend to POST.
Post(c) ==
  /\ At(c, "post")
  /\ \E pc \in {"ok", "failed", "unreachable"} :
       /\ pc = "ok" => call[c].key = <<call[c].sentTo, server[call[c].sentTo]>>
       /\ Goto(c, pc)
  /\ UNCHANGED <<settings, server>>

Settle(c) ==
  /\ call[c].pc \in {"ok", "failed", "unreachable"}
  /\ call' = [call EXCEPT ![c] = Idle]
  /\ UNCHANGED <<settings, server>>

ServerRestart(u) ==
  /\ server[u] < MaxKey
  /\ server' = [server EXCEPT ![u] = @ + 1]
  /\ UNCHANGED <<settings, call>>

Work(c) ==
  \/ ProveLocally(c) \/ Fetch(c) \/ Check(c) \/ Encrypt(c) \/ Post(c)
  \/ Settle(c)

Next ==
  \/ SetProvingMode
  \/ \E u \in Url : SetApiUrl(u) \/ ServerRestart(u)
  \/ \E require, listed \in BOOLEAN : SetAttestationConfig(require, listed)
  \/ \E c \in Call : CreateChonkProof(c) \/ Work(c)

\* Requests end (ky and the network time out), and so do local proofs.
Spec == Init /\ [][Next]_vars /\ \A c \in Call : WF_vars(Work(c))

-----------------------------------------------------------------------------
\* What requiring an attestation has made sure of: where documents can be
\* verified, a key AWS certifies has lately signed one with this very key in it,
\* and the key is of the released code where its measurements were asked for.
Attested(k, crypto) ==
  /\ k.doc # None
  /\ crypto => /\ k.doc.signer \in Authentic /\ k.age <= MaxAge + Skew
               /\ k.key # None /\ k.key[1] = k.doc.of
               /\ k.listed => k.key[1] \in Released

\* As long as an attestation was required all through a proof, whatever else was
\* changed under it, the url it is posted to included, its inputs only left
\* encrypted to an attested key: not to one the server sent beside an attested
\* document.  Where documents cannot be verified, a server said it is an enclave.
RequiredIsAttested ==
  \A c \in Call : call[c].sentTo # None /\ call[c].require
                    => Attested(call[c], settings.crypto)

\* Every proof that was asked for is delivered or fails.
EveryCallSettles == \A c \in Call : ~At(c, "idle") ~> At(c, "idle")
=============================================================================
