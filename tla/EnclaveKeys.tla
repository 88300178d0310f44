------------------------------ MODULE EnclaveKeys ------------------------------
(***************************************************************************)
(* What the server process makes once, on first use, and shares among its  *)
(* handlers: the key pair (EncryptionService over lazyValue) and, in an    *)
(* enclave, the handle of libnsm.so (getNsmLib).  Handlers run from one    *)
(* await to the next, so several may meet a value that is being made.      *)
(* packages/server/src/lib/{utils,encryption-service,attestation-service}. *)
(***************************************************************************)
EXTENDS Naturals, FiniteSets

CONSTANTS
  Conn,      \* connections, each served by one handler at a time
  Nitro,     \* is this an enclave, whose attestations need libnsm.so?
  MaxKeys,   \* bound: key pairs considered
  MaxOpens   \* bound: dlopen calls considered

ASSUME KeysAssumption ==
  /\ IsFiniteSet(Conn)
  /\ Nitro \in BOOLEAN
  /\ MaxKeys \in Nat \ {0}
  /\ MaxOpens \in Nat

VARIABLES
  keys,      \* #keys: was fn called, and what became of its promise
  made,      \* how many times generateKeys was called
  lib,       \* nsmLib: which dlopen it holds the handle of, 0 for undefined
  opened,    \* how many handles dlopen has returned; none is ever closed
  req,       \* req[c]: the handler's position and what it was given
  handed     \* the key pairs whose public key was put into an answer

keysVars == <<keys, made, lib, opened, req, handed>>

Kind == {"public-key", "attestation", "decrypt"}

\* initialized: of lazyValue.  pair: the key pair its promise is of.
Lazy == [initialized : BOOLEAN, promise : {"none", "pending", "kept", "broken"},
         pair : 0..MaxKeys]

Handler == [pc : {"idle", "keys", "import", "dlopen", "document", "ok", "failed"},
            kind : Kind, pair : 0..MaxKeys]

Idle == [pc |-> "idle", kind |-> "public-key", pair |-> 0]

KeysTypeOK ==
  /\ keys \in Lazy
  /\ made \in 0..MaxKeys
  /\ lib \in 0..opened
  /\ opened \in 0..MaxOpens
  /\ req \in [Conn -> Handler]
  /\ handed \subseteq 1..made

KeysInit ==
  /\ keys = [initialized |-> FALSE, promise |-> "none", pair |-> 0]
  /\ made = 0
  /\ lib = 0
  /\ opened = 0
  /\ req = [c \in Conn |-> Idle]
  /\ handed = {}

At(c, pc) == req[c].pc = pc
Goto(c, pc) == req' = [req EXCEPT ![c].pc = pc]

-----------------------------------------------------------------------------
LazyKeys_LateFlag ==     \* mutant: initialized is set when the value is there
  IF keys.promise = "kept"
    THEN UNCHANGED <<keys, made>>
    ELSE /\ made < MaxKeys
         /\ made' = made + 1
         /\ keys' = [initialized |-> FALSE, promise |-> "pending",
                     pair |-> made + 1]

\* this.#keys(): the first call starts generateKeys, all share its promise.
LazyKeys ==
  IF keys.initialized
    THEN UNCHANGED <<keys, made>>
    ELSE /\ made < MaxKeys
         /\ made' = made + 1
         /\ keys' = [initialized |-> TRUE, promise |-> "pending",
                     pair |-> made + 1]

\* A request that needs a key: the handler awaits the promise it was given.
Ask(c, kind) ==
  /\ At(c, "idle")
  /\ LazyKeys
  /\ req' = [req EXCEPT ![c] = [pc |-> "keys", kind |-> kind,
                                pair |-> keys'.pair]]
  /\ UNCHANGED <<lib, opened, handed>>

\* generateKeys is done.  Its failure is as lasting as its success.
Generated ==
  /\ keys.promise = "pending"
  /\ \E outcome \in {"kept", "broken"} :
       keys' = [keys EXCEPT !.promise = outcome]
  /\ UNCHANGED <<made, lib, opened, req, handed>>

Keyed_NoReject(c) ==     \* mutant: nobody answers when the promise rejects
  /\ At(c, "keys")
  /\ keys.promise = "kept"
  /\ Goto(c, IF req[c].kind = "attestation" /\ Nitro THEN "import" ELSE "ok")
  /\ handed' = IF req[c].kind = "public-key" THEN handed \cup {req[c].pair}
               ELSE handed
  /\ UNCHANGED <<keys, made, lib, opened>>

\* The awaited promise has settled.  A decryption uses the private key; the
\* other two answer with the public one, an enclave's attestation after a while.
Keyed(c) ==
  /\ At(c, "keys")
  /\ keys.promise \in {"kept", "broken"}
  /\ IF keys.promise = "broken"
       THEN Goto(c, "failed") /\ UNCHANGED handed
       ELSE IF req[c].kind = "attestation" /\ Nitro
         THEN Goto(c, "import") /\ UNCHANGED handed
         ELSE /\ Goto(c, "ok")
              /\ handed' = IF req[c].kind = "decrypt" THEN handed
                           ELSE handed \cup {req[c].pair}
  /\ UNCHANGED <<keys, made, lib, opened>>

\* getNsmLib: after "if (nsmLib) return nsmLib", bun:ffi is imported.
GetNsmLib(c) ==
  /\ At(c, "import")
  /\ Goto(c, IF lib # 0 THEN "document" ELSE "dlopen")
  /\ UNCHANGED <<keys, made, lib, opened, handed>>

Dlopen_NoCache(c) ==     \* mutant: the handle is not kept
  /\ At(c, "dlopen")
  /\ opened < MaxOpens
  /\ opened' = opened + 1
  /\ Goto(c, "document")
  /\ UNCHANGED <<keys, made, lib, handed>>

\* The import has resolved: dlopen, whoever may have called it meanwhile.
Dlopen(c) ==
  /\ At(c, "dlopen")
  /\ \/ /\ opened < MaxOpens
        /\ opened' = opened + 1
        /\ lib' = opened + 1
        /\ Goto(c, "document")
     \/ Goto(c, "failed") /\ UNCHANGED <<lib, opened>>
  /\ UNCHANGED <<keys, made, handed>>

\* nsm_lib_init, nsm_get_attestation_doc and nsm_lib_exit, without an await.
Document(c) ==
  /\ At(c, "document")
  /\ \/ Goto(c, "ok") /\ handed' = handed \cup {req[c].pair}
     \/ Goto(c, "failed") /\ UNCHANGED handed
  /\ UNCHANGED <<keys, made, lib, opened>>

Reply(c) ==
  /\ req[c].pc \in {"ok", "failed"}
  /\ req' = [req EXCEPT ![c] = Idle]
  /\ UNCHANGED <<keys, made, lib, opened, handed>>

Work(c) == Keyed(c) \/ GetNsmLib(c) \/ Dlopen(c) \/ Document(c) \/ Reply(c)

KeysNext ==
  \/ Generated
  \/ \E c \in Conn : Work(c) \/ \E kind \in Kind : Ask(c, kind)

KeysSpec ==
  /\ KeysInit /\ [][KeysNext]_keysVars
  /\ WF_keysVars(Generated) /\ \A c \in Conn : WF_keysVars(Work(c))

-----------------------------------------------------------------------------
\* Every public key that any answer has ever carried belongs to the key pair
\* that payloads are decrypted with: requests that meet the keys while they are
\* being made do not make keys of their own.
HandedDecrypts == handed \subseteq {keys.pair}

\* Handles leak only among requests that met before the library was first
\* loaded: there are never more than connections.
OpensBounded == opened <= Cardinality(Conn)

\* Every request is answered, be the keys made or not.
EveryRequestAnswered == \A c \in Conn : ~At(c, "idle") ~> At(c, "idle")
=============================================================================
