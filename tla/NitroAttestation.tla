--------------------------- MODULE NitroAttestation ---------------------------
(***************************************************************************)
(* verifyNitroAttestation (packages/sdk/src/lib/attestation.ts): which     *)
(* attestation documents the SDK accepts.  Decoding is reduced to whether  *)
(* it succeeds, a signature to the key that made it, a certificate's       *)
(* validity period to whether it is running, and time to the age of the    *)
(* document.  The key in it is reduced to the server that can decrypt with *)
(* it.  The SDK's only caller passes no nonce.                             *)
(***************************************************************************)
EXTENDS Integers, Sequences

CONSTANTS
  Url,         \* servers
  Released,    \* those that are enclaves of the code Expected measures
  SigningKey,
  RootKey,     \* the key of AWS_NITRO_ROOT_CA_PEM
  Authentic,   \* the keys of that root, of AWS's intermediates and hypervisors
  Document,    \* the documents servers may answer with
  Expected,    \* expectedPCRs, where the application lists them
  MaxAge,      \* maxAgeMs
  Skew         \* CLOCK_SKEW_TOLERANCE_MS

Certificate == [key : SigningKey, by : SigningKey, current : BOOLEAN]

Root == [key |-> RootKey, by |-> RootKey, current |-> TRUE]

\* root, then what the document brings, from AWS's copy of the root on
Chain(doc) == <<Root>> \o doc.cabundle \o <<doc.certificate>>

\* Only the indices that are listed are compared.
Measured(doc) ==
  \A i \in DOMAIN Expected : i \in DOMAIN doc.pcrs /\ doc.pcrs[i] = Expected[i]

\* AWS certifies the keys of its own only, and signs for an enclave what it asks
\* for, with its measurements: code that measures as Expected asks for its own
\* public key to be put in, other code for anyone's.
NitroAssumption ==
  /\ Released \subseteq Url
  /\ RootKey \in Authentic /\ Authentic \subseteq SigningKey
  /\ \A doc \in Document :
       /\ doc.cabundle \in Seq(Certificate) /\ doc.certificate \in Certificate
       /\ doc.signer \in SigningKey
       /\ doc.whole \in BOOLEAN /\ doc.keyed \in BOOLEAN
       /\ \A i \in 1..Len(Chain(doc)) :
            Chain(doc)[i].by \in Authentic => Chain(doc)[i].key \in Authentic
       /\ doc.of \in Url
       /\ doc.signer \in Authentic /\ Measured(doc) => doc.of \in Released
  /\ MaxAge \in Nat /\ Skew \in Nat

\* It decodes as a COSE_Sign1 envelope with the fields of a document in it.
WellFormed(doc) == doc.whole

Chained_LeafOnly(doc) ==   \* mutant: the intermediates are not checked
  Chain(doc)[Len(Chain(doc))].current

\* Each certificate is signed by the one before, and is in its validity period.
Chained(doc) ==
  \A i \in 2..Len(Chain(doc)) :
    /\ Chain(doc)[i].by = Chain(doc)[i - 1].key
    /\ Chain(doc)[i].current

Signed(doc) == doc.signer = doc.certificate.key

Recent(age) == age <= MaxAge + Skew

Verified(doc, age, listed) ==
  /\ WellFormed(doc)
  /\ Chained(doc)
  /\ Signed(doc)
  /\ Recent(age)
  /\ listed => Measured(doc)
  /\ doc.keyed
=============================================================================
