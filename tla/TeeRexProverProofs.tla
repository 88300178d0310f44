-------------------------- MODULE TeeRexProverProofs --------------------------
(***************************************************************************)
(* What holds of the SDK's prover for any servers, any number of proofs    *)
(* and any changes of its settings.                                        *)
(***************************************************************************)
EXTENDS TeeRexProver, WellFoundedInduction, TLAPS

\* What a call, in state k, may rely on under the settings s.
CallOK(k, s) ==
  /\ (k.require => s.require) /\ (k.listed => s.listed)
  /\ k.pc = "fetch" => k.url # None /\ k.tries <= Retries
  /\ k.pc = "check" /\ k.doc # None => k.carried # None /\ k.carried[1] = k.doc.of
  /\ k.pc \in {"idle", "local", "fetch", "check", "encrypt"} => k.sentTo = None
  /\ (k.pc = "encrypt" \/ k.sentTo # None) /\ k.require => Attested(k, s.crypto)

ProverInv == TypeOK /\ \A c \in Call : CallOK(call[c], settings)

\* A step of call c alone keeps the invariant if it does so for c.
LEMMA OneCall ==
  ASSUME ProverInv, NEW c \in Call, NEW k \in CallState,
         call' = [call EXCEPT ![c] = k], UNCHANGED <<settings, server>>,
         CallOK(k, settings)
  PROVE  ProverInv'
<1>1. \A d \in Call : call'[d] = IF d = c THEN k ELSE call[d]
  BY DEF ProverInv, TypeOK
<1>2. TypeOK'
  BY DEF ProverInv, TypeOK
<1>3. \A d \in Call : CallOK(call'[d], settings')
  BY <1>1 DEF ProverInv
<1>4. QED BY <1>2, <1>3 DEF ProverInv

\* Attested depends on this of a call only, and asks for less when less is listed.
LEMMA AttestedKeeps ==
  ASSUME NEW k, NEW m, NEW crypto, Attested(k, crypto), m.doc = k.doc,
         m.age = k.age, m.key = k.key, m.listed => k.listed
  PROVE  Attested(m, crypto)
BY Zenon DEF Attested

\* Changed settings leave what the calls have made sure of.
LEMMA ConfigureStep ==
  ASSUME ProverInv, NEW new \in Settings, new.crypto = settings.crypto, Configure(new)
  PROVE  ProverInv'
<1> DEFINE k(c) == [call[c] EXCEPT !.require = @ /\ new.require,
                                   !.listed = @ /\ new.listed]
<1>1. \A c \in Call : call'[c] = k(c)
  BY DEF Configure
<1>2. ASSUME NEW c \in Call
      PROVE  /\ k(c) \in CallState
             /\ k(c).pc = call[c].pc /\ k(c).url = call[c].url
             /\ k(c).tries = call[c].tries /\ k(c).doc = call[c].doc
             /\ k(c).carried = call[c].carried /\ k(c).key = call[c].key
             /\ k(c).age = call[c].age /\ k(c).sentTo = call[c].sentTo
             /\ k(c).require = (call[c].require /\ new.require)
             /\ k(c).listed = (call[c].listed /\ new.listed)
  <2>1. call[c] \in CallState
    BY DEF ProverInv, TypeOK
  <2> DEFINE require == call[c].require /\ new.require
             listed == call[c].listed /\ new.listed
  <2>2. require \in BOOLEAN /\ listed \in BOOLEAN
    OBVIOUS
  <2>3. k(c) = [call[c] EXCEPT !.require = require, !.listed = listed]
    OBVIOUS
  <2> HIDE DEF require, listed, k
  <2>4. /\ k(c) \in CallState
        /\ k(c).pc = call[c].pc /\ k(c).url = call[c].url
        /\ k(c).tries = call[c].tries /\ k(c).doc = call[c].doc
        /\ k(c).carried = call[c].carried /\ k(c).key = call[c].key
        /\ k(c).age = call[c].age /\ k(c).sentTo = call[c].sentTo
        /\ k(c).require = require /\ k(c).listed = listed
    BY <2>1, <2>2, <2>3 DEF CallState
  <2>5. QED BY <2>4 DEF require, listed
<1>3. ASSUME NEW c \in Call PROVE CallOK(call'[c], settings')
  <2>1. CallOK(call[c], settings) /\ settings' = new
    BY DEF ProverInv, Configure
  <2>2. /\ k(c).require => call[c].require /\ new.require
        /\ k(c).listed => call[c].listed /\ new.listed
    BY <1>2, Zenon
  <2>3. Attested(call[c], new.crypto) => Attested(k(c), new.crypto)
    <3> HIDE DEF k
    <3>1. QED BY <1>2, <2>2, AttestedKeeps
  <2> HIDE DEF k
  <2>4. CallOK(k(c), new)
    BY <1>2, <2>1, <2>2, <2>3 DEF CallOK
  <2>5. QED BY <1>1, <2>1, <2>4
<1>4. TypeOK'
  <2>1. call' \in [Call -> CallState]
    <3>1. call' = [c \in Call |-> k(c)]
      BY Zenon DEF Configure
    <3> HIDE DEF k
    <3>2. QED BY <1>2, <3>1
  <2>2. QED BY <2>1 DEF Configure, ProverInv, TypeOK
<1>5. QED BY <1>3, <1>4 DEF ProverInv

LEMMA SettingsStep ==
  ASSUME ProverInv,
         \/ SetProvingMode
         \/ \E u \in Url : SetApiUrl(u)
         \/ \E require, listed \in BOOLEAN : SetAttestationConfig(require, listed)
  PROVE  ProverInv'
<1>1. settings \in Settings
  BY DEF ProverInv, TypeOK
<1> DEFINE Sets(new) == /\ new \in Settings /\ new.crypto = settings.crypto
                       /\ Configure(new)
<1>2. PICK new : Sets(new)
  <2>1. CASE SetProvingMode
    <3> DEFINE off == [settings EXCEPT !.mode = "local", !.require = FALSE,
                                       !.listed = FALSE]
    <3>1. CASE Configure(off)
      <4>1. off \in Settings /\ off.crypto = settings.crypto
        BY <1>1 DEF Settings
      <4>2. QED BY <3>1, <4>1
    <3>2. ASSUME NEW u \in Url \cup {settings.url}, NEW r \in BOOLEAN,
                 NEW l \in BOOLEAN, Uee(u, r, l)
          PROVE  \E new : Sets(new)
      <4> DEFINE s == [settings EXCEPT !.mode = "uee", !.url = u,
                                       !.require = r, !.listed = l]
      <4>1. s \in Settings /\ s.crypto = settings.crypto
        BY <1>1 DEF Settings
      <4>2. QED BY <3>2, <4>1 DEF Uee
    <3>3. settings.require \in BOOLEAN /\ settings.listed \in BOOLEAN
      BY <1>1 DEF Settings
    <3> HIDE DEF Sets
    <3>4. QED BY <2>1, <3>1, <3>2, <3>3, Zenon DEF SetProvingMode
  <2>2. ASSUME NEW u \in Url, SetApiUrl(u)
        PROVE  \E new : Sets(new)
    <3> DEFINE s == [settings EXCEPT !.url = u]
    <3>1. s \in Settings /\ s.crypto = settings.crypto
      BY <1>1 DEF Settings
    <3>2. QED BY <2>2, <3>1 DEF SetApiUrl
  <2>3. ASSUME NEW require \in BOOLEAN, NEW listed \in BOOLEAN,
               SetAttestationConfig(require, listed)
        PROVE  \E new : Sets(new)
    <3> DEFINE s == [settings EXCEPT !.require = require, !.listed = listed]
    <3>1. s \in Settings /\ s.crypto = settings.crypto
      BY <1>1 DEF Settings
    <3>2. QED BY <2>3, <3>1 DEF SetAttestationConfig
  <2> HIDE DEF Sets
  <2>4. QED BY <2>1, <2>2, <2>3
<1>3. QED BY <1>2, ConfigureStep

-----------------------------------------------------------------------------
(* What verifying a document shows *)

\* A document whose chain starts at AWS's root is signed by a key AWS certifies:
\* the first certificate of another key would have been signed by one of AWS's.
THEOREM ChainIsAuthentic ==
  ASSUME NitroAssumption, NEW doc \in Document, Chained(doc), Signed(doc)
  PROVE  doc.signer \in Authentic
<1> DEFINE ch == Chain(doc)
           n == Len(ch)
           Bad == {i \in 1..n : ch[i].key \notin Authentic}
<1>1. /\ ch \in Seq(Certificate) /\ n \in Nat /\ n >= 2
      /\ ch[1] = Root /\ ch[n] = doc.certificate
  <2>1. /\ Root \in Certificate /\ doc.cabundle \in Seq(Certificate)
        /\ doc.certificate \in Certificate
    BY DEF NitroAssumption, Root, Certificate
  <2>2. QED BY <2>1 DEF Chain
<1>2. Bad = {}
  <2> SUFFICES ASSUME Bad # {} PROVE FALSE
    OBVIOUS
  <2> DEFINE Less == {p \in Nat \X Nat : p[1] < p[2]}
  <2>1. Bad \subseteq Nat
    BY <1>1
  <2>2. PICK i \in Bad : \A j \in Bad : ~(j < i)
    <3>1. IsWellFoundedOn(Less, Nat)
      BY NatLessThanWellFounded, Zenon DEF OpToRel
    <3> HIDE DEF Bad
    <3>2. PICK i \in Bad : \A j \in Bad : <<j, i>> \notin Less
      <4> HIDE DEF Less
      <4> QED BY <2>1, <3>1, WFMin, Zenon
    <3>3. QED BY <2>1, <3>2
  <2>3. i \in 1..n /\ ch[i].key \notin Authentic
    BY <2>2
  <2>4. i # 1
    BY <1>1, <2>3 DEF NitroAssumption, Root
  <2>5. i \in 2..n /\ i - 1 \in 1..n /\ i - 1 \notin Bad
    BY <1>1, <2>2, <2>3, <2>4
  <2>6. ch[i - 1].key \in Authentic /\ ch[i].by = ch[i - 1].key
    BY <2>5 DEF Chained
  <2>7. QED BY <2>3, <2>6 DEF NitroAssumption
<1>3. doc.certificate.key \in Authentic
  BY <1>1, <1>2
<1>4. QED BY <1>3 DEF Signed

-----------------------------------------------------------------------------
LEMMA IdleOK == \A s : Idle \in CallState /\ CallOK(Idle, s)
<1> USE ProverAssumption
<1>1. Idle \in CallState
  BY DEF Idle, CallState, Retries
<1>2. QED BY <1>1 DEF Idle, CallOK

LEMMA CreateStep ==
  ASSUME ProverInv, NEW c \in Call, CreateChonkProof(c)
  PROVE  ProverInv'
<1> DEFINE k(pc) == [Idle EXCEPT !.pc = pc, !.url = settings.url,
                       !.require = settings.require, !.listed = settings.listed]
<1>1. PICK pc \in {"local", "failed", "fetch"} :
        /\ pc = "fetch" => settings.url # None
        /\ call' = [call EXCEPT ![c] = k(pc)]
  BY DEF CreateChonkProof
<1>2. /\ k(pc).pc = pc /\ k(pc).url = settings.url /\ k(pc).sentTo = None
      /\ k(pc).tries = 0 /\ k(pc).require = settings.require
      /\ k(pc).listed = settings.listed
  BY DEF Idle
<1>3. k(pc) \in CallState
  <2>1. settings \in Settings
    BY DEF ProverInv, TypeOK
  <2>2. QED BY <2>1, IdleOK DEF CallState, Settings
<1> HIDE DEF k
<1>4. CallOK(k(pc), settings)
  BY <1>1, <1>2 DEF CallOK, Retries
<1>5. QED BY <1>1, <1>3, <1>4, OneCall DEF CreateChonkProof

LEMMA WorkStep ==
  ASSUME ProverInv, NEW c \in Call, Work(c)
  PROVE  ProverInv'
<1> USE ProverAssumption
<1>1. /\ call[c] \in CallState /\ CallOK(call[c], settings)
      /\ settings \in Settings /\ server \in [Url -> 1..MaxKey]
  BY DEF ProverInv, TypeOK
<1>2. call[c].pc # "idle"
  BY DEF Work, ProveLocally, Fetch, Check, Encrypt, Post, Settle, At
\* Reaching a place that nothing is asked of any more.
<1>3. ASSUME NEW pc \in {"ok", "failed", "unreachable"}, Goto(c, pc),
             UNCHANGED <<settings, server>>
      PROVE  ProverInv'
  <2> DEFINE k == [call[c] EXCEPT !.pc = pc]
  <2>1. /\ k \in CallState /\ k.pc = pc /\ k.require = call[c].require
        /\ k.listed = call[c].listed /\ k.key = call[c].key
        /\ k.doc = call[c].doc /\ k.age = call[c].age /\ k.sentTo = call[c].sentTo
    BY <1>1 DEF CallState
  <2>2. call' = [call EXCEPT ![c] = k]
    BY <1>3 DEF Goto
  <2> HIDE DEF k
  <2>3. Attested(call[c], settings.crypto) => Attested(k, settings.crypto)
    BY <2>1, AttestedKeeps
  <2>4. CallOK(k, settings)
    BY <1>1, <2>1, <2>3 DEF CallOK
  <2>5. QED BY <1>3, <2>1, <2>2, <2>4, OneCall
<1>4. CASE ProveLocally(c)
  BY <1>3, <1>4 DEF ProveLocally
<1>5. CASE Fetch(c)
  <2> DEFINE u == call[c].url
  <2>1. call[c].pc = "fetch" /\ u \in Url /\ call[c].tries <= Retries
        /\ UNCHANGED <<settings, server>>
    BY <1>1, <1>5 DEF Fetch, At, CallOK, CallState
  <2>2. CASE Answered(c, u)
    <3> DEFINE k(doc, carried, body) ==
          [call[c] EXCEPT !.pc = "check", !.url = None, !.tries = 0, !.doc = doc,
                          !.carried = carried, !.body = body]
    <3>1. PICK doc \in Offer[u], body \in Key, carried \in Key \cup {None} :
            /\ doc # None => carried # None /\ carried[1] = doc.of
            /\ call' = [call EXCEPT ![c] = k(doc, carried, body)]
      <4> DEFINE Made == {key \in Key : key[2] <= server[key[1]]}
      <4> DEFINE Carried(doc) == IF doc = None THEN {None}
                                 ELSE {key \in Made : key[1] = doc.of}
      <4>1. \E doc \in Offer[u], body \in Made : \E carried \in Carried(doc) :
              call' = [call EXCEPT ![c].pc = "check", ![c].url = None,
                         ![c].tries = 0, ![c].doc = doc, ![c].carried = carried,
                         ![c].body = body]
        BY <2>2, Zenon DEF Answered
      <4>2. PICK doc \in Offer[u], body \in Made : \E carried \in Carried(doc) :
              call' = [call EXCEPT ![c].pc = "check", ![c].url = None,
                         ![c].tries = 0, ![c].doc = doc, ![c].carried = carried,
                         ![c].body = body]
        BY <4>1, Zenon
      <4>3. PICK carried \in Carried(doc) :
              call' = [call EXCEPT ![c].pc = "check", ![c].url = None,
                         ![c].tries = 0, ![c].doc = doc, ![c].carried = carried,
                         ![c].body = body]
        BY <4>2, Zenon
      <4>4. /\ body \in Key /\ carried \in Key \cup {None}
            /\ doc # None => carried \in Key /\ carried[1] = doc.of
        BY <4>2, <4>3
      <4>5. None \notin Key
        BY DEF ProverAssumption
      <4>6. call' = [call EXCEPT ![c] = k(doc, carried, body)]
        BY <4>3
      <4> HIDE DEF k
      <4>7. QED BY <4>2, <4>4, <4>5, <4>6
    <3> DEFINE m == k(doc, carried, body)
    <3>2. doc \in Document \cup {None} /\ 0 \in 0..Retries + 1
      BY <2>1, <3>1 DEF Retries
    <3>3. /\ m \in CallState /\ m.pc = "check" /\ m.doc = doc
          /\ m.carried = carried /\ m.sentTo = call[c].sentTo
          /\ m.require = call[c].require /\ m.listed = call[c].listed
      BY <1>1, <3>1, <3>2 DEF CallState
    <3>4. call' = [call EXCEPT ![c] = m]
      BY <3>1
    <3> HIDE DEF m
    <3>5. CallOK(m, settings)
      BY <1>1, <2>1, <3>1, <3>3 DEF CallOK
    <3>6. QED BY <2>1, <3>3, <3>4, <3>5, OneCall
  <2>3. CASE Goto(c, "failed")
    BY <1>3, <2>1, <2>3
  <2>4. ASSUME NEW pc \in {"fetch", "unreachable"},
               pc = "fetch" => call[c].tries < Retries,
               call' = [call EXCEPT ![c].tries = @ + 1, ![c].pc = pc]
        PROVE  ProverInv'
    <3> DEFINE k == [call[c] EXCEPT !.tries = @ + 1, !.pc = pc]
    <3>0. (call[c].tries + 1) \in 0..Retries + 1
      BY <1>1, <2>1 DEF CallState, Retries
    <3>1. /\ k \in CallState /\ k.pc = pc /\ k.tries = call[c].tries + 1
          /\ k.url = u /\ k.sentTo = call[c].sentTo
          /\ k.require = call[c].require /\ k.listed = call[c].listed
      BY <1>1, <3>0 DEF CallState
    <3>2. call' = [call EXCEPT ![c] = k]
      BY <2>4
    <3>3. call[c].tries \in Nat
      BY <1>1 DEF CallState, Retries
    <3> HIDE DEF k
    <3>4. CallOK(k, settings)
      BY <1>1, <2>1, <2>4, <3>1, <3>3 DEF CallOK, Retries
    <3>5. QED BY <2>1, <3>1, <3>2, <3>4, OneCall
  <2>5. QED BY <1>5, <2>2, <2>3, <2>4 DEF Fetch
<1>6. CASE Check(c)
  <2> DEFINE doc == call[c].doc
             key == IF doc # None /\ settings.crypto THEN call[c].carried
                    ELSE call[c].body
             k(age) == [call[c] EXCEPT !.pc = "encrypt", !.key = key, !.age = age,
                                       !.carried = None, !.body = None]
  <2>1. call[c].pc = "check" /\ UNCHANGED <<settings, server>> /\ Take(c, key)
    BY <1>6 DEF Check, At
  <2>2. PICK age \in 0..MaxDelay :
          \/ Accepted(doc, age) /\ call' = [call EXCEPT ![c] = k(age)]
          \/ Goto(c, "failed")
    <3> HIDE DEF key
    <3>1. PICK age \in 0..MaxDelay :
            IF Accepted(doc, age)
            THEN call' = [call EXCEPT ![c].pc = "encrypt", ![c].key = key,
                            ![c].age = age, ![c].carried = None, ![c].body = None]
            ELSE Goto(c, "failed")
      BY <2>1, Zenon DEF Take
    <3>2. Accepted(doc, age) => call' = [call EXCEPT ![c] = k(age)]
      BY <3>1
    <3> HIDE DEF k
    <3>3. QED BY <3>1, <3>2, Zenon
  <2>3. CASE Goto(c, "failed")
    BY <1>3, <2>1, <2>3
  <2>4. CASE Accepted(doc, age) /\ call' = [call EXCEPT ![c] = k(age)]
    <3> DEFINE m == k(age)
    <3>1. key \in Key \cup {None}
      BY <1>1 DEF CallState
    <3> HIDE DEF key
    <3>2. /\ m \in CallState /\ m.pc = "encrypt" /\ m.key = key /\ m.doc = doc
          /\ m.age = age /\ m.sentTo = call[c].sentTo
          /\ m.require = call[c].require /\ m.listed = call[c].listed
      BY <1>1, <2>2, <3>1 DEF CallState
    <3> HIDE DEF m
    <3>3. ASSUME m.require PROVE Attested(m, settings.crypto)
      <4>1. settings.require /\ (m.listed => settings.listed)
        BY <1>1, <3>2, <3>3 DEF CallOK
      <4>2. doc \in Document /\ doc # None
        BY <1>1, <2>4, <4>1 DEF Accepted, CallState
      <4>3. ASSUME settings.crypto
            PROVE  /\ doc.signer \in Authentic /\ age <= MaxAge + Skew
                   /\ key # None /\ key[1] = doc.of
                   /\ m.listed => key[1] \in Released
        <5>1. Verified(doc, age, settings.listed)
          BY <2>4, <4>2, <4>3 DEF Accepted
        <5>2. doc.signer \in Authentic
          BY <4>2, <5>1, ChainIsAuthentic DEF Verified
        <5>3. key # None /\ key[1] = doc.of
          BY <1>1, <2>1, <4>2, <4>3 DEF CallOK, key
        <5>4. m.listed => doc.of \in Released
          BY <4>1, <4>2, <5>1, <5>2 DEF Verified, NitroAssumption
        <5>5. age <= MaxAge + Skew
          BY <5>1 DEF Verified, Recent
        <5>6. QED BY <5>2, <5>3, <5>4, <5>5
      <4>4. QED BY <3>2, <4>2, <4>3 DEF Attested
    <3>4. CallOK(m, settings)
      BY <1>1, <2>1, <3>2, <3>3 DEF CallOK
    <3>5. QED BY <2>1, <2>4, <3>2, <3>4, OneCall DEF m
  <2>5. QED BY <2>2, <2>3, <2>4
<1>7. CASE Encrypt(c)
  <2> DEFINE k == [call[c] EXCEPT !.pc = "post", !.sentTo = settings.url]
  <2>1. /\ call[c].pc = "encrypt" /\ UNCHANGED <<settings, server>>
        /\ call' = [call EXCEPT ![c] = k]
    BY <1>7 DEF Encrypt, At
  <2>2. /\ k \in CallState /\ k.pc = "post" /\ k.require = call[c].require
        /\ k.listed = call[c].listed /\ k.key = call[c].key
        /\ k.doc = call[c].doc /\ k.age = call[c].age
    BY <1>1 DEF CallState, Settings
  <2> HIDE DEF k
  <2>3. Attested(call[c], settings.crypto) => Attested(k, settings.crypto)
    BY <2>2, AttestedKeeps
  <2>4. CallOK(k, settings)
    BY <1>1, <2>1, <2>2, <2>3 DEF CallOK
  <2>5. QED BY <2>1, <2>2, <2>4, OneCall
<1>8. CASE Post(c)
  BY <1>3, <1>8 DEF Post
<1>9. CASE Settle(c)
  BY <1>9, IdleOK, OneCall DEF Settle
<1>10. QED BY <1>4, <1>5, <1>6, <1>7, <1>8, <1>9 DEF Work

LEMMA ProverAlways == Spec => []ProverInv
<1> USE ProverAssumption
<1>1. Init => ProverInv
  <2> SUFFICES ASSUME Init PROVE ProverInv
    OBVIOUS
  <2>2. QED BY IdleOK DEF Init, ProverInv, TypeOK
<1>2. ProverInv /\ [Next]_vars => ProverInv'
  <2> SUFFICES ASSUME ProverInv, [Next]_vars PROVE ProverInv'
    OBVIOUS
  <2>1. CASE UNCHANGED vars
    BY <2>1 DEF vars, ProverInv, TypeOK
  <2>2. ASSUME NEW u \in Url, ServerRestart(u) PROVE ProverInv'
    <3>1. server' \in [Url -> 1..MaxKey]
      BY <2>2 DEF ServerRestart, ProverInv, TypeOK
    <3>2. QED BY <2>2, <3>1 DEF ServerRestart, ProverInv, TypeOK
  <2>3. QED BY <2>1, <2>2, SettingsStep, CreateStep, WorkStep DEF Next
<1>3. QED BY <1>1, <1>2, PTL DEF Spec

\* Every call keeps to its states, and makes at most the attempts it may.
THEOREM ProverType == Spec => []TypeOK
<1>1. ProverInv => TypeOK
  BY DEF ProverInv
<1>2. QED BY <1>1, ProverAlways, PTL

\* As long as an attestation was required all through a proof, its inputs only
\* left encrypted to the key in an authentic and recent document, one of the
\* released code where that was asked for too.
THEOREM ProverAttests == Spec => []RequiredIsAttested
<1>1. ProverInv => RequiredIsAttested
  BY DEF ProverInv, CallOK, RequiredIsAttested
<1>2. QED BY <1>1, ProverAlways, PTL
-----------------------------------------------------------------------------
(* A call has only so many steps *)

\* The steps of its own a call in state k still has at most, retries included.
Left(k) ==
  CASE k.pc = "fetch" -> Retries - k.tries + 5
    [] k.pc = "check" -> 4
    [] k.pc = "encrypt" -> 3
    [] k.pc \in {"post", "local"} -> 2
    [] k.pc \in {"ok", "failed", "unreachable"} -> 1
    [] OTHER -> 0

LEMMA LeftType ==
  ASSUME NEW k \in CallState, NEW s, CallOK(k, s)
  PROVE  /\ Left(k) \in 0..Retries + 5
         /\ k.pc \in {"local", "fetch", "check", "encrypt", "post"} => Left(k) > 1
BY DEF CallState, CallOK, Left, Retries

\* Only its own steps change where a call is, once it was made.
LEMMA LeftElsewhere ==
  ASSUME ProverInv, [Next]_vars, NEW c \in Call, ~At(c, "idle"), ~Work(c)
  PROVE  Left(call'[c]) = Left(call[c])
<1>1. call \in [Call -> CallState]
  BY DEF ProverInv, TypeOK
<1>2. ASSUME call'[c].pc = call[c].pc, call'[c].tries = call[c].tries
      PROVE  Left(call'[c]) = Left(call[c])
  BY <1>2, Zenon DEF Left
<1>3. CASE UNCHANGED call
  BY <1>2, <1>3
<1>4. ASSUME NEW new, Configure(new) PROVE Left(call'[c]) = Left(call[c])
  <2> DEFINE require == call[c].require /\ new.require
             listed == call[c].listed /\ new.listed
  <2>1. call'[c] = [call[c] EXCEPT !.require = require, !.listed = listed]
    BY <1>4, Zenon DEF Configure
  <2> HIDE DEF require, listed
  <2>2. QED BY <1>1, <1>2, <2>1 DEF CallState
<1>5. CASE \/ SetProvingMode \/ \E u \in Url : SetApiUrl(u)
           \/ \E require, listed \in BOOLEAN : SetAttestationConfig(require, listed)
  BY <1>4, <1>5, Zenon DEF SetProvingMode, Uee, SetApiUrl, SetAttestationConfig
<1>6. ASSUME NEW d \in Call, CreateChonkProof(d) \/ Work(d)
      PROVE  Left(call'[c]) = Left(call[c])
  <2>1. c # d
    BY <1>6 DEF CreateChonkProof, At
  <2>2. call'[c] = call[c]
    BY <1>1, <1>6, <2>1 DEF CreateChonkProof, Work, ProveLocally, Fetch, Answered,
         Check, Take, Encrypt, Post, Settle, Goto
  <2>3. QED BY <1>2, <2>2
<1>7. ASSUME UNCHANGED vars \/ \E u \in Url : ServerRestart(u)
      PROVE  Left(call'[c]) = Left(call[c])
  BY <1>3, <1>7 DEF ServerRestart, vars
<1>8. QED BY <1>5, <1>6, <1>7 DEF Next

LEMMA LeftStep ==
  ASSUME ProverInv, NEW c \in Call, Work(c)
  PROVE  Left(call'[c]) < Left(call[c])
<1>1. call \in [Call -> CallState] /\ call[c] \in CallState /\ CallOK(call[c], settings)
  BY DEF ProverInv, TypeOK
<1>2. Left(call[c]) \in Nat
  BY <1>1, LeftType DEF Retries
<1>3. ASSUME call'[c].pc \in {"ok", "failed", "unreachable"},
             call[c].pc \in {"local", "fetch", "check", "encrypt", "post"}
      PROVE  Left(call'[c]) < Left(call[c])
  <2>1. Left(call'[c]) = 1
    BY <1>3 DEF Left
  <2>2. QED BY <1>1, <1>2, <1>3, <2>1, LeftType
<1>4. CASE ProveLocally(c)
  BY <1>1, <1>3, <1>4 DEF ProveLocally, Goto, At, CallState
<1>5. CASE Fetch(c)
  <2>1. call[c].pc = "fetch" /\ call[c].tries \in 0..Retries
        /\ Left(call[c]) = Retries - call[c].tries + 5
    BY <1>1, <1>5 DEF Fetch, At, CallOK, CallState, Left, Retries
  <2>2. CASE Answered(c, call[c].url)
    <3>1. call'[c].pc = "check"
      BY <1>1, <2>2 DEF Answered, CallState
    <3>2. Left(call'[c]) = 4
      BY <3>1 DEF Left
    <3>3. QED BY <2>1, <3>2 DEF Retries
  <2>3. CASE Goto(c, "failed")
    BY <1>1, <1>3, <2>1, <2>3 DEF Goto, CallState
  <2>4. CASE call' = [call EXCEPT
               ![c].tries = @ + 1,
               ![c].pc = IF call[c].tries < Retries THEN "fetch" ELSE "unreachable"]
    <3>1. /\ call'[c].tries = call[c].tries + 1
          /\ call'[c].pc = IF call[c].tries < Retries THEN "fetch" ELSE "unreachable"
      BY <1>1, <2>4 DEF CallState
    <3>2. CASE call'[c].pc = "fetch"
      BY <2>1, <3>1, <3>2 DEF Left, Retries
    <3>3. CASE call'[c].pc = "unreachable"
      BY <1>3, <2>1, <3>3
    <3>4. QED BY <3>1, <3>2, <3>3
  <2>5. QED BY <1>5, <2>2, <2>3, <2>4 DEF Fetch
<1>6. CASE Check(c)
  <2>1. call[c].pc = "check" /\ call'[c].pc \in {"encrypt", "failed"}
    BY <1>1, <1>6 DEF Check, Take, At, Goto, CallState
  <2>2. QED BY <1>3, <2>1 DEF Left
<1>7. CASE Encrypt(c)
  <2>1. call[c].pc = "encrypt" /\ call'[c].pc = "post"
    BY <1>1, <1>7 DEF Encrypt, At, CallState
  <2>2. QED BY <2>1 DEF Left
<1>8. CASE Post(c)
  <2>1. call[c].pc = "post" /\ call'[c].pc \in {"ok", "failed", "unreachable"}
    BY <1>1, <1>8 DEF Post, At, Goto, CallState
  <2>2. QED BY <1>3, <2>1
<1>9. CASE Settle(c)
  <2>1. call[c].pc \in {"ok", "failed", "unreachable"} /\ call'[c].pc = "idle"
    BY <1>1, <1>9 DEF Settle, Idle
  <2>2. QED BY <2>1 DEF Left
<1>10. QED BY <1>4, <1>5, <1>6, <1>7, <1>8, <1>9 DEF Work

\* A proof that was asked for is over after at most Retries + 5 steps of its own:
\* each leaves it fewer, and whatever the application, the servers and the other
\* proofs do meanwhile, none is added.
THEOREM CallsAreFinite ==
  Spec => /\ [](\A c \in Call : Left(call[c]) \in 0..Retries + 5)
          /\ [][\A c \in Call :
                  /\ Work(c) => Left(call'[c]) < Left(call[c])
                  /\ ~At(c, "idle") => Left(call'[c]) <= Left(call[c])]_vars
<1>1. ProverInv => \A c \in Call : Left(call[c]) \in 0..Retries + 5
  <2> SUFFICES ASSUME ProverInv, NEW c \in Call PROVE Left(call[c]) \in 0..Retries + 5
    OBVIOUS
  <2>1. call[c] \in CallState /\ CallOK(call[c], settings)
    BY DEF ProverInv, TypeOK
  <2>2. QED BY <2>1, LeftType
<1>2. ASSUME ProverInv, ProverInv', [Next]_vars
      PROVE  [\A c \in Call :
                /\ Work(c) => Left(call'[c]) < Left(call[c])
                /\ ~At(c, "idle") => Left(call'[c]) <= Left(call[c])]_vars
  <2>1. ASSUME NEW c \in Call
        PROVE  /\ Left(call[c]) \in Int /\ Left(call'[c]) \in Int
               /\ Work(c) => Left(call'[c]) < Left(call[c])
               /\ ~At(c, "idle") /\ ~Work(c) => Left(call'[c]) = Left(call[c])
    <3>1. /\ call[c] \in CallState /\ CallOK(call[c], settings)
          /\ call'[c] \in CallState /\ CallOK(call'[c], settings')
      BY <1>2 DEF ProverInv, TypeOK
    <3>2. Left(call[c]) \in Int /\ Left(call'[c]) \in Int
      BY <3>1, LeftType DEF Retries
    <3>3. QED BY <1>2, <3>2, LeftStep, LeftElsewhere
  <2>2. QED BY <2>1
<1>3. QED BY <1>1, <1>2, ProverAlways, PTL DEF Spec
=============================================================================
