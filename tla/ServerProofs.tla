---------------------------- MODULE ServerProofs ----------------------------
(***************************************************************************)
(* What the server process shares between requests.  The rate limiter      *)
(* implements the abstract window for every window, limit and pruning      *)
(* interval, and inherits its promise.  Of the keys and of the library     *)
(* handle, what holds for any number of connections.                       *)
(***************************************************************************)
EXTENDS RateLimiter, EnclaveKeys, FiniteSetTheorems, FunctionTheorems, TLAPS

-----------------------------------------------------------------------------
(* The abstract window keeps its promise. *)

\* The prover gives each instance its own copy of the library's operator.
LEMMA CountInPromise == \A S : Promise!Cardinality(S) = Cardinality(S)
BY Zenon DEF Promise!Cardinality, Cardinality

\* No window of Window milliseconds, wherever it starts, exceeds the limit.
AnyWindow ==
  \A ip \in Ip \ Exempt, from \in Int :
    Cardinality(Promise!Admitted(ip, from, from + Window)) <= Limit

WindowInv ==
  /\ Promise!TypeOK
  /\ IsFiniteSet(log)
  /\ \A d \in log : d.at <= now
  /\ AnyWindow

LEMMA AdmittedFinite ==
  ASSUME IsFiniteSet(log), NEW ip, NEW from, NEW to
  PROVE  /\ IsFiniteSet(Promise!Admitted(ip, from, to))
         /\ Cardinality(Promise!Admitted(ip, from, to)) \in Nat
         /\ IsFiniteSet(Promise!Recent(ip))
         /\ Cardinality(Promise!Recent(ip)) \in Nat
<1>1. Promise!Admitted(ip, from, to) \in SUBSET log /\ Promise!Recent(ip) \in SUBSET log
  BY DEF Promise!Admitted, Promise!Recent
<1>2. QED BY <1>1, FS_Subset, FS_CardinalityType

LEMMA OneMore ==
  ASSUME NEW S, IsFiniteSet(S), NEW x
  PROVE  /\ Cardinality(S \cup {x}) \in Nat
         /\ Cardinality(S \cup {x}) <= Cardinality(S) + 1
<1>1. Cardinality(S) \in Nat
  BY FS_CardinalityType
<1>2. Cardinality(S \cup {x}) = IF x \in S THEN Cardinality(S) ELSE Cardinality(S) + 1
  BY FS_AddElement
<1>3. QED BY <1>1, <1>2

LEMMA DecideStep ==
  ASSUME WindowInv,
         NEW r \in Request, NEW ip \in Ip, Promise!Decide(r, ip)
  PROVE  WindowInv'
<1> USE LimiterAssumption
<1> DEFINE d == [req |-> r, ip |-> ip, at |-> now,
                 ok |-> ip \in Exempt \/ Cardinality(Promise!Recent(ip)) < Limit]
<1>1. log' = log \cup {d} /\ now' = now
  BY CountInPromise DEF Promise!Decide
<1>2. d \in Promise!Decision
  BY DEF WindowInv, Promise!TypeOK, Promise!Decision
<1>3. IsFiniteSet(log')
  BY <1>1, FS_AddElement DEF WindowInv
<1>4. \A e \in log' : e.at <= now'
  BY <1>1 DEF WindowInv, Promise!TypeOK
<1>5. AnyWindow'
  <2> SUFFICES ASSUME NEW i \in Ip \ Exempt, NEW from \in Int
               PROVE  Cardinality(Promise!Admitted(i, from, from + Window)') <= Limit
    BY DEF AnyWindow
  <2> DEFINE A == Promise!Admitted(i, from, from + Window)
             A1 == Promise!Admitted(i, from, from + Window)'
  <2>1. IsFiniteSet(A) /\ Cardinality(A) \in Nat /\ Cardinality(A) <= Limit
    BY AdmittedFinite DEF WindowInv, AnyWindow
  <2>2. CASE d \in A1
    <3>1. A1 = A \cup {d}
      BY <1>1, <2>2 DEF Promise!Admitted
    <3>2. i = ip /\ d.ok /\ from <= now /\ now < from + Window
      BY <2>2 DEF Promise!Admitted
    <3>3. A \in SUBSET Promise!Recent(ip)
      BY <3>2 DEF Promise!Admitted, Promise!Recent, WindowInv, Promise!TypeOK, Promise!Decision
    <3>4. /\ IsFiniteSet(Promise!Recent(ip)) /\ Cardinality(Promise!Recent(ip)) \in Nat
          /\ Cardinality(Promise!Recent(ip)) < Limit
      BY <3>2, AdmittedFinite DEF WindowInv
    <3>5. Cardinality(A) <= Cardinality(Promise!Recent(ip))
      BY <3>3, <3>4, FS_Subset
    <3>6. Cardinality(A1) \in Nat /\ Cardinality(A1) <= Cardinality(A) + 1
      <4> HIDE DEF A, A1, d
      <4> QED BY <2>1, <3>1, OneMore
    <3>7. QED
      <4> HIDE DEF A, A1, d
      <4>1. Cardinality(A1) <= Limit
        BY <2>1, <3>4, <3>5, <3>6
      <4> QED BY <4>1 DEF A1
  <2>3. CASE d \notin A1
    <3>1. A1 = A
      BY <1>1, <2>3 DEF Promise!Admitted
    <3>2. QED BY <2>1, <3>1
  <2>4. QED BY <2>2, <2>3
<1>6. QED
  BY <1>1, <1>2, <1>3, <1>4, <1>5 DEF WindowInv, Promise!TypeOK

LEMMA WindowAlways == Promise!Spec => []WindowInv
<1> USE LimiterAssumption
<1>1. Promise!Init => WindowInv
  <2> SUFFICES ASSUME Promise!Init PROVE WindowInv
    OBVIOUS
  <2>1. \A ip, from : Promise!Admitted(ip, from, from + Window) = {}
    BY DEF Promise!Init, Promise!Admitted
  <2>2. QED
    BY <2>1, FS_EmptySet
       DEF Promise!Init, WindowInv, Promise!TypeOK, AnyWindow
<1>2. WindowInv /\ [Promise!Next]_<<now, log>> => WindowInv'
  <2> SUFFICES ASSUME WindowInv, [Promise!Next]_<<now, log>> PROVE WindowInv'
    OBVIOUS
  <2>1. CASE UNCHANGED <<now, log>>
    BY <2>1 DEF WindowInv, Promise!TypeOK, AnyWindow, Promise!Admitted
  <2>2. CASE Promise!Tick
    BY <2>2 DEF Promise!Tick, WindowInv, Promise!TypeOK, AnyWindow, Promise!Admitted, Promise!Decision
  <2>3. QED BY <2>1, <2>2, DecideStep DEF Promise!Next
<1>3. QED BY <1>1, <1>2, PTL DEF Promise!Spec

\* No client gets more than Limit requests admitted in any window.
THEOREM WindowLimits == Promise!Spec => []Promise!WithinLimit
<1>1. WindowInv => Promise!WithinLimit
  <2> SUFFICES ASSUME WindowInv, NEW e \in log, e.ip \notin Exempt
               PROVE  Cardinality(Promise!Admitted(e.ip, e.at, e.at + Window)) <= Limit
    BY CountInPromise DEF Promise!WithinLimit
  <2>1. e.ip \in Ip /\ e.at \in Int
    BY DEF WindowInv, Promise!TypeOK, Promise!Decision
  <2>2. QED BY <2>1 DEF WindowInv, AnyWindow
<1>2. QED BY <1>1, WindowAlways, PTL

-----------------------------------------------------------------------------
(* The limiter implements it. *)

\* The decision that a hit of ip stands for.
DecisionOf(ip, h) == [req |-> h.req, ip |-> ip, at |-> h.at, ok |-> TRUE]

\* Within the window, the limiter remembers exactly what it admitted.
Remembers ==
  \A ip \in Ip \ Exempt, h \in Hit :
    h.at > now - Window => (h \in Remembered(ip) <=> DecisionOf(ip, h) \in log)

LimiterInv ==
  /\ TypeOK
  /\ IsFiniteSet(log)
  /\ Remembers

LEMMA ClientIpType ==
  ASSUME NEW f \in Ip \cup {None}, NEW p \in Ip \cup {None}
  PROVE  ClientIp(f, p) \in Ip
BY LimiterAssumption DEF ClientIp

\* The hits that count are as many as the decisions that count.
LEMMA SameCount ==
  ASSUME LimiterInv, NEW ip \in Ip \ Exempt
  PROVE  /\ Cardinality(Live(ip)) = Cardinality(Promise!Recent(ip))
         /\ Cardinality(Live(ip)) \in Nat
<1> DEFINE f == [h \in Live(ip) |-> DecisionOf(ip, h)]
           R == Promise!Recent(ip)
<1>1. Live(ip) \subseteq Hit
  BY DEF LimiterInv, TypeOK, Live, Remembered
<1>2. \A h \in Live(ip) : DecisionOf(ip, h) \in R
  BY <1>1 DEF LimiterInv, Remembers, Live, DecisionOf, Promise!Recent
<1>3. \A g, h \in Live(ip) : DecisionOf(ip, g) = DecisionOf(ip, h) => g = h
  BY <1>1 DEF DecisionOf, Hit
<1>4. \A d \in R : \E h \in Live(ip) : DecisionOf(ip, h) = d
  <2> SUFFICES ASSUME NEW d \in R PROVE \E h \in Live(ip) : DecisionOf(ip, h) = d
    OBVIOUS
  <2>1. d \in log /\ d \in Promise!Decision /\ d.ip = ip /\ d.ok /\ d.at > now - Window
    BY DEF LimiterInv, TypeOK, Promise!Recent
  <2> DEFINE h == [req |-> d.req, at |-> d.at]
  <2>2. h \in Hit
    BY <2>1 DEF Hit, Promise!Decision
  <2>3. DecisionOf(ip, h) = d
    BY <2>1 DEF DecisionOf, Promise!Decision
  <2>4. h \in Live(ip)
    BY <2>1, <2>2, <2>3 DEF LimiterInv, Remembers, Live
  <2>5. QED BY <2>3, <2>4
<1>5. f \in Bijection(Live(ip), R)
  <2> HIDE DEF R
  <2>1. f \in [Live(ip) -> R]
    BY <1>2
  <2>2. \A g, h \in Live(ip) : f[g] = f[h] => g = h
    BY <1>3
  <2>3. \A d \in R : \E h \in Live(ip) : f[h] = d
    BY <1>4
  <2> HIDE DEF f
  <2>4. f \in Injection(Live(ip), R)
    BY <2>1, <2>2, Fun_IsInj
  <2>5. f \in Surjection(Live(ip), R)
    BY <2>1, <2>3, Fun_IsSurj
  <2>6. QED BY <2>4, <2>5, Fun_IsBij
<1>6. IsFiniteSet(R) /\ Cardinality(R) \in Nat
  <2>1. R \in SUBSET log
    BY DEF Promise!Recent
  <2>2. QED BY <2>1, FS_Subset, FS_CardinalityType DEF LimiterInv
<1>7. IsFiniteSet(Live(ip))
  <2> HIDE DEF R, f
  <2>1. f \in Injection(Live(ip), R)
    BY <1>5 DEF Bijection
  <2>2. QED BY <2>1, <1>6, FS_Injection, Zenon
<1>8. Cardinality(R) = Cardinality(Live(ip))
  <2> HIDE DEF R, f
  <2>1. ExistsBijection(Live(ip), R)
    BY <1>5 DEF ExistsBijection
  <2>2. QED BY <2>1, <1>7, FS_Bijection
<1>9. QED BY <1>6, <1>8

-----------------------------------------------------------------------------
\* What a limited client's request does to the memory and the history.
LEMMA IsLimitedStep ==
  ASSUME LimiterInv, NEW r \in Request, NEW ip \in Ip \ Exempt,
         \A d \in log : d.req # r, IsLimited(r, ip), now' = now
  PROVE  /\ Promise!Decide(r, ip)
         /\ DOMAIN hits' \subseteq Ip
         /\ \A i \in DOMAIN hits' : hits'[i] \subseteq Hit
         /\ Remembers'
<1> USE LimiterAssumption
<1> DEFINE ok == Cardinality(Promise!Recent(ip)) < Limit
           new == [req |-> r, at |-> now]
           kept == IF ok THEN Live(ip) \cup {new} ELSE Live(ip)
<1>1. (Cardinality(Live(ip)) >= Limit) <=> ~ok
  BY SameCount
<1>2. Store(ip, kept) /\ Decided(r, ip, ok)
  <2>1. CASE ok
    BY <2>1, <1>1 DEF IsLimited, Decided
  <2>2. CASE ~ok
    BY <2>2, <1>1 DEF IsLimited, Decided
  <2>3. QED BY <2>1, <2>2
<1>3. Promise!Decide(r, ip)
  <2>1. (ip \in Exempt \/ Promise!Cardinality(Promise!Recent(ip)) < Limit) = ok
    BY CountInPromise
  <2>2. log' = log \cup {[req |-> r, ip |-> ip, at |-> now,
                          ok |-> ip \in Exempt \/ Promise!Cardinality(Promise!Recent(ip)) < Limit]}
    <3> HIDE DEF ok
    <3> QED BY <1>2, <2>1 DEF Decided
  <2>3. QED BY <2>2, Zenon DEF Promise!Decide
<1>4. new \in Hit /\ Live(ip) \subseteq Hit /\ kept \subseteq Hit
  BY DEF LimiterInv, TypeOK, Hit, Live, Remembered
<1>5. /\ DOMAIN hits' \subseteq Ip
      /\ \A i \in DOMAIN hits' : hits'[i] \subseteq Hit
  <2> HIDE DEF kept
  <2> QED BY <1>2, <1>4 DEF Store, LimiterInv, TypeOK
<1>6. Remembered(ip)' = kept
  <2> HIDE DEF kept
  <2> QED BY <1>2 DEF Store, Remembered
<1>7. \A i \in Ip \ Exempt : i # ip => Remembered(i)' = Remembered(i)
  <2> HIDE DEF kept
  <2> QED BY <1>2 DEF Store, Remembered
<1>8. Remembers'
  <2> SUFFICES ASSUME NEW i \in Ip \ Exempt, NEW h \in Hit, h.at > now - Window
               PROVE  h \in Remembered(i)' <=> DecisionOf(i, h) \in log'
    BY DEF Remembers, DecisionOf
  <2>1. h \in Remembered(i) <=> DecisionOf(i, h) \in log
    BY DEF LimiterInv, Remembers
  <2>2. CASE i # ip
    <3>1. DecisionOf(i, h) \in log' <=> DecisionOf(i, h) \in log
      BY <1>2, <2>2 DEF Decided, DecisionOf
    <3>2. QED BY <1>7, <2>1, <2>2, <3>1
  <2>3. CASE i = ip
    <3>1. h \in Live(ip) <=> DecisionOf(i, h) \in log
      BY <2>1, <2>3 DEF Live
    <3>2. CASE ok
      <4>a. ok = TRUE
        BY <3>2
      <4>b. DecisionOf(i, h) = [req |-> r, ip |-> ip, at |-> now, ok |-> TRUE]
               <=> h.req = r /\ h.at = now
        BY <2>3 DEF DecisionOf
      <4>c. h = new <=> h.req = r /\ h.at = now
        BY DEF Hit
      <4>1. DecisionOf(i, h) = [req |-> r, ip |-> ip, at |-> now, ok |-> ok] <=> h = new
        BY <4>a, <4>b, <4>c, Zenon
      <4>2. QED BY <1>2, <1>6, <2>3, <3>1, <3>2, <4>1 DEF Decided
    <3>3. CASE ~ok
      <4>1. DecisionOf(i, h) # [req |-> r, ip |-> ip, at |-> now, ok |-> ok]
        BY <3>3 DEF DecisionOf
      <4>2. QED BY <1>2, <1>6, <2>3, <3>1, <3>3, <4>1 DEF Decided
    <3>4. QED BY <3>2, <3>3
  <2>4. QED BY <2>2, <2>3
<1>9. QED BY <1>3, <1>5, <1>8

LEMMA ProveStep ==
  ASSUME LimiterInv, NEW r \in Request, NEW f \in Ip \cup {None},
         NEW p \in Ip \cup {None}, Prove(r, f, p)
  PROVE  LimiterInv' /\ \E ip \in Ip : Promise!Decide(r, ip)
<1> DEFINE ip == ClientIp(f, p)
<1>1. ip \in Ip /\ now' = now /\ nextPrune' = nextPrune /\ \A d \in log : d.req # r
  BY ClientIpType DEF Prove
<1>2. /\ Promise!Decide(r, ip)
      /\ DOMAIN hits' \subseteq Ip
      /\ \A i \in DOMAIN hits' : hits'[i] \subseteq Hit
      /\ Remembers'
  <2>1. CASE ip \in Exempt
    <3>1. Decided(r, ip, TRUE) /\ hits' = hits
      BY <2>1 DEF Prove
    <3>2. Promise!Decide(r, ip)
      BY <1>1, <2>1, <3>1 DEF Promise!Decide, Decided
    <3>3. Remembers'
      <4> SUFFICES ASSUME NEW i \in Ip \ Exempt, NEW h \in Hit, h.at > now - Window
                   PROVE  h \in Remembered(i)' <=> DecisionOf(i, h) \in log'
        BY <1>1 DEF Remembers, DecisionOf
      <4>1. DecisionOf(i, h) \in log' <=> DecisionOf(i, h) \in log
        BY <2>1, <3>1 DEF Decided, DecisionOf
      <4>2. Remembered(i)' = Remembered(i)
        BY <3>1 DEF Remembered
      <4>3. QED BY <4>1, <4>2 DEF LimiterInv, Remembers
    <3>4. QED BY <3>1, <3>2, <3>3 DEF LimiterInv, TypeOK
  <2>2. CASE ip \notin Exempt
    <3>1. IsLimited(r, ip)
      BY <2>2 DEF Prove
    <3>2. QED BY <1>1, <2>2, <3>1, IsLimitedStep
  <2>3. QED BY <2>1, <2>2
<1>3. log' \subseteq Promise!Decision /\ IsFiniteSet(log')
  <2> DEFINE ok == ip \in Exempt \/ Promise!Cardinality(Promise!Recent(ip)) < Limit
             d == [req |-> r, ip |-> ip, at |-> now, ok |-> ok]
  <2>1. log' = log \cup {d}
    BY <1>2, Zenon DEF Promise!Decide
  <2>2. ok \in BOOLEAN
    BY Zenon
  <2>3. d \in Promise!Decision
    <3> HIDE DEF ok, ip
    <3> QED BY <1>1, <2>2 DEF Promise!Decision, LimiterInv, TypeOK
  <2>4. QED
    <3> HIDE DEF d
    <3> QED BY <2>1, <2>3, FS_AddElement DEF LimiterInv, TypeOK
<1>4. QED BY <1>1, <1>2, <1>3 DEF LimiterInv, TypeOK

LEMMA PruneStep ==
  ASSUME LimiterInv, Prune
  PROVE  LimiterInv' /\ UNCHANGED <<now, log>>
<1> USE LimiterAssumption
<1>1. now' = now /\ log' = log /\ nextPrune' = now + PruneInterval
  BY DEF Prune
<1>2. \A ip : Live(ip) \subseteq Remembered(ip)
  BY DEF Live
<1>3. TypeOK'
  BY <1>1, <1>2 DEF Prune, LimiterInv, TypeOK, Remembered
<1>4. Remembers'
  <2> SUFFICES ASSUME NEW ip \in Ip \ Exempt, NEW h \in Hit, h.at > now - Window
               PROVE  h \in Remembered(ip)' <=> h \in Remembered(ip)
    BY <1>1 DEF LimiterInv, Remembers, DecisionOf
  <2>1. h \in Remembered(ip) <=> h \in Live(ip)
    BY DEF Live
  <2>2. Remembered(ip)' = Live(ip)
    BY DEF Prune, Remembered, Live
  <2>3. QED BY <2>1, <2>2
<1>5. QED BY <1>1, <1>3, <1>4 DEF LimiterInv

LEMMA TickStep ==
  ASSUME LimiterInv, Tick
  PROVE  LimiterInv' /\ Promise!Tick
<1>1. now \in Int /\ now' = now + 1 /\ hits' = hits /\ log' = log
  BY DEF Tick, LimiterInv, TypeOK
<1>2. TypeOK' /\ Promise!Tick
  BY <1>1 DEF Tick, LimiterInv, TypeOK, Promise!Tick
<1>3. Remembers'
  <2> SUFFICES ASSUME NEW ip \in Ip \ Exempt, NEW h \in Hit, h.at > now' - Window
               PROVE  h \in Remembered(ip) <=> DecisionOf(ip, h) \in log
    BY <1>1 DEF Remembers, Remembered, DecisionOf
  <2>1. h.at > now - Window
    BY <1>1, LimiterAssumption DEF Hit
  <2>2. QED BY <2>1 DEF LimiterInv, Remembers
<1>4. QED BY <1>1, <1>2, <1>3 DEF LimiterInv

LEMMA LimiterInit == Init => LimiterInv /\ Promise!Init
<1> SUFFICES ASSUME Init PROVE LimiterInv /\ Promise!Init
  OBVIOUS
<1>1. TypeOK /\ Promise!Init /\ IsFiniteSet(log)
  BY FS_EmptySet, LimiterAssumption DEF Init, TypeOK, Promise!Init
<1>2. Remembers
  BY DEF Init, Remembers, Remembered
<1>3. QED BY <1>1, <1>2 DEF LimiterInv

LEMMA LimiterNext ==
  LimiterInv /\ [Next]_vars => LimiterInv' /\ [Promise!Next]_<<now, log>>
<1> SUFFICES ASSUME LimiterInv, [Next]_vars
             PROVE  LimiterInv' /\ [Promise!Next]_<<now, log>>
  OBVIOUS
<1>1. CASE Tick
  BY <1>1, TickStep DEF Promise!Next
<1>2. CASE Prune
  BY <1>2, PruneStep
<1>3. CASE \E r \in Request, f \in Ip \cup {None}, p \in Ip \cup {None} : Prove(r, f, p)
  BY <1>3, ProveStep DEF Promise!Next
<1>4. CASE UNCHANGED vars
  BY <1>4 DEF vars, LimiterInv, TypeOK, Remembers, Remembered
<1>5. QED BY <1>1, <1>2, <1>3, <1>4 DEF Next

\* The memory has the shape the code relies on.
THEOREM LimiterType == Spec => []TypeOK
<1>1. LimiterInv => TypeOK
  BY DEF LimiterInv
<1>2. QED BY <1>1, LimiterInit, LimiterNext, PTL DEF Spec

\* What the limiter forgets, at a request or from its timer, never changes a
\* decision: it is the window over the whole history.
THEOREM LimiterImplements == Spec => Implements
<1>1. Spec => Promise!Init /\ [][Promise!Next]_<<now, log>>
  BY LimiterInit, LimiterNext, PTL DEF Spec
<1>2. QED BY <1>1, PTL DEF Implements, Promise!Spec

\* No client gets more than Limit requests admitted in any window.
THEOREM LimiterLimits == Spec => []WithinLimit
<1>1. Promise!WithinLimit <=> WithinLimit
  BY DEF WithinLimit
<1>2. QED BY <1>1, LimiterImplements, WindowLimits, PTL DEF Implements

-----------------------------------------------------------------------------
(* What the limiter keeps is bounded: between two runs of the timer, nothing *)
(* is older than a window before the earlier of the two.                     *)
MemoryInv ==
  /\ TypeOK
  /\ nextPrune - PruneInterval <= now /\ now <= nextPrune
  /\ \A ip \in DOMAIN hits :
       /\ Limit > 0 => hits[ip] # {}
       /\ \A h \in hits[ip] : h.at > nextPrune - PruneInterval - Window

LEMMA MemoryProve ==
  ASSUME Window > 0, MemoryInv, LimiterInv, LimiterInv',
         NEW r \in Request, NEW f \in Ip \cup {None}, NEW p \in Ip \cup {None},
         Prove(r, f, p)
  PROVE  MemoryInv'
<1> USE LimiterAssumption
<1> DEFINE ip == ClientIp(f, p)
<1>1. now' = now /\ nextPrune' = nextPrune /\ TypeOK' /\ now \in Int /\ nextPrune \in Int
  BY DEF Prove, LimiterInv, TypeOK
<1>2. CASE ip \in Exempt
  BY <1>1, <1>2 DEF Prove, MemoryInv
<1>3. CASE ip \notin Exempt
  <2> DEFINE new == [req |-> r, at |-> now]
  <2>1. PICK kept : /\ Store(ip, kept)
                    /\ \/ kept = Live(ip) \cup {new}
                       \/ kept = Live(ip) /\ Cardinality(Live(ip)) >= Limit
    BY <1>3 DEF Prove, IsLimited
  <2>2. Limit > 0 => kept # {}
    <3>1. Cardinality(Live(ip)) >= Limit /\ Limit > 0 => Live(ip) # {}
      BY FS_EmptySet
    <3>2. QED BY <2>1, <3>1
  <2>3. \A h \in Live(ip) : h.at > nextPrune - PruneInterval - Window
    BY DEF MemoryInv, Live, Remembered
  <2>4. new.at > nextPrune - PruneInterval - Window
    BY <1>1 DEF MemoryInv
  <2>5. \A h \in kept : h.at > nextPrune - PruneInterval - Window
    BY <2>1, <2>3, <2>4
  <2>6. \A i \in DOMAIN hits' : IF i = ip THEN hits'[i] = kept
                               ELSE i \in DOMAIN hits /\ hits'[i] = hits[i]
    <3> HIDE DEF ip
    <3> QED BY <2>1 DEF Store
  <2>7. QED BY <1>1, <2>2, <2>5, <2>6 DEF MemoryInv
<1>4. QED BY <1>2, <1>3

LEMMA MemoryNext ==
  ASSUME Window > 0, MemoryInv, LimiterInv, LimiterInv', [Next]_vars
  PROVE  MemoryInv'
<1> USE LimiterAssumption
<1>1. CASE Tick
  BY <1>1 DEF Tick, MemoryInv, LimiterInv, TypeOK
<1>2. CASE Prune
  <2>1. now \in Int /\ now' = now /\ nextPrune' = now + PruneInterval /\ TypeOK'
    BY <1>2 DEF Prune, LimiterInv, TypeOK
  <2>2. \A ip \in DOMAIN hits' : hits'[ip] # {} /\ hits'[ip] = Live(ip)
    BY <1>2 DEF Prune
  <2>3. QED BY <2>1, <2>2 DEF MemoryInv, Live
<1>3. CASE \E r \in Request, f \in Ip \cup {None}, p \in Ip \cup {None} : Prove(r, f, p)
  BY <1>3, MemoryProve
<1>4. CASE UNCHANGED vars
  BY <1>4 DEF vars, MemoryInv, TypeOK
<1>5. QED BY <1>1, <1>2, <1>3, <1>4 DEF Next

\* The memory stays bounded when windows are not empty: the timer gets rid of
\* what isLimited, called for other addresses only, would keep forever.
THEOREM LimiterForgets == ASSUME Window > 0 PROVE Spec => []MemoryBounded
<1> USE LimiterAssumption
<1>1. Init => MemoryInv
  BY LimiterInit DEF Init, MemoryInv, LimiterInv
<1>2. LimiterInv /\ LimiterInv' /\ MemoryInv /\ [Next]_vars => MemoryInv'
  BY MemoryNext
<1>3. MemoryInv => MemoryBounded
  <2> SUFFICES ASSUME MemoryInv, NEW ip \in DOMAIN hits, NEW h \in hits[ip]
               PROVE  h.at > now - Window - PruneInterval
    BY DEF MemoryInv, MemoryBounded
  <2>1. h.at \in Int /\ now \in Int /\ nextPrune \in Int
    BY DEF MemoryInv, TypeOK, Hit
  <2>2. h.at > nextPrune - PruneInterval - Window /\ now <= nextPrune
    BY DEF MemoryInv
  <2>3. QED BY <2>1, <2>2
<1>4. QED BY <1>1, <1>2, <1>3, LimiterInit, LimiterNext, PTL DEF Spec

-----------------------------------------------------------------------------
(* The keys and the library handle *)

Holding == {"keys", "import", "dlopen", "document"}

\* generateKeys is called once, by the first request; whoever works on a
\* request since holds the promise of that call.
OneKeyPair ==
  /\ keys.initialized => made = 1 /\ keys.pair = 1
  /\ ~keys.initialized => made = 0 /\ keys.pair = 0 /\ keys.promise = "none"
  /\ \A c \in Conn : req[c].pc \in Holding => /\ keys.initialized
                                              /\ req[c].pair = keys.pair

KeysInv == KeysTypeOK /\ OneKeyPair /\ HandedDecrypts

\* The handlers that will call dlopen.
Opening == {c \in Conn : req[c].pc = "dlopen"}

\* As long as no handle is kept none was opened; and no more handlers call
\* dlopen than found no handle.
OpenInv ==
  /\ lib = 0 => opened = 0
  /\ opened + Cardinality(Opening) <= Cardinality(Conn)

-----------------------------------------------------------------------------
LEMMA KeysInvInit == KeysInit => KeysInv
BY KeysAssumption
   DEF KeysInit, KeysInv, KeysTypeOK, OneKeyPair, HandedDecrypts, Lazy, Handler, Idle,
       Kind, Holding

LEMMA KeysInvStep == KeysInv /\ [KeysNext]_keysVars => KeysInv'
<1> SUFFICES ASSUME KeysInv, [KeysNext]_keysVars PROVE KeysInv'
  OBVIOUS
<1> USE KeysAssumption DEF KeysInv
<1>1. CASE UNCHANGED keysVars
  BY <1>1 DEF KeysTypeOK, OneKeyPair, HandedDecrypts, keysVars
<1>2. CASE Generated
  BY <1>2 DEF Generated, KeysTypeOK, OneKeyPair, HandedDecrypts, Lazy
<1>3. ASSUME NEW c \in Conn, NEW kind \in Kind, Ask(c, kind) PROVE KeysInv'
  <2>1. /\ keys' \in Lazy
        /\ keys'.initialized
        /\ made' = 1 /\ keys'.pair = 1
        /\ 1 \in 0..MaxKeys
    <3>1. CASE keys.initialized
      BY <1>3, <3>1 DEF Ask, LazyKeys, KeysTypeOK, OneKeyPair
    <3>2. CASE ~keys.initialized
      <4>1. keys' = [initialized |-> TRUE, promise |-> "pending", pair |-> 1]
            /\ made' = 1
        BY <1>3, <3>2 DEF Ask, LazyKeys, OneKeyPair
      <4>2. 1 \in 0..MaxKeys
        OBVIOUS
      <4>3. QED BY <4>1, <4>2 DEF Lazy
    <3>3. QED BY <3>1, <3>2
  <2>2. req' = [req EXCEPT ![c] = [pc |-> "keys", kind |-> kind, pair |-> 1]]
    BY <1>3, <2>1 DEF Ask
  <2>3. req' \in [Conn -> Handler]
    BY <2>1, <2>2 DEF KeysTypeOK, Handler
  <2>4. handed' \subseteq 1..made' /\ handed' \subseteq {keys'.pair}
    BY <1>3, <2>1 DEF Ask, KeysTypeOK, OneKeyPair, HandedDecrypts
  <2>5. \A d \in Conn : req'[d].pc \in Holding => req'[d].pair = 1
    BY <2>2 DEF KeysTypeOK, OneKeyPair
  <2>6. QED
    BY <1>3, <2>1, <2>3, <2>4, <2>5
       DEF Ask, KeysTypeOK, OneKeyPair, HandedDecrypts
<1>4. ASSUME NEW c \in Conn, Work(c) PROVE KeysInv'
  <2>1. CASE Keyed(c)
    BY <1>4, <2>1
       DEF Keyed, At, Goto, KeysTypeOK, OneKeyPair, HandedDecrypts, Handler, Holding, Lazy
  <2>2. CASE GetNsmLib(c)
    BY <1>4, <2>2
       DEF GetNsmLib, At, Goto, KeysTypeOK, OneKeyPair, HandedDecrypts, Handler, Holding
  <2>3. CASE Dlopen(c)
    <3>1. /\ lib' \in 0..opened' /\ opened' \in 0..MaxOpens
          /\ UNCHANGED <<keys, made, handed>>
      BY <2>3 DEF Dlopen, KeysTypeOK
    <3>2. PICK pc \in {"document", "failed"} : Goto(c, pc)
      BY <2>3 DEF Dlopen
    <3>3. req' \in [Conn -> Handler]
      BY <3>2 DEF Goto, KeysTypeOK, Handler
    <3>4. \A d \in Conn : req'[d].pc \in Holding =>
            keys.initialized /\ req'[d].pair = keys.pair
      BY <2>3, <3>2 DEF Dlopen, At, Goto, KeysTypeOK, OneKeyPair, Holding
    <3>5. QED
      BY <3>1, <3>3, <3>4 DEF KeysTypeOK, OneKeyPair, HandedDecrypts
  <2>4. CASE Document(c)
    BY <1>4, <2>4
       DEF Document, At, Goto, KeysTypeOK, OneKeyPair, HandedDecrypts, Handler, Holding
  <2>5. CASE Reply(c)
    BY <1>4, <2>5
       DEF Reply, Idle, Kind, KeysTypeOK, OneKeyPair, HandedDecrypts, Handler, Holding
  <2>6. QED BY <1>4, <2>1, <2>2, <2>3, <2>4, <2>5 DEF Work
<1>5. QED BY <1>1, <1>2, <1>3, <1>4 DEF KeysNext

LEMMA KeysInvariant == KeysSpec => []KeysInv
BY KeysInvInit, KeysInvStep, PTL DEF KeysSpec

\* Every variable keeps its type, whatever Conn is.
THEOREM KeysType == KeysSpec => []KeysTypeOK
BY KeysInvariant, PTL DEF KeysInv

\* Every public key ever handed out is the one payloads are decrypted with
\* (EncryptionService over lazyValue).
THEOREM HandedKeysDecrypt == KeysSpec => []HandedDecrypts
BY KeysInvariant, PTL DEF KeysInv

-----------------------------------------------------------------------------
LEMMA OpenInit == KeysInit => OpenInv
<1> SUFFICES ASSUME KeysInit PROVE OpenInv
  OBVIOUS
<1>1. Opening = {}
  BY DEF Opening, KeysInit, Idle
<1>2. Cardinality(Opening) = 0 /\ Cardinality(Conn) \in Nat
  BY <1>1, FS_EmptySet, FS_CardinalityType, KeysAssumption
<1>3. QED BY <1>2 DEF KeysInit, OpenInv

LEMMA OpenStep == KeysTypeOK /\ OpenInv /\ [KeysNext]_keysVars => OpenInv'
<1> SUFFICES ASSUME KeysTypeOK, OpenInv, [KeysNext]_keysVars PROVE OpenInv'
  OBVIOUS
<1>1. /\ IsFiniteSet(Conn)
      /\ Cardinality(Conn) \in Nat
      /\ IsFiniteSet(Opening) /\ IsFiniteSet(Opening')
      /\ Cardinality(Opening) \in Nat
      /\ Cardinality(Opening') \in Nat
      /\ Cardinality(Opening') <= Cardinality(Conn)
  <2>1. Opening \subseteq Conn /\ Opening' \subseteq Conn
    BY DEF Opening
  <2>2. QED
    BY <2>1, KeysAssumption, FS_Subset, FS_CardinalityType
<1>2. ASSUME Opening' \subseteq Opening, UNCHANGED <<lib, opened>>
      PROVE  OpenInv'
  <2>1. Cardinality(Opening') <= Cardinality(Opening)
    BY <1>1, <1>2, FS_Subset
  <2>2. QED BY <1>1, <1>2, <2>1 DEF OpenInv, KeysTypeOK
<1>3. CASE UNCHANGED keysVars
  BY <1>2, <1>3 DEF keysVars, Opening
<1>4. CASE Generated
  BY <1>2, <1>4 DEF Generated, Opening
<1>5. ASSUME NEW c \in Conn, NEW kind \in Kind, Ask(c, kind) PROVE OpenInv'
  BY <1>2, <1>5 DEF Ask, Opening, KeysTypeOK
<1>6. ASSUME NEW c \in Conn, Work(c) PROVE OpenInv'
  <2>1. CASE Keyed(c)
    <3>1. PICK pc \in {"failed", "import", "ok"} : Goto(c, pc)
      BY <2>1 DEF Keyed
    <3>2. Opening' \subseteq Opening
      BY <3>1 DEF Goto, Opening, KeysTypeOK
    <3>3. QED BY <1>2, <2>1, <3>2 DEF Keyed
  <2>2. CASE GetNsmLib(c)
    <3>1. CASE lib = 0
      BY <1>1, <2>2, <3>1 DEF GetNsmLib, OpenInv
    <3>2. CASE lib # 0
      BY <1>2, <2>2, <3>2 DEF GetNsmLib, Goto, Opening, KeysTypeOK
    <3>3. QED BY <3>1, <3>2
  <2>3. CASE Dlopen(c)
    <3>1. Opening' = Opening \ {c} /\ c \in Opening
      <4>1. PICK pc \in {"document", "failed"} : Goto(c, pc)
        BY <2>3 DEF Dlopen
      <4>2. c \in Opening
        BY <2>3 DEF Dlopen, At, Opening
      <4>3. \A d \in Conn : req'[d].pc = IF d = c THEN pc ELSE req[d].pc
        BY <4>1 DEF Goto, KeysTypeOK, Handler
      <4>4. QED BY <4>2, <4>3 DEF Opening
    <3>2. Cardinality(Opening') = Cardinality(Opening) - 1
      BY <1>1, <3>1, FS_RemoveElement
    <3>3. \/ opened' = opened + 1 /\ lib' = opened + 1
          \/ UNCHANGED <<lib, opened>>
      BY <2>3 DEF Dlopen
    <3>4. opened \in Nat
      BY KeysAssumption DEF KeysTypeOK
    <3>5. QED BY <1>1, <3>2, <3>3, <3>4 DEF OpenInv
  <2>4. CASE Document(c)
    <3>1. PICK pc \in {"ok", "failed"} : Goto(c, pc)
      BY <2>4 DEF Document
    <3>2. Opening' \subseteq Opening
      BY <3>1 DEF Goto, Opening, KeysTypeOK
    <3>3. QED BY <1>2, <2>4, <3>2 DEF Document
  <2>5. CASE Reply(c)
    <3>1. Opening' \subseteq Opening
      BY <2>5 DEF Reply, Idle, Opening, KeysTypeOK
    <3>2. QED BY <1>2, <2>5, <3>1 DEF Reply
  <2>6. QED BY <1>6, <2>1, <2>2, <2>3, <2>4, <2>5 DEF Work
<1>7. QED BY <1>3, <1>4, <1>5, <1>6 DEF KeysNext

\* At most as many library handles are opened, and leaked, as there are
\* connections, however many attestations are asked for (getNsmLib).
THEOREM HandlesBounded == KeysSpec => []OpensBounded
<1>1. KeysTypeOK /\ OpenInv => OpensBounded
  <2> SUFFICES ASSUME KeysTypeOK, OpenInv PROVE OpensBounded
    OBVIOUS
  <2>1. Cardinality(Opening) \in Nat /\ Cardinality(Conn) \in Nat
    <3>1. Opening \subseteq Conn
      BY DEF Opening
    <3>2. QED BY <3>1, KeysAssumption, FS_Subset, FS_CardinalityType
  <2>2. QED BY <2>1, KeysAssumption DEF KeysTypeOK, OpenInv, OpensBounded
<1>2. QED BY <1>1, OpenInit, OpenStep, KeysType, PTL DEF KeysSpec
=============================================================================
