-------------------------- MODULE VersionCacheProofs --------------------------
(***************************************************************************)
(* What the script that fills and sweeps the cache guarantees, for any set *)
(* of versions and any limits: the tiers are bounded however scripts       *)
(* overlap, and scripts that run one at a time to their end leave only     *)
(* whole versions and evict none that is not old.                          *)
(***************************************************************************)
EXTENDS VersionCache, FiniteSetTheorems, WellFoundedInduction, TLAPS

Content == {"none", "whole", "broken"} \cup Script

\* Positions with a version ahead, and all those before the listing.
Working == {"look", "fetch", "writing", "succeeded", "failed"}
Filling == Working \cup {"list"}

Position == Filling \cup {"idle", "evict"}

Local == [pc : Position, todo : Seq(Version), evict : SUBSET Version]

LocalOK(local) ==
  /\ local.pc = "idle" => local = Idle
  /\ local.pc \in Working => local.todo # <<>>
  /\ local.pc # "evict" => local.evict = {}

CacheType ==
  /\ file \in [Version -> Content]
  /\ script \in [Script -> Local]
  /\ torn \in BOOLEAN /\ unswept \in BOOLEAN
  /\ \A s \in Script : LocalOK(script[s])

-----------------------------------------------------------------------------
(* The tiers, whatever the scripts do to each other *)

\* What some script is about to evict.
Doomed == UNION {script[s].evict : s \in Script}

\* A script that may still add a version has a listing ahead.  Without such a
\* script, what is not doomed is within the limits, unless a listing was lost.
Bounded ==
  /\ Cardinality((Listed \cap Nightly) \ Doomed) <= NightlyLimit
  /\ Cardinality((Listed \cap Testnet) \ Doomed) <= TestnetLimit

Swept == unswept \/ (\E s \in Script : script[s].pc \in Filling) \/ Bounded

SweepInv == CacheType /\ IsFiniteSet(Listed) /\ Swept

-----------------------------------------------------------------------------
(* One script at a time *)

Whole == {v \in Version : file[v] = "whole"}

\* What is evicted from a tier leaves its limit of newer whole versions.
EvictsOld(s, tier, limit) ==
  \A v \in script[s].evict \cap tier :
    Cardinality(Newer(v, (Whole \cap tier) \ script[s].evict)) >= limit

\* What a script may rely on at each point when it runs alone.
ScriptOK(s) ==
  /\ At(s, "fetch") => file[Current(s)] = "none"
  /\ At(s, "writing") => file[Current(s)] = s
  /\ At(s, "succeeded") => file[Current(s)] = "whole"
  /\ At(s, "failed") => file[Current(s)] \in {"none", "broken"}
  /\ script[s].evict \subseteq Nightly \cup Testnet
  /\ EvictsOld(s, Nightly, NightlyLimit) /\ EvictsOld(s, Testnet, TestnetLimit)

Alone ==
  ~torn =>
    /\ \A s, t \in Running : s = t
    /\ \A s \in Script : ScriptOK(s)
    /\ AvailableIsWhole

AloneInv == CacheType /\ IsFiniteSet(Listed) /\ Alone

-----------------------------------------------------------------------------
(* A tier sorted by age *)

\* Those of versions that have limit newer ones or more.
Surplus(versions, limit) == {v \in versions : Cardinality(Newer(v, versions)) >= limit}

LEMMA LeastExists ==
  ASSUME NEW S \in SUBSET Nat, S # {}
  PROVE  \E m \in S : \A n \in S : m <= n
<1>1. \E m \in S : \A n \in S : <<n, m>> \notin OpToRel(<, Nat)
  BY NatLessThanWellFounded, WFMin
<1>2. PICK m \in S : \A n \in S : <<n, m>> \notin OpToRel(<, Nat)
  BY <1>1
<1>3. \A n \in S : ~(n < m)
  BY <1>2 DEF OpToRel
<1>4. \A n \in S : m <= n
  BY <1>3
<1>5. QED BY <1>4

LEMMA NewerFinite ==
  ASSUME NEW S, IsFiniteSet(S), NEW v
  PROVE  /\ Newer(v, S) \subseteq S
         /\ IsFiniteSet(Newer(v, S))
         /\ Cardinality(Newer(v, S)) \in Nat
         /\ Cardinality(Newer(v, S)) <= Cardinality(S)
<1>1. Newer(v, S) \in SUBSET S
  BY DEF Newer
<1>2. QED BY <1>1, FS_Subset, FS_CardinalityType

\* What is not surplus is within the limit.
LEMMA RestIsBounded ==
  ASSUME NEW S \in SUBSET Nat, IsFiniteSet(S), NEW limit \in Nat \ {0}
  PROVE  /\ IsFiniteSet(S \ Surplus(S, limit))
         /\ Cardinality(S \ Surplus(S, limit)) \in Nat
         /\ Cardinality(S \ Surplus(S, limit)) <= limit
<1> DEFINE K == S \ Surplus(S, limit)
<1>1. K \in SUBSET Nat /\ IsFiniteSet(K) /\ Cardinality(K) \in Nat
  BY FS_Subset, FS_CardinalityType
<1>2. CASE K = {}
  BY <1>2, FS_EmptySet
<1>3. CASE K # {}
  <2>1. PICK m \in K : \A n \in K : m <= n
    <3> HIDE DEF K
    <3> QED BY <1>1, <1>3, LeastExists
  <2>2. /\ IsFiniteSet(Newer(m, S)) /\ Cardinality(Newer(m, S)) \in Nat
        /\ Cardinality(Newer(m, S)) < limit
    BY NewerFinite DEF Surplus
  <2>3. K \ {m} \in SUBSET Newer(m, S)
    BY <1>1, <2>1 DEF Newer
  <2>4. Cardinality(K \ {m}) <= Cardinality(Newer(m, S))
    BY <2>2, <2>3, FS_Subset
  <2>5. Cardinality(K \ {m}) = Cardinality(K) - 1
    <3> HIDE DEF K
    <3> QED BY <1>1, <2>1, FS_RemoveElement
  <2>6. Cardinality(K) <= limit
    <3> HIDE DEF K
    <3> QED BY <1>1, <2>2, <2>4, <2>5
  <2>7. QED BY <1>1, <2>6
<1>4. QED BY <1>2, <1>3

\* Every surplus version has its limit of newer ones among the rest.
LEMMA RestIsNewer ==
  ASSUME NEW S \in SUBSET Nat, IsFiniteSet(S), NEW limit \in Nat \ {0},
         NEW v \in Surplus(S, limit)
  PROVE  Cardinality(Newer(v, S \ Surplus(S, limit))) >= limit
<1> DEFINE B == Surplus(S, limit)
           K == S \ B
           counts == {Cardinality(Newer(x, S)) : x \in B}
<1>1. /\ B \subseteq S
      /\ \A x \in S : x \in B <=> Cardinality(Newer(x, S)) >= limit
  BY DEF Surplus
<1> HIDE DEF B
<1>2. \A x \in S : IsFiniteSet(Newer(x, S)) /\ Cardinality(Newer(x, S)) \in Nat
  BY NewerFinite
<1>3. \A x \in B, y \in S : y <= x => y \in B
  <2> SUFFICES ASSUME NEW x \in B, NEW y \in S, y <= x PROVE y \in B
    OBVIOUS
  <2>1. x \in Nat /\ y \in Nat
    BY <1>1
  <2>2. \A w \in Nat : w > x => w > y
    BY <2>1
  <2>3. Newer(x, S) \in SUBSET Newer(y, S)
    BY <2>2 DEF Newer
  <2>4. Cardinality(Newer(x, S)) <= Cardinality(Newer(y, S))
    BY <1>2, <2>3, FS_Subset
  <2>5. QED BY <1>1, <1>2, <2>4
<1>4. v \in B
  BY DEF B
<1>5. Newer(v, K) = K
  <2>1. \A w \in K : w \in Nat /\ v \in Nat /\ ~(w <= v)
    BY <1>1, <1>3, <1>4
  <2>2. \A w \in K : w > v
    BY <2>1
  <2>3. QED BY <2>2 DEF Newer
<1>6. PICK x \in B : \A y \in B : Cardinality(Newer(x, S)) <= Cardinality(Newer(y, S))
  <2>1. counts \in SUBSET Nat /\ counts # {}
    BY <1>1, <1>2, <1>4
  <2>2. PICK m \in counts : \A n \in counts : m <= n
    <3> HIDE DEF counts
    <3> QED BY <2>1, LeastExists
  <2>3. QED BY <2>2
<1>7. Newer(x, S) \in SUBSET K
  <2> SUFFICES ASSUME NEW y \in Newer(x, S), y \in B PROVE FALSE
    BY DEF Newer
  <2>1. x \in Nat /\ y \in Nat /\ y \in S /\ y > x
    BY <1>1 DEF Newer
  <2>2. \A w \in Nat : w > y => w > x
    BY <2>1
  <2>3. Newer(y, S) \in SUBSET Newer(x, S)
    BY <2>2 DEF Newer
  <2>4. y \notin Newer(y, S)
    BY <2>1 DEF Newer
  <2>5. /\ Cardinality(Newer(y, S)) <= Cardinality(Newer(x, S))
        /\ Cardinality(Newer(x, S)) # Cardinality(Newer(y, S))
    BY <1>1, <1>2, <2>3, <2>4, FS_Subset
  <2>6. QED BY <1>1, <1>2, <1>6, <2>5
<1>8. IsFiniteSet(K) /\ Cardinality(K) \in Nat
  BY FS_Subset, FS_CardinalityType
<1>9. Cardinality(Newer(x, S)) <= Cardinality(K)
  BY <1>7, <1>8, FS_Subset
<1>10. Cardinality(K) >= limit
  <2> HIDE DEF K
  <2>1. Cardinality(Newer(x, S)) >= limit /\ Cardinality(Newer(x, S)) \in Nat
    BY <1>1, <1>2
  <2>2. QED BY <2>1, <1>8, <1>9
<1>11. QED BY <1>5, <1>10 DEF B

-----------------------------------------------------------------------------
(* Types *)

LEMMA IdleType == Idle \in Local /\ LocalOK(Idle)
<1>1. <<>> \in Seq(Version)
  OBVIOUS
<1>2. QED BY <1>1 DEF Idle, Local, LocalOK, Position, Filling, Working

LEMMA CurrentType ==
  ASSUME CacheType, NEW s \in Script, script[s].pc \in Working
  PROVE  Current(s) \in Version
<1>1. script[s].todo \in Seq(Version) /\ script[s].todo # <<>>
  BY DEF CacheType, LocalOK, Local
<1>2. QED BY <1>1 DEF Current

\* A script has gone on, and the others are where they were.
Moved(s, local) == script' = [script EXCEPT ![s] = local]

LEMMA GoMoves ==
  ASSUME CacheType, NEW s \in Script, script[s].pc \in Working,
         NEW pc \in Working, Go(s, pc)
  PROVE  LET local == [script[s] EXCEPT !.pc = pc] IN
           /\ Moved(s, local) /\ local \in Local /\ LocalOK(local)
           /\ local.pc = pc /\ local.todo = script[s].todo /\ local.evict = {}
<1> DEFINE local == [script[s] EXCEPT !.pc = pc]
<1>1. script[s] \in Local /\ LocalOK(script[s])
  BY DEF CacheType
<1>2. local \in Local /\ local.pc = pc /\ local.todo = script[s].todo /\ local.evict = {}
  BY <1>1 DEF Local, LocalOK, Working, Filling, Position
<1>3. LocalOK(local)
  BY <1>1, <1>2 DEF LocalOK, Working
<1>4. Moved(s, local)
  BY DEF Go, Moved
<1>5. QED BY <1>2, <1>3, <1>4

LEMMA NextVersionMoves ==
  ASSUME CacheType, NEW s \in Script, script[s].pc \in Working,
         script' = NextVersion(script, s)
  PROVE  \E local \in Local :
           /\ Moved(s, local) /\ LocalOK(local)
           /\ local.pc \in {"look", "list"} /\ local.evict = {}
<1> DEFINE left == Tail(script[s].todo)
           local == [script[s] EXCEPT !.pc = IF left = <<>> THEN "list" ELSE "look",
                                      !.todo = left]
<1>1. script[s] \in Local /\ LocalOK(script[s])
  BY DEF CacheType
<1>2. script[s].todo \in Seq(Version) /\ script[s].todo # <<>>
  BY <1>1 DEF Local, LocalOK
<1>3. left \in Seq(Version)
  BY <1>2
<1>4. Moved(s, local)
  BY DEF NextVersion, Moved
<1> HIDE DEF left
<1>5. /\ local \in Local
      /\ local.pc = (IF left = <<>> THEN "list" ELSE "look")
      /\ local.todo = left /\ local.evict = {}
  BY <1>1, <1>3 DEF Local, LocalOK, Working, Filling, Position
<1>6. LocalOK(local)
  BY <1>5 DEF LocalOK, Working
<1>7. QED BY <1>4, <1>5, <1>6

LEMMA ArgsType ==
  ASSUME NEW args \in Args
  PROVE  args \in Seq(Version) /\ args # <<>>
<1>1. PICK n \in 1..MaxArgs : args \in [1..n -> Version]
  BY DEF Args
<1>2. n \in Nat \ {0} /\ 1 \in DOMAIN args
  BY <1>1, CacheAssumption
<1>3. QED BY <1>1, <1>2

LEMMA BeginMoves ==
  ASSUME CacheType, NEW s \in Script, NEW args \in Args, Begin(s, args)
  PROVE  LET local == [Idle EXCEPT !.pc = "look", !.todo = args] IN
           /\ Moved(s, local) /\ local \in Local /\ LocalOK(local)
           /\ local.pc = "look" /\ local.evict = {}
<1> DEFINE local == [Idle EXCEPT !.pc = "look", !.todo = args]
<1>1. Moved(s, local)
  BY DEF Begin, Moved
<1>2. local \in Local /\ local.pc = "look" /\ local.todo = args /\ local.evict = {}
  BY ArgsType DEF Idle, Local, Position, Filling, Working
<1>3. LocalOK(local)
  BY <1>2, ArgsType DEF LocalOK
<1>4. QED BY <1>1, <1>2, <1>3

LEMMA EvictMoves ==
  ASSUME CacheType, NEW s \in Script,
         NEW evict \in SUBSET Version, NEW pc, At(s, pc), pc \in {"list", "evict"}
  PROVE  LET local == [script[s] EXCEPT !.pc = "evict", !.evict = evict] IN
           /\ local \in Local /\ LocalOK(local)
           /\ local.pc = "evict" /\ local.evict = evict
<1>1. script[s] \in Local
  BY DEF CacheType
<1>2. QED BY <1>1 DEF Local, LocalOK, Position, Filling, Working

LEMMA LeaveType ==
  ASSUME CacheType, NEW s \in Script, script[s].pc \in Working,
         NEW content \in Content, Leave(s, content)
  PROVE  file' \in [Version -> Content]
BY CurrentType DEF CacheType, Leave

LEMMA BeyondType == \A tier, limit : Beyond(tier, limit) \subseteq Listed \cap tier
BY DEF Beyond

LEMMA MovedType ==
  ASSUME CacheType, NEW s \in Script, NEW local \in Local, LocalOK(local), Moved(s, local),
         file' \in [Version -> Content], torn' \in BOOLEAN, unswept' \in BOOLEAN
  PROVE  CacheType'
<1>1. script' \in [Script -> Local]
  BY DEF CacheType, Moved
<1>2. ASSUME NEW t \in Script PROVE LocalOK(script'[t])
  BY DEF CacheType, Moved
<1>3. QED BY <1>1, <1>2 DEF CacheType

LEMMA ServeKeeps ==
  ASSUME NEW c \in Connection, Post(c) \/ Serve(c)
  PROVE  UNCHANGED <<file, script, torn, unswept>>
BY DEF Post, Serve, Decrypt, Spawn, Exit

LEMMA EvictedType ==
  ASSUME CacheType, NEW s \in Script, At(s, "evict"), NEW v \in script[s].evict
  PROVE  v \in Version /\ script[s].evict \ {v} \in SUBSET Version
BY DEF CacheType, Local

LEMMA TypeStep == ASSUME CacheType, [Next]_vars PROVE CacheType'
<1>1. CASE UNCHANGED vars
  BY <1>1 DEF CacheType, vars
<1>2. ASSUME NEW c \in Connection, Post(c) \/ Serve(c) PROVE CacheType'
  BY <1>2, ServeKeeps DEF CacheType
<1>3. ASSUME NEW s \in Script, NEW args \in Args, Begin(s, args) PROVE CacheType'
  <2>1. /\ file' \in [Version -> Content]
        /\ torn' \in BOOLEAN /\ unswept' \in BOOLEAN
    BY <1>3 DEF Begin, CacheType
  <2>2. QED BY <1>3, <2>1, BeginMoves, MovedType
<1>4. ASSUME NEW s \in Script, Download(s) PROVE CacheType'
  <2>1. /\ torn' \in BOOLEAN /\ unswept' \in BOOLEAN
    BY <1>4
       DEF CacheType, Download, Look, Fetch, TarSucceeds, TarFails, Exited, List, Evict
  <2>2. CASE Look(s)
    <3>1. script[s].pc \in Working /\ file' \in [Version -> Content]
      BY <2>2 DEF Look, At, Working, CacheType
    <3>2. CASE script' = NextVersion(script, s)
      BY <2>1, <3>1, <3>2, NextVersionMoves, MovedType
    <3>3. CASE Go(s, "fetch")
      BY <2>1, <3>1, <3>3, GoMoves, MovedType DEF Working
    <3>4. QED BY <2>2, <3>2, <3>3 DEF Look
  <2>3. CASE Fetch(s)
    <3>1. script[s].pc \in Working
      BY <2>3 DEF Fetch, At, Working
    <3>2. file' \in [Version -> Content]
      BY <2>3 DEF Fetch, CacheType, Content
    <3>3. CASE script' = NextVersion(script, s)
      BY <2>1, <3>1, <3>2, <3>3, NextVersionMoves, MovedType
    <3>4. CASE Go(s, "failed") \/ Go(s, "writing")
      BY <2>1, <3>1, <3>2, <3>4, GoMoves, MovedType DEF Working
    <3>5. QED BY <2>3, <3>3, <3>4 DEF Fetch
  <2>4. CASE TarSucceeds(s) \/ TarFails(s)
    <3>1. script[s].pc \in Working
      BY <2>4 DEF TarSucceeds, TarFails, At, Working
    <3>2. file' \in [Version -> Content]
      BY <2>4, <3>1, LeaveType DEF TarSucceeds, TarFails, Content
    <3>3. Go(s, "succeeded") \/ Go(s, "failed")
      BY <2>4 DEF TarSucceeds, TarFails
    <3>4. QED BY <2>1, <3>1, <3>2, <3>3, GoMoves, MovedType DEF Working
  <2>5. CASE Exited(s)
    <3>1. script[s].pc \in Working /\ script' = NextVersion(script, s)
      BY <2>5 DEF Exited, At, Working
    <3>2. file' \in [Version -> Content]
      BY <2>5 DEF Exited, Remove, CacheType, Content
    <3>3. QED BY <2>1, <3>1, <3>2, NextVersionMoves, MovedType
  <2>6. CASE List(s)
    <3> DEFINE old == Beyond(Nightly, NightlyLimit) \cup Beyond(Testnet, TestnetLimit)
               local == [script[s] EXCEPT !.pc = "evict", !.evict = old]
    <3>1. old \in SUBSET Version
      BY BeyondType DEF Listed
    <3>2. file' \in [Version -> Content] /\ At(s, "list")
      BY <2>6 DEF List, CacheType
    <3>3. Moved(s, local)
      BY <2>6 DEF List, Moved
    <3> HIDE DEF old
    <3>4. local \in Local /\ LocalOK(local)
      BY <3>1, <3>2, EvictMoves
    <3> HIDE DEF local
    <3>5. QED BY <2>1, <3>2, <3>3, <3>4, MovedType
  <2>7. CASE Evict(s)
    <3>1. CASE \E v \in script[s].evict :
                 Remove(v) /\ script' = [script EXCEPT ![s].evict = @ \ {v}]
      <4>1. PICK v \in script[s].evict :
                   Remove(v) /\ script' = [script EXCEPT ![s].evict = @ \ {v}]
        BY <3>1
      <4> DEFINE local == [script[s] EXCEPT !.pc = "evict", !.evict = script[s].evict \ {v}]
      <4>2. At(s, "evict") /\ script[s] \in Local
        BY <2>7 DEF Evict, CacheType
      <4>3. local \in Local /\ LocalOK(local)
        BY <4>2, EvictedType, EvictMoves
      <4>4. Moved(s, local)
        BY <4>1, <4>2 DEF Moved, At, Local
      <4>5. file' \in [Version -> Content]
        BY <4>1 DEF Remove, CacheType, Content
      <4> HIDE DEF local
      <4>6. QED BY <2>1, <4>3, <4>4, <4>5, MovedType
    <3>2. CASE script' = [script EXCEPT ![s] = Idle] /\ UNCHANGED file
      BY <2>1, <3>2, IdleType, MovedType DEF Moved, CacheType
    <3>3. QED BY <2>7, <3>1, <3>2 DEF Evict
  <2>8. QED BY <1>4, <2>2, <2>3, <2>4, <2>5, <2>6, <2>7 DEF Download
<1>5. ASSUME NEW s \in Script, Interrupt(s) PROVE CacheType'
  <2>1. file' \in [Version -> Content]
    <3>1. CASE At(s, "writing")
      <4>1. PICK content \in {"broken", "whole"} : Leave(s, content)
        BY <1>5, <3>1 DEF Interrupt
      <4>2. QED BY <3>1, <4>1, LeaveType DEF At, Working, Content
    <3>2. QED BY <1>5, <3>1 DEF Interrupt, CacheType
  <2>2. QED BY <1>5, <2>1, IdleType, MovedType DEF Interrupt, Moved
<1>6. QED BY <1>1, <1>2, <1>3, <1>4, <1>5 DEF Next

-----------------------------------------------------------------------------
(* The tiers are bounded *)

\* A step adds the version its script is at, if any.
LEMMA ListedStep ==
  ASSUME CacheType, [Next]_vars, IsFiniteSet(Listed)
  PROVE  IsFiniteSet(Listed')
<1>1. \E v : Listed' \subseteq Listed \cup {v}
  <2>1. ASSUME NEW v, NEW content, file' = [file EXCEPT ![v] = content]
        PROVE  Listed' \subseteq Listed \cup {v}
    BY <2>1 DEF CacheType, Listed
  <2>2. CASE UNCHANGED file
    BY <2>2 DEF Listed
  <2>3. ASSUME NEW s \in Script,
               Fetch(s) \/ TarSucceeds(s) \/ TarFails(s) \/ Exited(s) \/ Interrupt(s)
        PROVE  \E v : Listed' \subseteq Listed \cup {v}
    <3>1. \/ UNCHANGED file
          \/ \E content : file' = [file EXCEPT ![Current(s)] = content]
      BY <2>3 DEF Fetch, TarSucceeds, TarFails, Exited, Interrupt, Leave, Remove
    <3>2. QED BY <2>1, <2>2, <3>1
  <2>4. ASSUME NEW s \in Script, Evict(s)
        PROVE  \E v : Listed' \subseteq Listed \cup {v}
    BY <2>1, <2>2, <2>4 DEF Evict, Remove
  <2>5. QED
    BY <2>2, <2>3, <2>4, ServeKeeps DEF Next, vars, Begin, Download, Look, List
<1>2. PICK v : Listed' \subseteq Listed \cup {v}
  BY <1>1
<1>3. IsFiniteSet(Listed \cup {v})
  BY FS_AddElement
<1>4. QED BY <1>2, <1>3, FS_Subset

LEMMA StaysBounded ==
  ASSUME IsFiniteSet(Listed), Bounded, CacheAssumption,
         Listed' \subseteq Listed, Listed' \cap Doomed \subseteq Doomed'
  PROVE  Bounded'
<1>1. ASSUME NEW tier
      PROVE  /\ Cardinality((Listed' \cap tier) \ Doomed') \in Nat
             /\ Cardinality((Listed \cap tier) \ Doomed) \in Nat
             /\ Cardinality((Listed' \cap tier) \ Doomed')
                  <= Cardinality((Listed \cap tier) \ Doomed)
  <2>1. /\ (Listed \cap tier) \ Doomed \in SUBSET Listed
        /\ (Listed' \cap tier) \ Doomed' \in SUBSET ((Listed \cap tier) \ Doomed)
    OBVIOUS
  <2>2. QED BY <2>1, FS_Subset, FS_CardinalityType
<1>2. NightlyLimit \in Nat /\ TestnetLimit \in Nat
  BY DEF CacheAssumption
<1>3. QED BY <1>1, <1>2 DEF Bounded

\* The listing dooms all that is beyond a limit.
LEMMA ListBounds ==
  ASSUME CacheType, IsFiniteSet(Listed), NEW s \in Script, List(s)
  PROVE  Bounded'
<1>1. ASSUME NEW tier \in SUBSET Version, NEW limit \in Nat \ {0},
             Beyond(tier, limit) \subseteq Doomed'
      PROVE  Cardinality((Listed' \cap tier) \ Doomed') <= limit
  <2> DEFINE S == Listed \cap tier
             K == S \ Surplus(S, limit)
  <2>1. S \in SUBSET Nat /\ IsFiniteSet(S)
    BY CacheAssumption, FS_Subset DEF Listed
  <2>2. IsFiniteSet(K) /\ Cardinality(K) \in Nat /\ Cardinality(K) <= limit
    <3> HIDE DEF S
    <3> QED BY <2>1, RestIsBounded
  <2>3. Beyond(tier, limit) = Surplus(S, limit)
    BY DEF Beyond, Surplus
  <2>4. Listed' = Listed
    BY DEF List, Listed
  <2>5. (Listed' \cap tier) \ Doomed' \in SUBSET K
    BY <1>1, <2>3, <2>4
  <2> HIDE DEF K
  <2>6. /\ Cardinality((Listed' \cap tier) \ Doomed') \in Nat
        /\ Cardinality((Listed' \cap tier) \ Doomed') <= Cardinality(K)
    BY <2>2, <2>5, FS_Subset, FS_CardinalityType
  <2>7. QED BY <2>2, <2>6
<1>2. Beyond(Nightly, NightlyLimit) \cup Beyond(Testnet, TestnetLimit) \subseteq Doomed'
  <2>1. script'[s].evict = Beyond(Nightly, NightlyLimit) \cup Beyond(Testnet, TestnetLimit)
    BY DEF List, CacheType, Local
  <2>2. QED BY <2>1 DEF Doomed
<1>3. QED BY <1>1, <1>2, CacheAssumption DEF Bounded

LEMMA EvictSweeps ==
  ASSUME SweepInv, NEW s \in Script, Evict(s)
  PROVE  Swept'
<1> USE DEF SweepInv
<1>1. unswept' = unswept
  BY DEF Evict
<1>2. ASSUME NEW t \in Script, script[t].pc \in Filling PROVE script'[t].pc \in Filling
  <2>1. t # s
    BY <1>2 DEF Evict, At, Filling, Working
  <2>2. QED BY <1>2, <2>1 DEF Evict, CacheType
<1>3. ASSUME Bounded PROVE Bounded'
  <2>1. CASE script[s].evict = {} /\ script' = [script EXCEPT ![s] = Idle] /\ UNCHANGED file
    <3>1. Doomed \subseteq Doomed'
      BY <2>1 DEF Doomed, CacheType
    <3>2. Listed' = Listed
      BY <2>1 DEF Listed
    <3>3. QED BY <1>3, <3>1, <3>2, StaysBounded, CacheAssumption
  <2>2. ASSUME NEW v \in script[s].evict,
               Remove(v), script' = [script EXCEPT ![s].evict = @ \ {v}]
        PROVE  Bounded'
    <3>1. v \in Version
      BY EvictedType DEF Evict
    <3>2. Listed' = Listed \ {v}
      BY <2>2, <3>1 DEF Remove, Listed, CacheType
    <3>3. Doomed \ {v} \subseteq Doomed'
      BY <2>2 DEF Doomed, CacheType, Local
    <3>4. QED BY <1>3, <3>2, <3>3, StaysBounded, CacheAssumption
  <2>3. QED BY <2>1, <2>2 DEF Evict
<1>4. QED BY <1>1, <1>2, <1>3 DEF Swept

LEMMA SweepStep == ASSUME SweepInv, [Next]_vars PROVE SweepInv'
<1> USE DEF SweepInv
<1>1. CacheType' /\ IsFiniteSet(Listed')
  BY TypeStep, ListedStep
<1>2. ASSUME UNCHANGED <<file, script, unswept>> PROVE Swept'
  BY <1>2 DEF Swept, Bounded, Listed, Doomed
<1>3. ASSUME NEW s \in Script, NEW local, Moved(s, local), local.pc \in Filling PROVE Swept'
  <2>1. script'[s].pc \in Filling
    BY <1>3 DEF Moved, CacheType
  <2>2. QED BY <2>1 DEF Swept
<1>4. ASSUME NEW s \in Script, NEW args \in Args, Begin(s, args) PROVE Swept'
  BY <1>3, <1>4, BeginMoves DEF Filling, Working
<1>5. ASSUME NEW s \in Script, Look(s) \/ Fetch(s) \/ TarSucceeds(s) \/ TarFails(s) \/ Exited(s)
      PROVE  Swept'
  <2>1. script[s].pc \in Working
    BY <1>5 DEF Look, Fetch, TarSucceeds, TarFails, Exited, At, Working
  <2>2. CASE script' = NextVersion(script, s)
    BY <1>3, <2>1, <2>2, NextVersionMoves DEF Filling, Working
  <2>3. ASSUME NEW pc \in Working, Go(s, pc) PROVE Swept'
    <3> DEFINE local == [script[s] EXCEPT !.pc = pc]
    <3>1. Moved(s, local) /\ local.pc \in Filling
      BY <2>1, <2>3, GoMoves DEF Filling
    <3> HIDE DEF local
    <3>2. QED BY <1>3, <3>1
  <2>4. QED
    BY <1>5, <2>2, <2>3 DEF Look, Fetch, TarSucceeds, TarFails, Exited, Working
<1>6. ASSUME NEW s \in Script, List(s) PROVE Swept'
  BY <1>6, ListBounds DEF Swept
<1>7. ASSUME NEW s \in Script, Interrupt(s) PROVE Swept'
  BY <1>7 DEF Interrupt, Swept
<1>8. QED
  BY <1>1, <1>2, <1>4, <1>5, <1>6, <1>7, ServeKeeps, EvictSweeps DEF Next, Download, vars

LEMMA SweepInit == Init => SweepInv
<1> SUFFICES ASSUME Init PROVE SweepInv
  OBVIOUS
<1>1. Listed = {} /\ Doomed = {}
  BY DEF Init, Listed, Doomed, Idle
<1>2. CacheType
  BY IdleType DEF Init, CacheType, Content
<1>3. Bounded
  BY <1>1, FS_EmptySet, CacheAssumption DEF Bounded
<1>4. QED BY <1>1, <1>2, <1>3, FS_EmptySet DEF SweepInv, Swept

\* However scripts overlap and whatever they failed to download, the tiers are
\* within their limits once all have ended, unless one was interrupted after the
\* last listing.
THEOREM TiersStayBounded == Spec => []TiersAreBounded
<1>1. SweepInv => TiersAreBounded
  <2> SUFFICES ASSUME SweepInv, Running = {}, ~unswept
               PROVE  /\ Cardinality(Listed \cap Nightly) <= NightlyLimit
                      /\ Cardinality(Listed \cap Testnet) <= TestnetLimit
    BY DEF TiersAreBounded
  <2>1. \A s \in Script : script[s] = Idle
    BY DEF Running, SweepInv, CacheType, LocalOK
  <2>2. Doomed = {} /\ ~(\E s \in Script : script[s].pc \in Filling)
    BY <2>1 DEF Doomed, Idle, Filling, Working
  <2>3. QED BY <2>2 DEF SweepInv, Swept, Bounded
<1>2. QED BY <1>1, SweepInit, SweepStep, PTL DEF Spec

-----------------------------------------------------------------------------
(* One script at a time *)

\* The state when s is the only script that runs.
AloneAt(s) ==
  /\ \A t \in Script \ {s} : script[t] = Idle
  /\ ScriptOK(s)
  /\ \A v \in Listed : \/ file[v] = "whole"
                       \/ script[s].pc \in {"writing", "failed"} /\ Current(s) = v

LEMMA IdleIsOK == ASSUME NEW s \in Script, script[s] = Idle PROVE ScriptOK(s)
BY DEF ScriptOK, EvictsOld, At, Idle

LEMMA NoneDoomedIsOK ==
  ASSUME NEW s \in Script, script[s].evict = {}
  PROVE  /\ script[s].evict \subseteq Nightly \cup Testnet
         /\ EvictsOld(s, Nightly, NightlyLimit) /\ EvictsOld(s, Testnet, TestnetLimit)
BY DEF EvictsOld

LEMMA RunsAlone ==
  ASSUME AloneInv, ~torn, NEW s \in Script, \A t \in Running : t = s
  PROVE  AloneAt(s)
<1>1. \A t \in Script \ {s} : script[t] = Idle
  BY DEF AloneInv, CacheType, LocalOK, Running
<1>2. \A t \in Script : script[t].pc \in {"writing", "failed"} => t = s
  BY DEF Running
<1>3. QED BY <1>1, <1>2 DEF AloneInv, Alone, AloneAt, AvailableIsWhole

LEMMA AloneSuffices == ASSUME NEW s \in Script, AloneAt(s) PROVE Alone
<1>1. \A t \in Script : ScriptOK(t)
  BY IdleIsOK DEF AloneAt
<1>2. \A t \in Running : t = s
  BY DEF AloneAt, Running, Idle
<1>3. AvailableIsWhole
  BY DEF AloneAt, AvailableIsWhole
<1>4. QED BY <1>1, <1>2, <1>3 DEF Alone

\* What a listing dooms is old.
LEMMA ListDoomsOld ==
  ASSUME CacheType, IsFiniteSet(Listed), NEW s \in Script, List(s), Listed = Whole
  PROVE  /\ script'[s].evict \subseteq Nightly \cup Testnet
         /\ EvictsOld(s, Nightly, NightlyLimit)' /\ EvictsOld(s, Testnet, TestnetLimit)'
<1> DEFINE old == Beyond(Nightly, NightlyLimit) \cup Beyond(Testnet, TestnetLimit)
<1>1. script'[s].evict = old /\ Whole' = Whole
  BY DEF List, CacheType, Local, Whole
<1>2. ASSUME NEW tier \in SUBSET Version, NEW limit \in Nat \ {0},
             old \cap tier = Beyond(tier, limit)
      PROVE  EvictsOld(s, tier, limit)'
  <2> DEFINE S == Listed \cap tier
  <2>1. S \in SUBSET Nat /\ IsFiniteSet(S)
    BY CacheAssumption, FS_Subset DEF Listed
  <2>2. Beyond(tier, limit) = Surplus(S, limit)
    BY DEF Beyond, Surplus
  <2>3. (Whole' \cap tier) \ script'[s].evict = S \ Surplus(S, limit)
    BY <1>1, <1>2, <2>2
  <2>4. \A v \in Surplus(S, limit) : Cardinality(Newer(v, S \ Surplus(S, limit))) >= limit
    <3> HIDE DEF S
    <3> QED BY <2>1, RestIsNewer
  <2>5. script'[s].evict \cap tier = Surplus(S, limit)
    BY <1>1, <1>2, <2>2
  <2> HIDE DEF S, old
  <2>6. QED BY <2>3, <2>4, <2>5 DEF EvictsOld
<1>3. Nightly \cap Testnet = {}
  BY CacheAssumption
<1>4. old \cap Nightly = Beyond(Nightly, NightlyLimit)
  BY <1>3 DEF Beyond
<1>5. old \cap Testnet = Beyond(Testnet, TestnetLimit)
  BY <1>3 DEF Beyond
<1>6. old \subseteq Nightly \cup Testnet
  BY DEF Beyond
<1> HIDE DEF old
<1>7. QED BY <1>1, <1>2, <1>4, <1>5, <1>6, CacheAssumption

LEMMA DownloadAlone ==
  ASSUME CacheType, IsFiniteSet(Listed), NEW s \in Script, AloneAt(s),
         Look(s) \/ Fetch(s) \/ TarSucceeds(s) \/ TarFails(s) \/ Exited(s)
  PROVE  AloneAt(s)'
<1>1. script[s].pc \in Working
  BY DEF Look, Fetch, TarSucceeds, TarFails, Exited, At, Working
<1>2. Current(s) \in Version /\ s \notin {"none", "whole", "broken"}
  BY <1>1, CurrentType, CacheAssumption
<1>3. \A t \in Script \ {s} : script'[t] = Idle
  BY DEF AloneAt, CacheType, Look, Fetch, TarSucceeds, TarFails, Exited, Go, NextVersion
<1>4. ASSUME script' = NextVersion(script, s), \A v \in Listed' : file'[v] = "whole"
      PROVE  AloneAt(s)'
  <2>1. PICK local \in Local : Moved(s, local) /\ local.pc \in {"look", "list"}
                               /\ local.evict = {}
    BY <1>1, <1>4, NextVersionMoves
  <2>2. script'[s] = local
    BY <2>1 DEF Moved, CacheType
  <2>3. ScriptOK(s)'
    BY <2>1, <2>2, NoneDoomedIsOK DEF ScriptOK, At, EvictsOld
  <2>4. QED BY <1>3, <1>4, <2>3 DEF AloneAt
<1>5. ASSUME NEW pc \in Working, Go(s, pc)
      PROVE  script'[s].pc = pc /\ script'[s].evict = {} /\ Current(s)' = Current(s)
  <2> DEFINE local == [script[s] EXCEPT !.pc = pc]
  <2>1. /\ Moved(s, local) /\ local.pc = pc /\ local.todo = script[s].todo
        /\ local.evict = {}
    BY <1>1, <1>5, GoMoves
  <2> HIDE DEF local
  <2>2. QED BY <2>1 DEF Moved, CacheType, Current
<1> USE DEF ScriptOK, EvictsOld, At
<1>6. CASE Look(s)
  <2>1. file' = file /\ Listed' = Listed /\ \A v \in Listed : file[v] = "whole"
    BY <1>6 DEF Look, At, AloneAt, Listed
  <2>2. CASE script' = NextVersion(script, s)
    BY <1>4, <2>1, <2>2
  <2>3. CASE Current(s) \notin Listed /\ Go(s, "fetch")
    <3>1. file'[Current(s)] = "none"
      BY <1>2, <2>1, <2>3 DEF Listed
    <3>2. script'[s].pc = "fetch" /\ script'[s].evict = {} /\ Current(s)' = Current(s)
      BY <1>5, <2>3 DEF Working
    <3>3. QED BY <1>3, <2>1, <3>1, <3>2 DEF AloneAt
  <2>4. QED BY <1>6, <2>2, <2>3 DEF Look
<1>7. CASE Fetch(s)
  <2>1. file[Current(s)] = "none" /\ \A v \in Listed : file[v] = "whole"
    BY <1>7 DEF Fetch, AloneAt
  <2>2. CASE script' = NextVersion(script, s) /\ UNCHANGED file
    BY <1>4, <2>1, <2>2 DEF Listed
  <2>3. CASE Go(s, "failed") /\ UNCHANGED file
    <3>1. script'[s].pc = "failed" /\ script'[s].evict = {} /\ Current(s)' = Current(s)
      BY <1>5, <2>3 DEF Working
    <3>2. file' = file /\ Listed' = Listed
      BY <2>3 DEF Listed
    <3>3. QED BY <1>3, <2>1, <3>1, <3>2 DEF AloneAt
  <2>4. CASE Go(s, "writing") /\ file' = [file EXCEPT ![Current(s)] = s]
    <3>1. file'[Current(s)] = s
      BY <1>2, <2>4 DEF CacheType
    <3>2. \A v \in Listed' : file'[v] = "whole" \/ v = Current(s)
      BY <2>1, <2>4 DEF CacheType, Listed
    <3>3. script'[s].pc = "writing" /\ script'[s].evict = {} /\ Current(s)' = Current(s)
      BY <1>5, <2>4 DEF Working
    <3>4. QED BY <1>3, <3>1, <3>2, <3>3 DEF AloneAt
  <2>5. QED BY <1>7, <2>2, <2>3, <2>4 DEF Fetch
<1>8. ASSUME NEW content \in {"whole", "broken"}, At(s, "writing"), Leave(s, content)
      PROVE  /\ file'[Current(s)] = content
             /\ \A v \in Listed' : file'[v] = "whole" \/ v = Current(s)
  <2>1. file[Current(s)] = s
    BY <1>8 DEF AloneAt, ScriptOK
  <2>2. file' = [file EXCEPT ![Current(s)] = content]
    BY <1>8, <2>1 DEF Leave
  <2>3. QED BY <1>2, <2>2 DEF AloneAt, CacheType, Listed
<1>9. CASE TarSucceeds(s)
  <2>1. Go(s, "succeeded") /\ At(s, "writing") /\ Leave(s, "whole")
    BY <1>9 DEF TarSucceeds
  <2>2. \A v \in Listed' : file'[v] = "whole"
    BY <1>8, <2>1
  <2>3. script'[s].pc = "succeeded" /\ script'[s].evict = {} /\ Current(s)' = Current(s)
    BY <1>5, <2>1 DEF Working
  <2>4. QED BY <1>3, <1>8, <2>1, <2>2, <2>3 DEF AloneAt
<1>10. CASE TarFails(s)
  <2>1. Go(s, "failed") /\ At(s, "writing") /\ Leave(s, "broken")
    BY <1>10 DEF TarFails
  <2>2. script'[s].pc = "failed" /\ script'[s].evict = {} /\ Current(s)' = Current(s)
    BY <1>5, <2>1 DEF Working
  <2>3. QED BY <1>3, <1>8, <2>1, <2>2 DEF AloneAt
<1>11. CASE Exited(s)
  <2>1. script' = NextVersion(script, s)
    BY <1>11 DEF Exited
  <2>2. CASE At(s, "succeeded")
    <3>1. Current(s) \in Listed
      BY <1>2, <2>2 DEF AloneAt, ScriptOK, Listed
    <3>2. UNCHANGED file
      BY <1>11, <2>2, <3>1 DEF Exited, At
    <3>3. \A v \in Listed' : file'[v] = "whole"
      BY <2>2, <3>2 DEF AloneAt, At, Listed
    <3>4. QED BY <1>4, <2>1, <3>3
  <2>3. CASE At(s, "failed")
    <3>1. Remove(Current(s))
      BY <1>11, <2>3 DEF Exited, At
    <3>2. \A v \in Listed' : file'[v] = "whole"
      BY <1>2, <2>3, <3>1 DEF AloneAt, Remove, CacheType, Listed
    <3>3. QED BY <1>4, <2>1, <3>2
  <2>4. QED BY <1>11, <2>2, <2>3 DEF Exited, At
<1>12. QED BY <1>6, <1>7, <1>9, <1>10, <1>11

LEMMA ListAlone ==
  ASSUME CacheType, IsFiniteSet(Listed), NEW s \in Script, AloneAt(s), List(s)
  PROVE  AloneAt(s)'
<1>1. UNCHANGED file /\ Listed' = Listed /\ \A v \in Listed : file[v] = "whole"
  BY DEF List, At, AloneAt, Listed
<1>2. Listed = Whole
  BY <1>1 DEF Listed, Whole
<1>3. script'[s].pc = "evict" /\ \A t \in Script \ {s} : script'[t] = Idle
  BY DEF List, CacheType, Local, AloneAt
<1>4. ScriptOK(s)'
  BY <1>2, <1>3, ListDoomsOld DEF ScriptOK, At
<1>5. QED BY <1>1, <1>3, <1>4 DEF AloneAt

LEMMA EvictAlone ==
  ASSUME CacheType, NEW s \in Script, AloneAt(s), Evict(s)
  PROVE  AloneAt(s)'
<1>1. \A v \in Listed : file[v] = "whole"
  BY DEF Evict, At, AloneAt
<1>2. CASE script' = [script EXCEPT ![s] = Idle] /\ UNCHANGED file
  <2>1. script'[s] = Idle /\ \A t \in Script \ {s} : script'[t] = Idle
    BY <1>2 DEF CacheType, AloneAt
  <2>2. ScriptOK(s)'
    BY <2>1 DEF ScriptOK, EvictsOld, At, Idle
  <2>3. QED BY <1>1, <1>2, <2>1, <2>2 DEF AloneAt, Listed
<1>3. ASSUME NEW v \in script[s].evict,
             Remove(v), script' = [script EXCEPT ![s].evict = @ \ {v}]
      PROVE  AloneAt(s)'
  <2>1. /\ script'[s].pc = "evict" /\ script'[s].evict = script[s].evict \ {v}
        /\ \A t \in Script \ {s} : script'[t] = Idle
    BY <1>3 DEF CacheType, Local, AloneAt, Evict, At
  <2>2. v \in Version
    BY EvictedType DEF Evict
  <2>3. Whole' = Whole \ {v} /\ \A w \in Listed' : file'[w] = "whole"
    BY <1>1, <1>3, <2>2 DEF Remove, CacheType, Whole, Listed
  <2>4. ASSUME NEW tier, NEW limit, EvictsOld(s, tier, limit)
        PROVE  EvictsOld(s, tier, limit)'
    <3>1. (Whole' \cap tier) \ script'[s].evict = (Whole \cap tier) \ script[s].evict
      BY <2>1, <2>3
    <3>2. QED BY <2>1, <2>4, <3>1 DEF EvictsOld
  <2>5. ScriptOK(s)'
    BY <2>1, <2>4 DEF AloneAt, ScriptOK, At
  <2>6. QED BY <2>1, <2>3, <2>5 DEF AloneAt
<1>4. QED BY <1>2, <1>3 DEF Evict

LEMMA AloneStep == ASSUME AloneInv, [Next]_vars PROVE AloneInv'
<1>1. CacheType' /\ IsFiniteSet(Listed')
  BY TypeStep, ListedStep DEF AloneInv
<1>2. Alone'
  <2>1. ASSUME UNCHANGED <<file, script, torn>> PROVE Alone'
    BY <2>1 DEF AloneInv, Alone, Running, ScriptOK, EvictsOld, Whole, Current, At,
                AvailableIsWhole, Listed
  <2>2. ASSUME NEW s \in Script, NEW args \in Args, Begin(s, args) PROVE Alone'
    <3>1. CASE torn \/ Running # {}
      BY <2>2, <3>1 DEF Begin, Alone
    <3>2. CASE ~torn /\ Running = {}
      <4>1. AloneAt(s)
        BY <3>2, RunsAlone
      <4>2. Moved(s, [Idle EXCEPT !.pc = "look", !.todo = args])
        BY <2>2, BeginMoves DEF AloneInv
      <4>3. /\ script'[s].pc = "look" /\ script'[s].evict = {}
            /\ \A t \in Script \ {s} : script'[t] = Idle
        BY <4>1, <4>2 DEF Moved, AloneInv, CacheType, AloneAt, Idle
      <4>4. ScriptOK(s)'
        BY <4>3 DEF ScriptOK, EvictsOld, At
      <4>5. file' = file /\ Listed' = Listed /\ \A v \in Listed : file[v] = "whole"
        BY <2>2, <4>1 DEF Begin, AloneAt, Idle, Listed
      <4>6. AloneAt(s)'
        BY <4>3, <4>4, <4>5 DEF AloneAt
      <4>7. QED BY <4>6, AloneSuffices, PTL
    <3>3. QED BY <3>1, <3>2
  <2>3. ASSUME NEW s \in Script, Download(s) PROVE Alone'
    <3>1. torn' = torn /\ s \in Running
      BY <2>3
         DEF Download, Look, Fetch, TarSucceeds, TarFails, Exited, List, Evict, At, Running
    <3>2. CASE ~torn
      <4>1. AloneAt(s)
        BY <3>1, <3>2, RunsAlone DEF AloneInv, Alone
      <4>2. AloneAt(s)'
        BY <2>3, <4>1, DownloadAlone, ListAlone, EvictAlone DEF Download, AloneInv
      <4>3. QED BY <4>2, AloneSuffices, PTL
    <3>3. QED BY <3>1, <3>2 DEF Alone
  <2>4. ASSUME NEW s \in Script, Interrupt(s) PROVE Alone'
    BY <2>4 DEF Interrupt, Alone
  <2>5. QED BY <2>1, <2>2, <2>3, <2>4, ServeKeeps DEF Next, vars
<1>3. QED BY <1>1, <1>2 DEF AloneInv

LEMMA AloneInit == Init => AloneInv
<1> SUFFICES ASSUME Init PROVE AloneInv
  OBVIOUS
<1>1. CacheType /\ IsFiniteSet(Listed)
  BY SweepInit DEF SweepInv
<1>2. Listed = {} /\ Running = {} /\ \A s \in Script : script[s] = Idle
  BY DEF Init, Listed, Running, Idle
<1>3. QED BY <1>1, <1>2, IdleIsOK DEF AloneInv, Alone, AvailableIsWhole

LEMMA AloneAlways == Spec => []AloneInv
BY AloneInit, AloneStep, PTL DEF Spec

\* Scripts that run one at a time to their end leave nothing partial that
\* /health lists or a prove is made with.
THEOREM AvailableStaysWhole == Spec => []AvailableIsWhole
<1>1. AloneInv => AvailableIsWhole
  BY DEF AloneInv, Alone, AvailableIsWhole
<1>2. QED BY <1>1, AloneAlways, PTL

\* The rule a whole version must meet to go.
IsOld(v) ==
  /\ v \in Nightly \cup Testnet
  /\ v \in Nightly => Cardinality(Newer(v, Whole \cap Nightly)) >= NightlyLimit
  /\ v \in Testnet => Cardinality(Newer(v, Whole \cap Testnet)) >= TestnetLimit

LEMMA DoomedIsOld ==
  ASSUME CacheType, IsFiniteSet(Listed), NEW s \in Script, ScriptOK(s),
         NEW v \in script[s].evict
  PROVE  IsOld(v)
<1>1. ASSUME NEW tier, NEW limit \in Nat, EvictsOld(s, tier, limit), v \in tier
      PROVE  Cardinality(Newer(v, Whole \cap tier)) >= limit
  <2> DEFINE S == Whole \cap tier
             R == S \ script[s].evict
  <2>1. S \in SUBSET Listed /\ R \in SUBSET Listed
    BY DEF Whole, Listed
  <2>2. IsFiniteSet(S) /\ IsFiniteSet(R)
    BY <2>1, FS_Subset
  <2>3. Cardinality(Newer(v, R)) >= limit
    BY <1>1 DEF EvictsOld
  <2>4. Newer(v, R) \in SUBSET Newer(v, S)
    BY DEF Newer
  <2> HIDE DEF S, R
  <2>5. Cardinality(Newer(v, R)) <= Cardinality(Newer(v, S))
    BY <2>2, <2>4, NewerFinite, FS_Subset
  <2>6. QED BY <2>2, <2>3, <2>5, NewerFinite DEF S
<1>2. QED BY <1>1, CacheAssumption DEF ScriptOK, IsOld

\* Only an eviction takes a whole version away.
LEMMA RemovedIsOld ==
  ASSUME AloneInv, [Next]_vars, ~torn', NEW v \in Version,
         file[v] = "whole", file'[v] # "whole"
  PROVE  IsOld(v)
<1>1. ASSUME NEW s \in Script, Download(s) PROVE IsOld(v)
  <2>1. ~torn /\ s \in Running
    BY <1>1
       DEF Download, Look, Fetch, TarSucceeds, TarFails, Exited, List, Evict, At, Running
  <2>2. AloneAt(s) /\ ScriptOK(s)
    BY <2>1, RunsAlone DEF AloneInv, Alone, AloneAt
  <2>3. s # "whole"
    BY CacheAssumption
  <2>4. CASE Fetch(s) \/ TarSucceeds(s) \/ TarFails(s) \/ Exited(s)
    <3>1. file' # file
      OBVIOUS
    <3>2. file[Current(s)] # "whole"
      <4>1. CASE Exited(s) /\ At(s, "succeeded")
        <5>1. file[Current(s)] = "whole" /\ Current(s) \in Version
          BY <2>2, <4>1, CurrentType DEF ScriptOK, AloneInv, At, Working
        <5>2. Current(s) \in Listed
          BY <5>1 DEF Listed
        <5>3. QED BY <3>1, <4>1, <5>2 DEF Exited, At
      <4>2. QED
        BY <2>2, <2>3, <2>4, <4>1 DEF ScriptOK, Fetch, TarSucceeds, TarFails, Exited, At
    <3>3. v # Current(s)
      BY <3>2
    <3>4. file'[v] = file[v]
      BY <2>4, <3>3
         DEF Fetch, TarSucceeds, TarFails, Exited, Leave, Remove, AloneInv, CacheType
    <3>5. QED BY <3>4
  <2>5. CASE Evict(s)
    <3>1. v \in script[s].evict
      BY <2>5 DEF Evict, Remove, AloneInv, CacheType
    <3>2. QED BY <2>2, <3>1, DoomedIsOld DEF AloneInv
  <2>6. QED BY <1>1, <2>4, <2>5 DEF Download, Look, List
<1>2. ~(\E s \in Script : Interrupt(s))
  BY DEF Interrupt
<1>3. file' # file
  OBVIOUS
<1>4. \A s \in Script : \A args : ~Begin(s, args)
  BY <1>3 DEF Begin
<1>5. QED BY <1>1, <1>2, <1>3, <1>4, ServeKeeps DEF Next, vars

\* A whole version goes only when its tier has its number of newer whole ones,
\* as long as no script is interrupted or meets another.
THEOREM WholeStaysKept == Spec => WholeIsKept
<1> DEFINE A ==
      \A v \in Version : file[v] = "whole" /\ file'[v] # "whole" /\ ~torn' =>
        LET whole == {w \in Version : file[w] = "whole"} IN
          /\ v \in Nightly \cup Testnet
          /\ v \in Nightly => Cardinality(Newer(v, whole \cap Nightly)) >= NightlyLimit
          /\ v \in Testnet => Cardinality(Newer(v, whole \cap Testnet)) >= TestnetLimit
<1>1. AloneInv /\ [Next]_vars => [A]_vars
  BY RemovedIsOld DEF IsOld, Whole
<1>2. QED BY <1>1, AloneAlways, PTL DEF Spec, WholeIsKept
=============================================================================
