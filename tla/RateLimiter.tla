----------------------------- MODULE RateLimiter -----------------------------
(***************************************************************************)
(* The rate limiter in front of POST /prove                                *)
(* (packages/server/src/lib/rate-limit.ts and its use in index.ts).        *)
(*                                                                         *)
(* The limiter keeps, for the addresses it has seen, the requests it       *)
(* admitted lately.  It drops old ones when the address asks again and     *)
(* from a timer.  The code keeps timestamps in arrays; as their order does *)
(* not matter, sets of requests stand for them.  log is a history          *)
(* variable: the decisions made.                                           *)
(***************************************************************************)
EXTENDS Integers, FiniteSets

CONSTANTS
  Request, Ip, Exempt, Window, Limit,
  PruneInterval,   \* milliseconds between two runs of the timer
  Unknown,         \* the address of a request of which none is known
  None,
  MaxNow           \* bound: the last instant considered

ASSUME LimiterAssumption ==
  /\ Exempt \subseteq Ip
  /\ Window \in Nat
  /\ Limit \in Nat
  /\ PruneInterval \in Nat \ {0}
  /\ Unknown \in Ip
  /\ None \notin Ip
  /\ MaxNow \in Int

VARIABLES
  now,        \* Date.now()
  hits,       \* #hits: for the addresses tracked, the requests remembered
  nextPrune,  \* when #pruneTimer fires next
  log

vars == <<now, hits, nextPrune, log>>

Promise == INSTANCE SlidingWindow WITH now <- now, log <- log

Hit == [req : Request, at : Int]

TypeOK ==
  /\ now \in Int
  /\ nextPrune \in Int
  /\ DOMAIN hits \subseteq Ip
  /\ \A ip \in DOMAIN hits : hits[ip] \subseteq Hit
  /\ log \subseteq Promise!Decision

Init ==
  /\ now = 0
  /\ hits = [ip \in {} |-> {}]
  /\ nextPrune = PruneInterval
  /\ log = {}

-----------------------------------------------------------------------------
\* The first hop of X-Forwarded-For if there is one, else the peer's address.
ClientIp(forwarded, peer) ==
  IF forwarded # None THEN forwarded
  ELSE IF peer # None THEN peer ELSE Unknown

Remembered(ip) == IF ip \in DOMAIN hits THEN hits[ip] ELSE {}

Live_OffByOne(ip) ==       \* mutant: the oldest instant of the window is lost
  {h \in Remembered(ip) : h.at > now - Window + 1}

Live(ip) == {h \in Remembered(ip) : h.at > now - Window}

Decided(r, ip, ok) == log' = log \cup
  {[req |-> r, ip |-> ip, at |-> now, ok |-> ok]}

Store(ip, kept) ==
  hits' = [i \in DOMAIN hits \cup {ip} |-> IF i = ip THEN kept ELSE hits[i]]

IsLimited_CountsRejected(r, ip) ==    \* mutant: rejected requests count
  /\ Store(ip, Live(ip) \cup {[req |-> r, at |-> now]})
  /\ Decided(r, ip, Cardinality(Live(ip)) < Limit)

\* isLimited(ip): expired hits are dropped, then the rest counted.
IsLimited(r, ip) ==
  LET limited == Cardinality(Live(ip)) >= Limit IN
  /\ Store(ip, IF limited THEN Live(ip)
               ELSE Live(ip) \cup {[req |-> r, at |-> now]})
  /\ Decided(r, ip, ~limited)

\* POST /prove: local clients pass; others are told 429 when limited.
Prove(r, forwarded, peer) ==
  LET ip == ClientIp(forwarded, peer) IN
  /\ \A d \in log : d.req # r
  /\ IF ip \in Exempt
       THEN Decided(r, ip, TRUE) /\ UNCHANGED hits
       ELSE IsLimited(r, ip)
  /\ UNCHANGED <<now, nextPrune>>

Prune_KeepsEmpty ==       \* mutant: entries without live hits stay
  /\ now >= nextPrune
  /\ nextPrune' = now + PruneInterval
  /\ hits' = [ip \in DOMAIN hits |-> IF Live(ip) = {} THEN hits[ip] ELSE Live(ip)]
  /\ UNCHANGED <<now, log>>

\* The timer: addresses without live hits are forgotten.
Prune ==
  /\ now >= nextPrune
  /\ nextPrune' = now + PruneInterval
  /\ hits' = [ip \in {i \in DOMAIN hits : Live(i) # {}} |-> Live(ip)]
  /\ UNCHANGED <<now, log>>

\* Time passes, but not beyond the instant at which a timer is due.
Tick ==
  /\ now < MaxNow
  /\ now < nextPrune
  /\ now' = now + 1
  /\ UNCHANGED <<hits, nextPrune, log>>

Next ==
  \/ Tick
  \/ Prune
  \/ \E r \in Request, forwarded \in Ip \cup {None}, peer \in Ip \cup {None} :
       Prove(r, forwarded, peer)

Spec == Init /\ [][Next]_vars

-----------------------------------------------------------------------------
\* The limiter decides as the abstract window over the whole history does:
\* what it forgets makes no difference.
Implements == Promise!Spec

WithinLimit == Promise!WithinLimit

\* "Automatically prunes expired entries to prevent unbounded memory growth":
\* no hit outlives its window by more than a timer period, and no address stays
\* without a hit.
MemoryBounded ==
  \A ip \in DOMAIN hits :
    /\ Limit > 0 => hits[ip] # {}
    /\ \A h \in hits[ip] : h.at > now - Window - PruneInterval
=============================================================================
