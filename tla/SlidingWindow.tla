---------------------------- MODULE SlidingWindow ----------------------------
(***************************************************************************)
(* What the host's rate limiter promises: a request of a client is         *)
(* admitted exactly when fewer than Limit of the client's requests were    *)
(* admitted within the last Window milliseconds.  The whole history is     *)
(* remembered; packages/server/src/lib/rate-limit.ts gets by with less.    *)
(***************************************************************************)
EXTENDS Integers, FiniteSets

CONSTANTS
  Request,   \* requests to /prove
  Ip,        \* client addresses
  Exempt,    \* those that are not limited
  Window,    \* length of the window, in milliseconds
  Limit      \* requests admitted per window

VARIABLES
  now,       \* the time
  log        \* the decisions made so far

Decision == [req : Request, ip : Ip, at : Int, ok : BOOLEAN]

Admitted(ip, from, to) ==
  {d \in log : d.ip = ip /\ d.ok /\ from <= d.at /\ d.at < to}

\* Admitted requests that have not left the window that ends now.
Recent(ip) == {d \in log : d.ip = ip /\ d.ok /\ d.at > now - Window}

TypeOK == now \in Int /\ log \subseteq Decision

Init == now \in Int /\ log = {}

Decide(r, ip) ==
  /\ \A d \in log : d.req # r
  /\ log' = log \cup
       {[req |-> r, ip |-> ip, at |-> now,
         ok |-> ip \in Exempt \/ Cardinality(Recent(ip)) < Limit]}
  /\ UNCHANGED now

Tick ==
  /\ now' \in Int
  /\ now' > now
  /\ UNCHANGED log

Next == Tick \/ \E r \in Request, ip \in Ip : Decide(r, ip)

Spec == Init /\ [][Next]_<<now, log>>

\* packages/server/README.md:53, "10 requests per hour per IP": no window,
\* wherever it starts, holds more than Limit admitted requests of one client.
WithinLimit ==
  \A e \in log : e.ip \notin Exempt =>
    Cardinality(Admitted(e.ip, e.at, e.at + Window)) <= Limit
=============================================================================
