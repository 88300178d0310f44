-------------------------- MODULE OperationProofs ---------------------------
(***************************************************************************)
(* What holds of an operation of the playground: of its transactions, for  *)
(* any number of attempts and any timeout, and of the animation that shows *)
(* it, for any phases, display time and queue.                             *)
(***************************************************************************)
EXTENDS TransactionFlow, PhaseAnimation, SequenceTheorems, TLAPS

-----------------------------------------------------------------------------
(* The transactions of an operation *)

\* The steps an operation of a kind may have ahead.
Plans ==
  [none |-> {<<>>}, account |-> {<<"account">>, <<>>}, token |-> {<<"token">>, <<>>},
   flow |-> {<<"bob", "token", "mint", "transfer">>, <<"token", "mint", "transfer">>,
             <<"mint", "transfer">>, <<"transfer">>, <<>>}]

Kind == {"none", "account", "token", "flow"}
From == Wallet \cup {"none", "zero"}

\* Positions before a transaction of the step is accepted.
Before == {"create", "simulate", "resimulate", "send"}

PlanSet == UNION {Plans[k] : k \in Kind}

Operations ==
  [pc : Before \cup {"idle", "confirm", "balances", "ok", "failed"}, kind : Kind,
   plan : PlanSet, by : Wallet, from : From, alice : From, bob : From,
   attempt : 1..Attempts, left : 0..Timeout]

Status == {"unsent", "pending", "mined", "reverted", "dropped"}

Settled(s) == tx[s].accepted = 1 /\ tx[s].status \in {"mined", "reverted"}

Members(plan) == {plan[i] : i \in DOMAIN plan}

Ahead == Members(op.plan)

FlowType ==
  /\ wallet \in Wallet /\ addresses \in Seq(Wallet)
  /\ op \in Operations /\ op.plan \in Plans[op.kind]
  /\ tx \in [Step -> [status : Status, accepted : {0, 1}]]

\* The effects the steps of a token flow rely on.
Chained ==
  /\ \A s \in Step : tx[s].accepted = 0 <=> tx[s].status = "unsent"
  /\ tx["transfer"].status # "reverted"
  /\ tx["transfer"].accepted = 1 => tx["mint"].status = "mined"
  /\ tx["mint"].accepted = 1 => tx["token"].status = "mined"

\* What a step ahead, and one behind, has sent.
Ordered ==
  /\ op.pc \in Before \cup {"confirm"} => op.plan # <<>>
  /\ op.pc \in Before => \A s \in Ahead : tx[s] = Unsent
  /\ At("confirm") => /\ tx[step].accepted = 1
                      /\ \A s \in Ahead \ {step} : tx[s] = Unsent
  /\ op.pc \in Before \cup {"confirm", "balances", "ok"} =>
       \A s \in Step \ Ahead : tx[s] = Unsent \/ Settled(s)
  /\ op.pc \in {"balances", "ok"} =>
       /\ op.plan = <<>> /\ op.kind # "none"
       /\ Settled(IF op.kind = "flow" THEN "transfer" ELSE op.kind)
  /\ At("balances") => op.kind = "flow"

FlowInv == FlowType /\ Chained /\ Ordered

LEMMA PlanFacts ==
  ASSUME NEW kind \in Kind, NEW plan \in Plans[kind], plan # <<>>
  PROVE  /\ Head(plan) \in Step /\ Tail(plan) \in Plans[kind]
         /\ Members(plan) = {Head(plan)} \cup Members(Tail(plan))
         /\ Head(plan) \notin Members(Tail(plan))
         /\ Len(plan) > 1 <=> Tail(plan) # <<>>
         /\ Tail(plan) = <<>> => Head(plan) = IF kind = "flow" THEN "transfer" ELSE kind
         /\ kind # "none"
<1>1. ASSUME NEW a PROVE
        /\ Head(<<a>>) = a /\ Tail(<<a>>) = <<>> /\ Len(<<a>>) = 1
        /\ Members(<<a>>) = {a} /\ Members(<<>>) = {} /\ <<a>> # <<>>
  BY DEF Members
<1>2. ASSUME NEW a, NEW b PROVE
        /\ Head(<<a, b>>) = a /\ Tail(<<a, b>>) = <<b>> /\ Len(<<a, b>>) = 2
        /\ Members(<<a, b>>) = {a, b} /\ <<a, b>> # <<>>
  BY DEF Members
<1>3. ASSUME NEW a, NEW b, NEW c PROVE
        /\ Head(<<a, b, c>>) = a /\ Tail(<<a, b, c>>) = <<b, c>> /\ Len(<<a, b, c>>) = 3
        /\ Members(<<a, b, c>>) = {a, b, c} /\ <<a, b, c>> # <<>>
  BY DEF Members
<1>4. ASSUME NEW a, NEW b, NEW c, NEW d PROVE
        /\ Head(<<a, b, c, d>>) = a /\ Tail(<<a, b, c, d>>) = <<b, c, d>>
        /\ Len(<<a, b, c, d>>) = 4
        /\ Members(<<a, b, c, d>>) = {a, b, c, d} /\ <<a, b, c, d>> # <<>>
  BY DEF Members
<1>5. ASSUME NEW a \in Step, plan = <<a>>, <<>> \in Plans[kind], kind # "none",
             a = IF kind = "flow" THEN "transfer" ELSE kind
      PROVE  /\ Head(plan) \in Step /\ Tail(plan) \in Plans[kind]
             /\ Members(plan) = {Head(plan)} \cup Members(Tail(plan))
             /\ Head(plan) \notin Members(Tail(plan))
             /\ Len(plan) > 1 <=> Tail(plan) # <<>>
             /\ Tail(plan) = <<>> => Head(plan) = IF kind = "flow" THEN "transfer" ELSE kind
             /\ kind # "none"
  BY <1>1, <1>5
<1>6. CASE kind \in {"none", "account", "token"}
  BY <1>5, <1>6 DEF Plans, Step
<1>7. CASE kind = "flow"
  <2>1. Plans[kind] = {<<"bob", "token", "mint", "transfer">>, <<"token", "mint", "transfer">>,
                       <<"mint", "transfer">>, <<"transfer">>, <<>>}
    BY <1>7 DEF Plans
  <2>2. CASE plan = <<"transfer">>
    BY <1>5, <1>7, <2>1, <2>2 DEF Step
  <2>3. CASE plan = <<"mint", "transfer">>
    <3>1. /\ Head(plan) = "mint" /\ Tail(plan) = <<"transfer">> /\ Len(plan) = 2
          /\ Members(plan) = {"mint", "transfer"} /\ Members(Tail(plan)) = {"transfer"}
          /\ Tail(plan) # <<>>
      BY <1>1, <1>2, <2>3
    <3>2. QED BY <1>7, <2>1, <3>1 DEF Step
  <2>4. CASE plan = <<"token", "mint", "transfer">>
    <3>1. /\ Head(plan) = "token" /\ Tail(plan) = <<"mint", "transfer">> /\ Len(plan) = 3
          /\ Members(plan) = {"token", "mint", "transfer"}
      BY <1>3, <2>4
    <3>2. Members(<<"mint", "transfer">>) = {"mint", "transfer"} /\ <<"mint", "transfer">> # <<>>
      BY <1>2
    <3>3. Members(Tail(plan)) = {"mint", "transfer"} /\ Tail(plan) # <<>>
      BY <3>1, <3>2, Zenon
    <3>4. Head(plan) \in Step /\ Tail(plan) \in Plans[kind]
      BY <2>1, <3>1 DEF Step
    <3>5. /\ Members(plan) = {Head(plan)} \cup Members(Tail(plan))
          /\ Head(plan) \notin Members(Tail(plan))
      BY <3>1, <3>3
    <3>6. QED BY <1>7, <3>1, <3>3, <3>4, <3>5
  <2>5. CASE plan = <<"bob", "token", "mint", "transfer">>
    <3>1. /\ Head(plan) = "bob" /\ Tail(plan) = <<"token", "mint", "transfer">>
          /\ Len(plan) = 4 /\ Members(plan) = {"bob", "token", "mint", "transfer"}
      BY <1>4, <2>5
    <3>2. Members(<<"token", "mint", "transfer">>) = {"token", "mint", "transfer"} /\ <<"token", "mint", "transfer">> # <<>>
      BY <1>3
    <3>3. Members(Tail(plan)) = {"token", "mint", "transfer"} /\ Tail(plan) # <<>>
      BY <3>1, <3>2, Zenon
    <3>4. Head(plan) \in Step /\ Tail(plan) \in Plans[kind]
      BY <2>1, <3>1 DEF Step
    <3>5. /\ Members(plan) = {Head(plan)} \cup Members(Tail(plan))
          /\ Head(plan) \notin Members(Tail(plan))
      BY <3>1, <3>3
    <3>6. QED BY <1>7, <3>1, <3>3, <3>4, <3>5
  <2>6. QED BY <2>1, <2>2, <2>3, <2>4, <2>5
<1>8. QED BY <1>6, <1>7 DEF Kind

LEMMA MembersType ==
  ASSUME NEW kind \in Kind, NEW plan \in Plans[kind]
  PROVE  Members(plan) \subseteq Step
<1>1. \A i \in DOMAIN plan : plan[i] \in Step
  BY DEF Kind, Plans, Step
<1>2. QED BY <1>1 DEF Members

LEMMA AddressType ==
  ASSUME FlowType, NEW i
  PROVE  Address(i) \in Wallet \cup {"none"}
<1>1. ASSUME i \in DOMAIN addresses PROVE addresses[i] \in Wallet
  BY <1>1 DEF FlowType
<1>2. QED BY <1>1 DEF Address

LEMMA Counts == 1 \in 1..Attempts /\ 0 \in 0..Timeout /\ Timeout \in 0..Timeout
BY FlowAssumption

LEMMA FlowInit == Init => FlowInv
<1> SUFFICES ASSUME Init PROVE FlowInv
  OBVIOUS
<1>1. <<"embedded", "embedded">> \in Seq(Wallet) /\ <<>> \in Seq(Wallet)
  BY DEF Wallet
<1>2. <<>> \in Plans["none"] /\ "none" \in Kind
  BY DEF Plans, Kind
<1>3. op \in Operations
  BY <1>2, Counts DEF Init, Idle, Operations, PlanSet, From, Wallet
<1>4. FlowType
  BY <1>1, <1>2, <1>3 DEF Init, FlowType, Idle, Unsent, Status, Wallet
<1>5. Chained
  BY DEF Init, Chained, Unsent, Step
<1>6. Ordered
  BY DEF Init, Ordered, Idle, Before, At
<1>7. QED BY <1>4, <1>5, <1>6 DEF FlowInv

\* A step that moves the operation within a step of its plan, or ends it.
LEMMA PositionStep ==
  ASSUME FlowInv, UNCHANGED tx, wallet' \in Wallet, addresses' \in Seq(Wallet),
         op' \in Operations, op'.plan = op.plan, op'.kind = op.kind,
         op'.pc \in Before => op.pc \in Before,
         op'.pc \in {"confirm", "balances"} => op'.pc = op.pc,
         op'.pc = "ok" => op.pc \in {"ok", "balances"}
  PROVE  FlowInv'
<1>1. FlowType'
  BY DEF FlowInv, FlowType
<1>2. Chained'
  BY DEF FlowInv, Chained
<1>3. /\ Ahead' = Ahead /\ step' = step
      /\ \A s : Settled(s)' <=> Settled(s)
  BY DEF Ahead, step, Settled
<1>4. Ordered'
  BY <1>3 DEF FlowInv, Ordered, At, Before
<1>5. QED BY <1>1, <1>2, <1>4 DEF FlowInv

LEMMA BeginStep ==
  ASSUME FlowInv, NEW kind \in Kind, NEW pc \in {"failed", "create", "simulate"},
         NEW plan \in Plans[kind], plan # <<>>, NEW by \in Wallet,
         NEW bob \in Wallet \cup {"none"}, Begin(kind, pc, plan, by, bob)
  PROVE  FlowInv'
<1>1. UNCHANGED <<wallet, addresses>> /\ tx' = [s \in Step |-> Unsent]
  BY DEF Begin, state
<1>2. Address(selected) \in Wallet \cup {"none"}
  BY AddressType DEF FlowInv
<1>3. /\ op' = [pc |-> pc, kind |-> kind, plan |-> plan, by |-> by,
                from |-> Address(selected), alice |-> Address(selected), bob |-> bob,
                attempt |-> 1, left |-> 0]
  BY DEF Begin, Idle
<1>4. op' \in Operations
  BY <1>2, <1>3, Counts DEF Operations, PlanSet, From, Before
<1>5. FlowType'
  BY <1>1, <1>3, <1>4 DEF FlowInv, FlowType, Unsent, Status
<1>6. Chained'
  BY <1>1 DEF Chained, Unsent, Step
<1>7. \A s \in Ahead' : s \in Step
  <2>1. Members(plan) \subseteq Step
    BY MembersType
  <2>2. QED BY <1>3, <2>1 DEF Ahead
<1>8. Ordered'
  BY <1>1, <1>3, <1>7 DEF Ordered, At, Before
<1>9. QED BY <1>5, <1>6, <1>8 DEF FlowInv

\* The node takes a transaction of the step: none was sent before.
LEMMA AcceptStep ==
  ASSUME FlowInv, At("send"), Works, Accept, UNCHANGED <<wallet, addresses>>,
         op' \in Operations, op'.plan = op.plan, op'.kind = op.kind,
         op'.pc \in {"confirm", "failed"}
  PROVE  FlowInv'
<1>1. step \in Step /\ step \in Ahead
  BY PlanFacts DEF FlowInv, FlowType, Ordered, At, Before, step, Ahead, Operations
<1>2. tx[step] = Unsent
  BY <1>1 DEF FlowInv, Ordered, At, Before
<1>3. tx' = [tx EXCEPT ![step] = [status |-> "pending", accepted |-> 1]]
  BY <1>1, <1>2 DEF Accept, Unsent, FlowInv, FlowType
<1>4. FlowType'
  BY <1>3 DEF FlowInv, FlowType, Status
<1>5. Chained'
  <2>1. /\ step = "mint" => tx["token"].status = "mined"
        /\ step = "transfer" => tx["mint"].status = "mined"
    BY DEF Works, Ready
  <2>2. tx[step].status = "unsent" /\ tx[step].accepted = 0
    BY <1>2 DEF Unsent
  <2>3. /\ tx'[step].status = "pending" /\ tx'[step].accepted = 1
        /\ \A s \in Step \ {step} : tx'[s] = tx[s]
    BY <1>1, <1>3 DEF FlowInv, FlowType
  <2>4. QED BY <1>1, <2>1, <2>2, <2>3 DEF FlowInv, Chained, Step
<1>6. Ahead' = Ahead /\ step' = step
  BY DEF Ahead, step
<1>7. \A s \in Step \ {step} : tx'[s] = tx[s]
  BY <1>3 DEF FlowInv, FlowType
<1>8. tx'[step].accepted = 1
  BY <1>1, <1>3 DEF FlowInv, FlowType
<1>9. Ahead \subseteq Step
  BY MembersType DEF FlowInv, FlowType, Operations, Ahead
<1>10. Ordered'
  BY <1>1, <1>6, <1>7, <1>8, <1>9 DEF FlowInv, Ordered, At, Before, Settled
<1>11. QED BY <1>4, <1>5, <1>10 DEF FlowInv

\* The chain decides on a transaction that is pending.
LEMMA MineStep == ASSUME FlowInv, NEW s \in Step, Mine(s) PROVE FlowInv'
<1>1. PICK outcome \in {"mined", "dropped", "reverted"} :
        /\ tx' = [tx EXCEPT ![s].status = outcome]
        /\ s = "transfer" => outcome # "reverted"
  BY DEF Mine
<1>2. tx[s].status = "pending" /\ UNCHANGED <<wallet, addresses, op>>
  BY DEF Mine, state
<1>3. /\ tx'[s].status = outcome /\ tx'[s].accepted = tx[s].accepted
      /\ \A t \in Step \ {s} : tx'[t] = tx[t]
  BY <1>1 DEF FlowInv, FlowType
<1>4. FlowType'
  BY <1>1, <1>2 DEF FlowInv, FlowType, Status
<1>5. Chained'
  BY <1>1, <1>2, <1>3 DEF FlowInv, FlowType, Chained, Step
<1>6. Ahead' = Ahead /\ step' = step
  BY <1>2 DEF Ahead, step
<1>7. Ahead \subseteq Step /\ tx[s] # Unsent /\ ~Settled(s)
  BY <1>2, MembersType DEF FlowInv, FlowType, Operations, Ahead, Unsent, Settled
<1>8. Ordered'
  <2>1. op' = op
    BY <1>2
  <2>2. At("confirm") => step \in Step
    BY PlanFacts DEF FlowInv, FlowType, Ordered, Operations, step, At, Before
  <2>3. \A t \in Step : tx[t] = Unsent => t # s /\ tx'[t] = tx[t]
    BY <1>3, <1>7
  <2>4. \A t \in Step : Settled(t) => t # s /\ Settled(t)'
    BY <1>3, <1>7 DEF Settled
  <2>5. op.pc \in {"balances", "ok"} =>
          (IF op.kind = "flow" THEN "transfer" ELSE op.kind) \in Step
    BY DEF FlowInv, FlowType, Operations, Kind, Ordered, Step
  <2>6. tx'[step].accepted = tx[step].accepted \/ step \notin Step
    BY <1>3
  <2>7. QED
    BY <1>6, <1>7, <2>1, <2>2, <2>3, <2>4, <2>5, <2>6 DEF FlowInv, Ordered, At, Before
<1>9. QED BY <1>4, <1>5, <1>8 DEF FlowInv

LEMMA ConfirmedStep ==
  ASSUME FlowInv, At("confirm"), tx[step].status \in {"mined", "reverted"},
         Confirmed, UNCHANGED <<wallet, tx>>
  PROVE  FlowInv'
<1> DEFINE last == Tail(op.plan) = <<>>
           pc == IF last THEN (IF op.kind = "flow" THEN "balances" ELSE "ok") ELSE "simulate"
<1>1. /\ op.kind \in Kind /\ op.plan \in Plans[op.kind] /\ op.plan # <<>>
      /\ step = Head(op.plan)
  BY DEF FlowInv, FlowType, Ordered, Operations, step, At
<1>2. /\ step \in Step /\ Tail(op.plan) \in Plans[op.kind]
      /\ Ahead = {step} \cup Members(Tail(op.plan)) /\ step \notin Members(Tail(op.plan))
      /\ Len(op.plan) > 1 <=> ~last
      /\ last => step = IF op.kind = "flow" THEN "transfer" ELSE op.kind
      /\ op.kind # "none"
  BY <1>1, PlanFacts DEF Ahead
<1>3. /\ op' \in Operations /\ op'.kind = op.kind /\ op'.plan = Tail(op.plan) /\ op'.pc = pc
  <2>1. op' = [op EXCEPT !.plan = Tail(op.plan), !.pc = pc, !.from = op.alice,
                         !.attempt = 1, !.left = 0,
                         !.by = IF step \in {"bob", "token"} THEN wallet ELSE op.by]
    BY <1>2 DEF Confirmed
  <2>2. Tail(op.plan) \in PlanSet
    BY <1>1, <1>2 DEF PlanSet
  <2> HIDE DEF last
  <2> DEFINE by == IF step \in {"bob", "token"} THEN wallet ELSE op.by
             plan == Tail(op.plan)
  <2>3. by \in Wallet /\ op.alice \in From /\ op \in Operations
    BY DEF FlowInv, FlowType, Operations
  <2>4. op' = [op EXCEPT !.plan = plan, !.pc = pc, !.from = op.alice,
                         !.attempt = 1, !.left = 0, !.by = by]
    BY <2>1
  <2>5. plan \in PlanSet /\ pc \in {"balances", "ok", "simulate"}
    BY <2>2
  <2> HIDE DEF by, pc, plan
  <2>6. op' \in Operations /\ op'.kind = op.kind /\ op'.plan = plan /\ op'.pc = pc
    <3>1. op.bob \in From /\ op.kind \in Kind
      BY <2>3 DEF Operations
    <3>2. op' = [pc |-> pc, kind |-> op.kind, plan |-> plan, by |-> by, from |-> op.alice,
                 alice |-> op.alice, bob |-> op.bob, attempt |-> 1, left |-> 0]
      BY <2>3, <2>4 DEF Operations
    <3>3. QED BY <2>3, <2>5, <3>1, <3>2, Counts DEF Operations, Before
  <2>7. QED BY <2>6 DEF plan
<1>4. addresses' \in Seq(Wallet)
  BY DEF Confirmed, FlowInv, FlowType, Wallet
<1>5. FlowType'
  BY <1>2, <1>3, <1>4 DEF FlowInv, FlowType
<1>6. Chained'
  BY DEF FlowInv, Chained
<1>7. Ahead' = Ahead \ {step}
  BY <1>2, <1>3 DEF Ahead
<1>8. Settled(step) /\ \A s : Settled(s)' <=> Settled(s)
  BY DEF FlowInv, Ordered, Settled
<1>9. last => Ahead' = {}
  BY <1>3 DEF Ahead, Members
<1>10. Ordered'
  <2>1. op'.pc \in Before \cup {"confirm"} => op'.plan # <<>>
    BY <1>3 DEF Before
  <2>2. op'.pc \in Before => \A s \in Ahead' : tx'[s] = Unsent
    BY <1>7 DEF FlowInv, Ordered
  <2>3. ~At("confirm")'
    BY <1>3 DEF At
  <2>4. \A s \in Step \ Ahead' : tx'[s] = Unsent \/ Settled(s)'
    BY <1>7, <1>8 DEF FlowInv, Ordered, At
  <2>5. op'.pc \in {"balances", "ok"} =>
          /\ op'.plan = <<>> /\ op'.kind # "none"
          /\ Settled(IF op.kind = "flow" THEN "transfer" ELSE op.kind)
    BY <1>2, <1>3, <1>8
  <2>6. At("balances")' => op'.kind = "flow"
    BY <1>3 DEF At
  <2>7. QED BY <1>3, <1>8, <2>1, <2>2, <2>3, <2>4, <2>5, <2>6 DEF Ordered, Settled
<1>11. QED BY <1>5, <1>6, <1>10 DEF FlowInv

LEMMA RunTokenFlowStep ==
  ASSUME FlowInv, RunTokenFlow
  PROVE  FlowInv'
<1> DEFINE steps == <<"token", "mint", "transfer">>
<1>1. /\ steps \in Plans["flow"] /\ <<"bob">> \o steps \in Plans["flow"]
      /\ steps # <<>> /\ <<"bob">> \o steps # <<>>
  <2>1. <<"bob">> \o steps = <<"bob", "token", "mint", "transfer">>
    <3>1. /\ Len(<<"bob">> \o steps) = 4 /\ (<<"bob">> \o steps)[1] = "bob"
          /\ \A i \in 1..3 : (<<"bob">> \o steps)[i + 1] = steps[i]
      OBVIOUS
    <3>2. <<"bob">> \o steps \in Seq({"bob", "token", "mint", "transfer"})
      OBVIOUS
    <3>3. <<"bob", "token", "mint", "transfer">> \in Seq({"bob", "token", "mint", "transfer"})
      OBVIOUS
    <3>4. \A i \in 1..4 : (<<"bob">> \o steps)[i] = <<"bob", "token", "mint", "transfer">>[i]
      BY <3>1
    <3>5. Len(<<"bob", "token", "mint", "transfer">>) = 4
      OBVIOUS
    <3>6. QED BY <3>1, <3>2, <3>3, <3>4, <3>5, SeqEqual
  <2>2. QED BY <2>1 DEF Plans
<1>2. "flow" \in Kind /\ wallet \in Wallet /\ "embedded" \in Wallet
  BY DEF Kind, FlowInv, FlowType, Wallet
<1>3. Address(Min(Others)) \in Wallet \cup {"none"}
  BY AddressType DEF FlowInv
<1> DEFINE pc == IF addresses = <<>> \/ wallet = "external" THEN "failed" ELSE "create"
<1>4. pc \in {"failed", "create", "simulate"}
  OBVIOUS
<1>5. \/ Begin("flow", "simulate", steps, wallet, Address(Min(Others)))
      \/ Begin("flow", pc, <<"bob">> \o steps, "embedded", "embedded")
  BY DEF RunTokenFlow
<1> HIDE DEF steps, pc
<1>6. QED BY <1>1, <1>2, <1>3, <1>4, <1>5, BeginStep

LEMMA OperationStep == ASSUME FlowInv, Operation PROVE FlowInv'
<1> USE DEF Before
<1>1. /\ op \in Operations /\ wallet \in Wallet /\ addresses \in Seq(Wallet)
  BY DEF FlowInv, FlowType
<1>2. ASSUME UNCHANGED <<state, tx>>, op' \in Operations, op'.plan = op.plan,
             op'.kind = op.kind, op'.pc \in Before \cup {"ok", "failed"},
             op'.pc \in Before => op.pc \in Before, op'.pc = "ok" => op.pc = "balances"
      PROVE  FlowInv'
  BY <1>1, <1>2, PositionStep DEF state
<1>3. ASSUME NEW pc \in Before \cup {"ok", "failed"}, Goto(pc)
      PROVE  /\ op' \in Operations /\ op'.pc = pc
             /\ op'.plan = op.plan /\ op'.kind = op.kind
  BY <1>1, <1>3 DEF Goto, Operations
<1>4. ASSUME NEW pc \in Before, op.attempt < Attempts, Again(pc)
      PROVE  /\ op' \in Operations /\ op'.pc = pc
             /\ op'.plan = op.plan /\ op'.kind = op.kind
  <2>1. op.attempt + 1 \in 1..Attempts
    BY <1>1, <1>4, FlowAssumption DEF Operations
  <2> DEFINE attempt == op.attempt + 1
  <2>2. op' = [op EXCEPT !.pc = pc, !.attempt = attempt]
    BY <1>4 DEF Again
  <2> HIDE DEF attempt
  <2>3. QED BY <1>1, <2>1, <2>2 DEF Operations, attempt
<1>5. CASE Create
  <2>1. CASE Goto("failed")
    BY <1>2, <1>3, <1>5, <2>1 DEF Create
  <2>2. CASE op' = [op EXCEPT !.pc = "simulate",
                     !.from = IF live \/ step = "bob" THEN "zero" ELSE Address(1)]
    <3>1. Address(1) \in From
      BY AddressType DEF FlowInv, From
    <3>2. /\ op' \in Operations /\ op'.pc = "simulate"
          /\ op'.plan = op.plan /\ op'.kind = op.kind
      BY <1>1, <2>2, <3>1 DEF Operations, From
    <3>3. QED BY <1>2, <1>5, <3>2 DEF Create, At
  <2>3. QED BY <1>5, <2>1, <2>2 DEF Create
<1>6. CASE Simulate
  <2>1. Goto("send") \/ Goto("failed")
    BY <1>6 DEF Simulate
  <2>2. QED BY <1>2, <1>3, <1>6, <2>1 DEF Simulate, At
<1>7. CASE Resimulate
  BY <1>2, <1>3, <1>4, <1>7 DEF Resimulate, At
<1>8. CASE SendWithRetry
  <2>1. CASE /\ (op.attempt < Attempts /\ Again("resimulate")) \/ Goto("failed")
             /\ UNCHANGED tx
    BY <1>2, <1>3, <1>4, <1>8, <2>1 DEF SendWithRetry, At
  <2>2. CASE Works /\ Accept /\ Goto("failed")
    BY <1>3, <1>8, <2>2, AcceptStep DEF SendWithRetry, state
  <2>3. CASE Works /\ Accept /\ op' = [op EXCEPT !.pc = "confirm", !.left = Timeout]
    <3>1. /\ op' \in Operations /\ op'.pc = "confirm"
          /\ op'.plan = op.plan /\ op'.kind = op.kind
      BY <1>1, <2>3, Counts DEF Operations
    <3>2. QED BY <1>8, <2>3, <3>1, AcceptStep DEF SendWithRetry, state
  <2>4. QED BY <1>8, <2>1, <2>2, <2>3 DEF SendWithRetry
<1>9. CASE WaitForTx
  <2>1. CASE tx[step].status \in {"mined", "reverted"} /\ Confirmed
    BY <1>9, <2>1, ConfirmedStep DEF WaitForTx
  <2>2. CASE op.left > 0 /\ op' = [op EXCEPT !.left = @ - 1] /\ UNCHANGED addresses
    <3> DEFINE left == op.left - 1
    <3>0. left \in 0..Timeout /\ op' = [op EXCEPT !.left = left]
      BY <1>1, <2>2, FlowAssumption DEF Operations
    <3> HIDE DEF left
    <3>1. op' \in Operations /\ op'.pc = op.pc /\ op'.plan = op.plan /\ op'.kind = op.kind
      BY <1>1, <3>0 DEF Operations
    <3>2. QED BY <1>1, <1>9, <2>2, <3>1, PositionStep DEF WaitForTx, At
  <2>3. CASE Goto("failed") /\ UNCHANGED addresses
    BY <1>2, <1>3, <1>9, <2>3 DEF WaitForTx, state
  <2>4. QED BY <1>9, <2>1, <2>2, <2>3 DEF WaitForTx
<1>10. CASE CheckBalances
  BY <1>2, <1>3, <1>10 DEF CheckBalances, At
<1>11. QED BY <1>5, <1>6, <1>7, <1>8, <1>9, <1>10 DEF Operation

LEMMA FlowStep == ASSUME FlowInv, [Next]_vars PROVE FlowInv'
<1>1. /\ op \in Operations /\ wallet \in Wallet /\ addresses \in Seq(Wallet)
  BY DEF FlowInv, FlowType
<1>2. ASSUME UNCHANGED <<op, tx>>, wallet' \in Wallet, addresses' \in Seq(Wallet)
      PROVE  FlowInv'
  BY <1>1, <1>2, PositionStep
<1>3. CASE UNCHANGED vars
  BY <1>1, <1>2, <1>3 DEF vars, state
<1>4. ASSUME NEW n \in 1..2, SetExternalWallet(n) PROVE FlowInv'
  BY <1>2, <1>4 DEF SetExternalWallet, Wallet
<1>5. CASE RevertToEmbedded \/ \E i \in DOMAIN addresses : SetSelectedAccount(i)
  BY <1>1, <1>2, <1>5 DEF RevertToEmbedded, SetSelectedAccount, Wallet
<1>6. CASE DeployTestAccount
  <2> DEFINE pc == IF ~live /\ addresses = <<>> THEN "failed" ELSE "create"
  <2>1. Begin("account", pc, <<"account">>, "embedded", "none")
    BY <1>6 DEF DeployTestAccount
  <2>2. /\ "account" \in Kind /\ <<"account">> \in Plans["account"] /\ <<"account">> # <<>>
        /\ pc \in {"failed", "create", "simulate"} /\ "embedded" \in Wallet
    BY DEF Kind, Plans, Wallet
  <2> HIDE DEF pc
  <2>3. QED BY <2>1, <2>2, BeginStep
<1>7. CASE DeployToken
  <2> DEFINE pc == IF addresses = <<>> THEN "failed" ELSE "simulate"
  <2>1. Begin("token", pc, <<"token">>, wallet, "none")
    BY <1>7 DEF DeployToken
  <2>2. /\ "token" \in Kind /\ <<"token">> \in Plans["token"] /\ <<"token">> # <<>>
        /\ pc \in {"failed", "create", "simulate"}
    BY DEF Kind, Plans
  <2> HIDE DEF pc
  <2>3. QED BY <1>1, <2>1, <2>2, BeginStep
<1>8. QED
  BY <1>3, <1>4, <1>5, <1>6, <1>7, RunTokenFlowStep, OperationStep, MineStep
     DEF Next, User

LEMMA FlowAlways == Spec => []FlowInv
BY FlowInit, FlowStep, PTL DEF Spec

\* Whatever the wallet, the node and the user did meanwhile, an operation that
\* reports success has each transaction on chain, sent once.
THEOREM DoneIsMined == Spec => []ReportedIsMined
<1>1. FlowInv => ReportedIsMined
  <2> SUFFICES ASSUME FlowInv, At("ok") PROVE ReportedIsMined
    BY DEF ReportedIsMined
  <2>1. /\ Ahead = {} /\ op.kind \in Kind \ {"none"}
        /\ Settled(IF op.kind = "flow" THEN "transfer" ELSE op.kind)
    BY DEF FlowInv, FlowType, Operations, Ordered, At, Ahead, Members
  <2>2. \A s \in Step : tx[s] = Unsent \/ Settled(s)
    BY <2>1 DEF FlowInv, Ordered, At
  <2>3. op.kind # "flow" => tx[op.kind] # Unsent
    BY <2>1 DEF Settled, Unsent
  <2>4. op.kind = "flow" => \A s \in {"token", "mint", "transfer"} : tx[s].status = "mined"
    BY <2>1, <2>2 DEF FlowInv, FlowType, Chained, Settled, Step
  <2>5. QED BY <2>2, <2>3, <2>4 DEF ReportedIsMined, Settled
<1>2. QED BY <1>1, FlowAlways, PTL

\* Through every retry and lost answer, the node takes a step at most once, and
\* only after the step before it is on chain.
THEOREM StepsAreOneAtATime == Spec => []OneAtATime
<1>1. FlowInv => OneAtATime
  <2> SUFFICES ASSUME FlowInv PROVE OneAtATime
    OBVIOUS
  <2>1. \A s \in Step : tx[s].accepted <= 1
    BY DEF FlowInv, FlowType
  <2>2. ASSUME NEW s \in Step, tx[s].status = "pending", ~Ended
        PROVE  At("confirm") /\ s = step
    <3>1. tx[s] # Unsent /\ ~Settled(s)
      BY <2>2 DEF Unsent, Settled
    <3>2. op.pc \in Before \cup {"confirm", "balances"}
      BY <2>2 DEF FlowInv, FlowType, Operations, Ended
    <3>3. s \in Ahead
      BY <3>1, <3>2 DEF FlowInv, Ordered
    <3>4. op.pc # "balances"
      BY <3>3 DEF FlowInv, Ordered, Ahead, Members
    <3>5. QED BY <3>1, <3>2, <3>3, <3>4 DEF FlowInv, Ordered, At
  <2>3. QED BY <2>1, <2>2 DEF OneAtATime
<1>2. QED BY <1>1, FlowAlways, PTL

\* Through every order of sends, retries and blocks, a mint is only sent for a
\* token that is there, and a transfer only of what was minted; a transaction
\* the node never took has no outcome.
THEOREM StepsAreChained == Spec => []Chained
<1>1. FlowInv => Chained
  BY DEF FlowInv
<1>2. QED BY <1>1, FlowAlways, PTL

-----------------------------------------------------------------------------
(* An operation has only so many steps *)

\* At most so many for one transaction: its simulation, two for each attempt to
\* send it, and the polls.
Turns == Timeout + 2 * Attempts + 2

\* What is left of them, an account still to be made among them.
Tries ==
  CASE At("create") -> Turns + 1
    [] At("simulate") -> Turns
    [] At("resimulate") -> Timeout + 4 + 2 * (Attempts - op.attempt)
    [] At("send") -> Timeout + 3 + 2 * (Attempts - op.attempt)
    [] OTHER -> op.left + 2

\* The steps the operation still has at most.
Patience ==
  IF op.pc \in Before \cup {"confirm"} THEN Turns * (Len(op.plan) - 1) + Tries
  ELSE IF At("balances") THEN 1 ELSE 0

LEMMA PlanLength ==
  ASSUME NEW kind \in Kind, NEW plan \in Plans[kind], plan # <<>>
  PROVE  Len(plan) - 1 \in Nat /\ Len(Tail(plan)) = Len(plan) - 1
<1>1. /\ <<"account">> \in Seq(Step) /\ <<"token">> \in Seq(Step)
      /\ <<"transfer">> \in Seq(Step) /\ <<"mint", "transfer">> \in Seq(Step)
  BY DEF Step
<1>2. /\ <<"token", "mint", "transfer">> \in Seq(Step)
      /\ <<"bob", "token", "mint", "transfer">> \in Seq(Step)
  BY DEF Step
<1>3. plan \in Seq(Step)
  <2>1. plan \in {<<"account">>, <<"token">>, <<"bob", "token", "mint", "transfer">>,
                  <<"token", "mint", "transfer">>, <<"mint", "transfer">>, <<"transfer">>}
    BY DEF Kind, Plans
  <2> DEFINE all == Seq(Step)
  <2> HIDE DEF all
  <2>2. plan \in all
    BY <1>1, <1>2, <2>1, Zenon DEF all
  <2>3. QED BY <2>2 DEF all
<1>4. QED BY <1>3, EmptySeq, LenProperties, HeadTailProperties

LEMMA TriesLeft ==
  ASSUME NEW o \in Operations
  PROVE  2 * (Attempts - o.attempt) \in Nat /\ o.left \in Nat
BY FlowAssumption DEF Operations

LEMMA PatienceType ==
  ASSUME FlowInv
  PROVE  /\ Patience \in Nat /\ Turns \in Nat
         /\ op.pc \in Before \cup {"confirm"} =>
              /\ Len(op.plan) - 1 \in Nat /\ Tries \in Nat \ {0, 1}
              /\ Turns * (Len(op.plan) - 1) \in Nat
<1>1. Turns \in Nat
  BY FlowAssumption DEF Turns
<1>2. ASSUME op.pc \in Before \cup {"confirm"}
      PROVE  /\ Len(op.plan) - 1 \in Nat /\ Tries \in Nat \ {0, 1}
             /\ Turns * (Len(op.plan) - 1) \in Nat
  <2>1. Len(op.plan) - 1 \in Nat
    BY <1>2, PlanLength DEF FlowInv, FlowType, Operations, Ordered
  <2>2. Tries \in Nat \ {0, 1}
    <3>1. 2 * (Attempts - op.attempt) \in Nat /\ op.left \in Nat
      BY TriesLeft DEF FlowInv, FlowType
    <3> DEFINE more == 2 * (Attempts - op.attempt)
    <3> HIDE DEF more
    <3>2. Tries \in {Turns + 1, Turns, Timeout + 4 + more, Timeout + 3 + more, op.left + 2}
      BY DEF Tries, more
    <3>3. Turns \in Nat \ {0, 1} /\ more \in Nat
      BY <3>1, FlowAssumption DEF Turns, more
    <3>4. QED BY <3>1, <3>2, <3>3, FlowAssumption
  <2>3. \A a, b \in Nat : a * b \in Nat
    OBVIOUS
  <2>4. QED BY <1>1, <2>1, <2>2, <2>3
<1>3. QED
  <2>1. CASE op.pc \in Before \cup {"confirm"}
    <3> DEFINE rest == Turns * (Len(op.plan) - 1)
    <3>1. rest \in Nat /\ Tries \in Nat /\ Patience = rest + Tries
      BY <1>2, <2>1 DEF Patience
    <3> HIDE DEF rest
    <3>2. Patience \in Nat
      BY <3>1
    <3>3. QED BY <1>1, <1>2, <3>2
  <2>2. CASE op.pc \notin Before \cup {"confirm"}
    BY <1>1, <2>2 DEF Patience
  <2>3. QED BY <2>1, <2>2

LEMMA PatienceStep ==
  ASSUME FlowInv, FlowInv', Operation
  PROVE  Patience' \in Nat /\ Patience' < Patience
<1> USE DEF Before
<1>1. op \in Operations /\ op' \in Operations
  BY DEF FlowInv, FlowType
<1>2. ASSUME op.pc \in Before \cup {"confirm"}, op'.pc \in Before \cup {"confirm"},
             op'.plan = op.plan, Tries' < Tries
      PROVE  Patience' \in Nat /\ Patience' < Patience
  <2> DEFINE rest == Turns * (Len(op.plan) - 1)
  <2>1. rest \in Nat /\ Tries \in Nat /\ Patience = rest + Tries
    BY <1>2, PatienceType DEF Patience
  <2>2. Tries' \in Nat
    <3>1. 2 * (Attempts - op'.attempt) \in Nat /\ op'.left \in Nat
      BY <1>1, TriesLeft
    <3> DEFINE more == 2 * (Attempts - op'.attempt)
    <3> HIDE DEF more
    <3>2. Tries' \in {Turns + 1, Turns, Timeout + 4 + more, Timeout + 3 + more, op'.left + 2}
      BY DEF Tries, Turns, At, more
    <3>3. Turns \in Nat /\ more \in Nat
      BY <3>1, PatienceType DEF more
    <3>4. QED BY <3>1, <3>2, <3>3, FlowAssumption
  <2>3. Patience' = rest + Tries'
    BY <1>2 DEF Patience, Turns
  <2> HIDE DEF rest
  <2>4. \A a, b, c \in Nat : a < b => c + a \in Nat /\ c + a < c + b
    OBVIOUS
  <2>5. QED BY <1>2, <2>1, <2>2, <2>3, <2>4
<1>3. ASSUME op.pc \in Before \cup {"confirm"}, op'.pc \in {"balances", "ok", "failed"}
      PROVE  Patience' \in Nat /\ Patience' < Patience
  <2> DEFINE rest == Turns * (Len(op.plan) - 1)
  <2>1. rest \in Nat /\ Tries \in Nat \ {0, 1} /\ Patience = rest + Tries
    BY <1>3, PatienceType DEF Patience
  <2>2. Patience' \in {0, 1}
    BY <1>3 DEF Patience, At
  <2> HIDE DEF rest
  <2>3. QED BY <2>1, <2>2
<1>4. CASE Create
  <2>1. CASE Goto("failed")
    BY <1>1, <1>3, <1>4, <2>1 DEF Create, At, Goto, Operations
  <2>2. CASE op' = [op EXCEPT !.pc = "simulate",
                     !.from = IF live \/ step = "bob" THEN "zero" ELSE Address(1)]
    <3>1. op'.pc = "simulate" /\ op'.plan = op.plan /\ op.pc = "create"
      BY <1>1, <1>4, <2>2 DEF Create, At, Operations
    <3>2. Tries' < Tries
      BY <3>1, FlowAssumption DEF Tries, Turns, At
    <3>3. QED BY <1>2, <3>1, <3>2
  <2>3. QED BY <1>4, <2>1, <2>2 DEF Create
<1>5. ASSUME op.pc \in {"simulate", "resimulate", "send"}, Goto("send") \/ Goto("failed"),
             op.pc = "send" => Goto("failed")
      PROVE  Patience' \in Nat /\ Patience' < Patience
  <2>1. CASE Goto("failed")
    BY <1>1, <1>3, <1>5, <2>1 DEF Goto, Operations
  <2>2. CASE Goto("send") /\ op.pc # "send"
    <3>1. op'.pc = "send" /\ op'.plan = op.plan /\ op'.attempt = op.attempt
      BY <1>1, <2>2 DEF Goto, Operations
    <3>2. Tries' < Tries
      BY <1>1, <1>5, <2>2, <3>1, FlowAssumption DEF Tries, Turns, At, Operations
    <3>3. QED BY <1>2, <1>5, <3>1, <3>2
  <2>3. QED BY <1>5, <2>1, <2>2
<1>6. ASSUME op.pc \in {"resimulate", "send"}, op.attempt < Attempts, Again("resimulate")
      PROVE  Patience' \in Nat /\ Patience' < Patience
  <2>1. op'.pc = "resimulate" /\ op'.plan = op.plan /\ op'.attempt = op.attempt + 1
    BY <1>1, <1>6 DEF Again, Operations
  <2>2. Tries' < Tries
    BY <1>1, <1>6, <2>1, FlowAssumption DEF Tries, At, Operations
  <2>3. QED BY <1>2, <1>6, <2>1, <2>2
<1>7. CASE Simulate
  BY <1>5, <1>7 DEF Simulate, At
<1>8. CASE Resimulate
  BY <1>5, <1>6, <1>8 DEF Resimulate, At
<1>9. CASE SendWithRetry
  <2>1. CASE op' = [op EXCEPT !.pc = "confirm", !.left = Timeout]
    <3>1. op'.pc = "confirm" /\ op'.plan = op.plan /\ op'.left = Timeout /\ op.pc = "send"
      BY <1>1, <1>9, <2>1 DEF SendWithRetry, At, Operations
    <3>2. Tries' < Tries
      BY <1>1, <3>1, FlowAssumption DEF Tries, At, Operations
    <3>3. QED BY <1>2, <3>1, <3>2
  <2>2. QED BY <1>5, <1>6, <1>9, <2>1 DEF SendWithRetry, At
<1>10. CASE WaitForTx
  <2>1. CASE Confirmed
    <3>1. /\ op.pc = "confirm" /\ op'.plan = Tail(op.plan)
          /\ op'.pc = IF Len(op.plan) > 1 THEN "simulate"
                      ELSE IF op.kind = "flow" THEN "balances" ELSE "ok"
      BY <1>1, <1>10, <2>1 DEF WaitForTx, At, Confirmed, Operations
    <3>2. CASE Len(op.plan) > 1
      <4> DEFINE n == Len(op.plan) - 2
                 rest == Turns * n
      <4>1. Len(op'.plan) - 1 = n /\ n \in Nat /\ Len(op.plan) - 1 = n + 1
        BY <3>1, <3>2, PlanLength DEF FlowInv, FlowType, Operations, Ordered
      <4>2. Turns \in Nat /\ Tries \in Nat \ {0, 1}
        BY <3>1, PatienceType
      <4>3. Patience' = Turns * n + Turns /\ Patience = Turns * (n + 1) + Tries
        <5>1. Tries' = Turns
          BY <3>1, <3>2 DEF Tries, Turns, At
        <5>2. Patience' = Turns * (Len(op'.plan) - 1) + Tries'
          BY <3>1, <3>2 DEF Patience, Turns
        <5>3. Patience = Turns * (Len(op.plan) - 1) + Tries
          BY <3>1 DEF Patience
        <5>4. QED BY <4>1, <5>1, <5>2, <5>3
      <4> HIDE DEF n
      <4>4. Turns * (n + 1) = rest + Turns /\ rest \in Nat
        BY <4>1, <4>2
      <4> HIDE DEF rest
      <4>5. Patience' = rest + Turns /\ Patience = rest + Turns + Tries
        BY <4>3, <4>4 DEF rest
      <4>6. QED BY <4>2, <4>4, <4>5
    <3>3. CASE ~(Len(op.plan) > 1)
      BY <1>3, <3>1, <3>3
    <3>4. QED BY <3>2, <3>3
  <2>2. CASE op.left > 0 /\ op' = [op EXCEPT !.left = @ - 1]
    <3>1. /\ op.pc = "confirm" /\ op'.pc = "confirm" /\ op'.plan = op.plan
          /\ op'.left = op.left - 1
      BY <1>1, <1>10, <2>2 DEF WaitForTx, At, Operations
    <3>2. Tries' < Tries
      BY <1>1, <3>1 DEF Tries, At, Operations
    <3>3. QED BY <1>2, <3>1, <3>2
  <2>3. CASE Goto("failed")
    BY <1>1, <1>3, <1>10, <2>3 DEF WaitForTx, At, Goto, Operations
  <2>4. QED BY <1>10, <2>1, <2>2, <2>3 DEF WaitForTx
<1>11. CASE CheckBalances
  <2>1. op.pc = "balances" /\ op'.pc \in {"ok", "failed"}
    BY <1>1, <1>11 DEF CheckBalances, At, Goto, Operations
  <2>2. QED BY <2>1 DEF Patience, At
<1>12. QED
  BY <1>4, <1>7, <1>8, <1>9, <1>10, <1>11 DEF Operation

\* Retries and polls end: every step of an operation's own brings it nearer to
\* its end, and nothing the user or the chain does takes it back.  An operation
\* that keeps taking steps is over after Patience of them.
THEOREM OperationsAreFinite ==
  Spec => /\ [](Patience \in Nat)
          /\ [][/\ Operation => Patience' < Patience
                /\ ~Ended => Patience' <= Patience]_vars
<1>1. FlowInv => Patience \in Nat
  BY PatienceType
<1>2. ASSUME FlowInv, FlowInv', [Next]_vars
      PROVE  [/\ Operation => Patience' < Patience
              /\ ~Ended => Patience' <= Patience]_vars
  <2>1. CASE Operation
    <3>1. Patience' < Patience /\ Patience' \in Nat /\ Patience \in Nat
      BY <1>2, <2>1, PatienceStep, PatienceType
    <3>2. QED BY <3>1
  <2>2. CASE ~Operation /\ ~Ended
    <3>1. op' = op
      BY <1>2, <2>2 DEF Next, User, SetExternalWallet, SetSelectedAccount, RevertToEmbedded,
           DeployTestAccount, DeployToken, RunTokenFlow, Begin, Mine, vars
    <3>2. Patience' = Patience
      BY <3>1 DEF Patience, Tries, Turns, At
    <3>3. Patience \in Nat
      BY <1>1, <1>2
    <3>4. QED BY <2>2, <3>2, <3>3
  <2>3. QED BY <2>1, <2>2
<1>3. QED BY <1>1, <1>2, FlowAlways, PTL DEF Spec

-----------------------------------------------------------------------------
(* The animation draws what it is told, and implements PhaseDisplay. *)

\* A timer is remembered only while there is a phase to time, and armed.
Timed ==
  /\ timer # None => current # None
  /\ TimerIsOwn

\* The drawing interval runs while the element can be seen; what it has drawn
\* is removed when the element is hidden.
Drawn == hidden => text = None /\ ~interval

Inv == TypeOK /\ Timed

LEMMA InvInit == PhasesInit => Inv
<1> SUFFICES ASSUME PhasesInit PROVE Inv OBVIOUS
<1>1. TypeOK
  <2>1. queue \in Seq(Phase) BY EmptySeq DEF PhasesInit
  <2>2. due \in [Timer -> 0..Unarmed] BY PhaseAssumption DEF PhasesInit, Unarmed
  <2>3. 0 \in 0..MinDisplay BY PhaseAssumption
  <2> QED BY <2>1, <2>2, <2>3 DEF PhasesInit, TypeOK
<1>2. Timed BY DEF PhasesInit, Timed, TimerIsOwn
<1> QED BY <1>1, <1>2 DEF Inv

LEMMA ScheduleTypes ==
  ASSUME NEW held \in Timer \cup {None}, NEW left \in [Timer -> 0..Unarmed],
         ScheduleNext(held, left)
  PROVE  timer' \in Timer \cup {None} /\ due' \in [Timer -> 0..Unarmed]
BY PhaseAssumption DEF ScheduleNext, Unarmed

LEMMA PushType ==
  ASSUME Inv, NEW p \in Phase, Push(p)
  PROVE  TypeOK'
<1>1. timer' \in Timer \cup {None} /\ due' \in [Timer -> 0..Unarmed]
  BY ScheduleTypes DEF Push, Inv, TypeOK
<1>2. queue' \in Seq(Phase) /\ current' \in Phase \cup {None}
      /\ age' \in 0..MinDisplay /\ frame' \in Framed \cup {None}
  BY PhaseAssumption, AppendProperties DEF Push, Display, Inv, TypeOK
<1> QED BY <1>1, <1>2 DEF Push, Inv, TypeOK

LEMMA FireType ==
  ASSUME Inv, NEW t \in Timer, Fire(t)
  PROVE  TypeOK'
<1> DEFINE left == [due EXCEPT ![t] = Unarmed]
<1>1. left \in [Timer -> 0..Unarmed] BY PhaseAssumption DEF Inv, TypeOK, Unarmed
<1>2. timer' \in Timer \cup {None} /\ due' \in [Timer -> 0..Unarmed]
  <2>1. CASE timer' = None /\ due' = left BY <2>1, <1>1
  <2>2. CASE ScheduleNext(None, left) BY <2>2, <1>1, ScheduleTypes
  <2> QED BY <2>1, <2>2 DEF Fire
<1>3. queue' \in Seq(Phase) /\ current' \in Phase \cup {None}
      /\ age' \in 0..MinDisplay /\ frame' \in Framed \cup {None}
  <2>1. CASE queue # <<>> /\ Display(Head(queue)) /\ queue' = Tail(queue)
    <3>1. Head(queue) \in Phase /\ Tail(queue) \in Seq(Phase)
      BY <2>1, HeadTailProperties DEF Inv, TypeOK
    <3>2. QED BY <2>1, <3>1, PhaseAssumption DEF Display
  <2>2. CASE UNCHANGED <<queue, current, age, frame>>
    BY <2>2 DEF Inv, TypeOK
  <2>3. QED BY <2>1, <2>2 DEF Fire
<1> QED BY <1>2, <1>3 DEF Fire, Inv, TypeOK

LEMMA PassType ==
  ASSUME Inv, Pass
  PROVE  TypeOK'
<1>1. due' \in [Timer -> 0..Unarmed]
  BY PhaseAssumption DEF Pass, Inv, TypeOK, Unarmed
<1>2. age' \in 0..MinDisplay BY PhaseAssumption DEF Pass, Inv, TypeOK
<1> QED BY <1>1, <1>2 DEF Pass, Inv, TypeOK

LEMMA ClearType ==
  ASSUME Inv, Clear
  PROVE  /\ queue' \in Seq(Phase) /\ current' \in Phase \cup {None}
         /\ timer' \in Timer \cup {None} /\ due' \in [Timer -> 0..Unarmed]
         /\ age' \in 0..MinDisplay
BY PhaseAssumption DEF Clear, Inv, TypeOK, Unarmed

LEMMA TypeStep ==
  ASSUME Inv, [PhasesNext]_phasesVars
  PROVE  TypeOK'
<1>1. CASE \E p \in Phase : Push(p) BY <1>1, PushType
<1>2. CASE \E t \in Timer : Fire(t) BY <1>2, FireType
<1>3. CASE Pass BY <1>3, PassType
<1>4. CASE Start BY <1>4 DEF Start, phases, Inv, TypeOK
<1>5. CASE Draw BY <1>5 DEF Draw, phases, Inv, TypeOK
<1>6. CASE Stop BY <1>6, ClearType DEF Stop, Inv, TypeOK
<1>7. CASE UNCHANGED phasesVars BY <1>7 DEF phasesVars, phases, Inv, TypeOK
<1> QED BY <1>1, <1>2, <1>3, <1>4, <1>5, <1>6, <1>7 DEF PhasesNext

-----------------------------------------------------------------------------
(* The timer *)

LEMMA PushTimed ==
  ASSUME Inv, NEW p \in Phase, Push(p)
  PROVE  Timed'
<1>1. CASE timer # None
  <2>1. current # None /\ UNCHANGED <<current, age>> BY <1>1 DEF Push, Inv, Timed
  <2>2. UNCHANGED <<timer, due>> BY <1>1 DEF Push, ScheduleNext
  <2> QED BY <2>1, <2>2 DEF Inv, Timed, TimerIsOwn
<1>2. CASE timer = None
  <2>1. \A t \in Timer : due[t] = Unarmed
    BY <1>2, PhaseAssumption DEF Inv, Timed, TimerIsOwn
  <2>2. PICK s \in Timer : timer' = s /\ due' = [due EXCEPT ![s] = MinDisplay]
    BY <1>2 DEF Push, ScheduleNext
  <2>3. current' # None BY PhaseAssumption DEF Push, Display
  <2>4. age' \in Nat BY PushType DEF TypeOK
  <2>5. \A t \in Timer : due'[t] # Unarmed => t = s /\ due'[t] = MinDisplay
    BY <2>1, <2>2 DEF Inv, TypeOK
  <2>6. \A t \in Timer : due'[t] # Unarmed =>
          timer' = t /\ current' # None /\ due'[t] + age' >= MinDisplay
    <3>1. \A n \in Nat : MinDisplay + n >= MinDisplay BY PhaseAssumption
    <3>2. MinDisplay + age' >= MinDisplay BY <2>4, <3>1
    <3> QED BY <2>2, <2>3, <2>5, <3>2
  <2> QED BY <2>3, <2>6 DEF Timed, TimerIsOwn, Unarmed
<1> QED BY <1>1, <1>2

LEMMA FireTimed ==
  ASSUME Inv, NEW t \in Timer, Fire(t)
  PROVE  Timed' /\ age = MinDisplay /\ current # None
<1> DEFINE left == [due EXCEPT ![t] = Unarmed]
<1>1. due[t] = 0 /\ due[t] # Unarmed BY PhaseAssumption DEF Fire, Unarmed
<1>2. timer = t /\ current # None /\ age >= MinDisplay
  BY <1>1, PhaseAssumption DEF Inv, TypeOK, Timed, TimerIsOwn
<1>3. age = MinDisplay BY <1>2, PhaseAssumption DEF Inv, TypeOK
<1>4. \A s \in Timer : left[s] = Unarmed
  BY <1>2 DEF Inv, TypeOK, Timed, TimerIsOwn
<1>5. CASE queue = <<>>
  <2>1. timer' = None /\ due' = left BY <1>5 DEF Fire
  <2> HIDE DEF left
  <2> QED BY <1>2, <1>3, <1>4, <2>1 DEF Timed, TimerIsOwn, Unarmed
<1>6. CASE queue # <<>>
  <2>1. PICK s \in Timer : timer' = s /\ due' = [left EXCEPT ![s] = MinDisplay]
    BY <1>6 DEF Fire, ScheduleNext
  <2>2. current' # None /\ age' = 0
    BY <1>6, PhaseAssumption, HeadTailProperties DEF Fire, Display, Inv, TypeOK
  <2>3. \A u \in Timer : due'[u] # Unarmed => u = s /\ due'[u] = MinDisplay
    <3> HIDE DEF left
    <3>1. DOMAIN left = Timer BY DEF left, Inv, TypeOK
    <3> QED BY <1>4, <2>1, <3>1
  <2>4. \A u \in Timer : due'[u] # Unarmed =>
          timer' = u /\ current' # None /\ due'[u] + age' >= MinDisplay
    <3>1. MinDisplay + age' >= MinDisplay BY <2>2, PhaseAssumption
    <3> HIDE DEF left
    <3> QED BY <2>1, <2>2, <2>3, <3>1
  <2> QED BY <2>2, <2>4, <1>2, <1>3 DEF Timed, TimerIsOwn, Unarmed
<1> QED BY <1>2, <1>3, <1>5, <1>6

LEMMA PassTimed ==
  ASSUME Inv, Pass
  PROVE  Timed'
<1> SUFFICES ASSUME NEW t \in Timer, due'[t] # Unarmed
             PROVE  timer' = t /\ current' # None /\ due'[t] + age' >= MinDisplay
  BY DEF Pass, Inv, Timed, TimerIsOwn
<1>1. due'[t] = IF due[t] \in 1..MinDisplay THEN due[t] - 1 ELSE due[t]
  BY DEF Pass, Inv, TypeOK
<1>2. due[t] \in 0..Unarmed BY DEF Inv, TypeOK
<1>3. due[t] # Unarmed BY <1>1, <1>2, PhaseAssumption DEF Unarmed
<1>4. timer = t /\ current # None /\ due[t] + age >= MinDisplay
  BY <1>3 DEF Inv, Timed, TimerIsOwn
<1>5. due'[t] + age' >= MinDisplay
  BY <1>1, <1>2, <1>4, PhaseAssumption DEF Pass, Inv, TypeOK, Unarmed
<1> QED BY <1>4, <1>5 DEF Pass

LEMMA StopTimed ==
  ASSUME Inv, Stop
  PROVE  Timed'
BY PhaseAssumption DEF Stop, Clear, Inv, TypeOK, Timed, TimerIsOwn

LEMMA InvStep ==
  ASSUME Inv, [PhasesNext]_phasesVars
  PROVE  Inv'
<1>1. TypeOK' BY TypeStep
<1>2. Timed'
  <2>1. CASE \E p \in Phase : Push(p) BY <2>1, PushTimed
  <2>2. CASE \E t \in Timer : Fire(t) BY <2>2, FireTimed
  <2>3. CASE Pass BY <2>3, PassTimed
  <2>4. CASE Stop BY <2>4, StopTimed
  <2>5. CASE UNCHANGED phases
    BY <2>5 DEF phases, Inv, Timed, TimerIsOwn
  <2> QED BY <2>1, <2>2, <2>3, <2>4, <2>5 DEF PhasesNext, Start, Draw, phasesVars
<1> QED BY <1>1, <1>2 DEF Inv

LEMMA SpecIsSafe == PhasesSpec => Safety
BY PTL DEF PhasesSpec

LEMMA Invariance == Safety => []Inv
BY InvInit, InvStep, PTL DEF Safety

\* TimerIsOwn, whatever the phases, their times and the number of handles.
THEOREM TimerStaysOwn == PhasesSpec => []TimerIsOwn
<1>1. Inv => TimerIsOwn BY DEF Inv, Timed
<1> QED BY <1>1, SpecIsSafe, Invariance, PTL

\* StoppedIsBlank: nothing is drawn once the operation has ended.
THEOREM StaysBlank == PhasesSpec => []StoppedIsBlank
<1>1. PhasesInit => Drawn BY DEF PhasesInit, Drawn
<1>2. Drawn /\ [PhasesNext]_phasesVars => Drawn'
  <2> SUFFICES ASSUME Drawn, [PhasesNext]_phasesVars PROVE Drawn' OBVIOUS
  <2>1. CASE Start BY <2>1 DEF Start, Drawn
  <2>2. CASE Draw BY <2>2 DEF Draw, Drawn
  <2>3. CASE Stop BY <2>3 DEF Stop, Drawn
  <2>4. CASE UNCHANGED <<interval, hidden, text>> BY <2>4 DEF Drawn
  <2> QED BY <2>1, <2>2, <2>3, <2>4 DEF PhasesNext, Push, Fire, Pass, phasesVars
<1>3. Drawn => StoppedIsBlank BY DEF Drawn, StoppedIsBlank
<1> QED BY <1>1, <1>2, <1>3, SpecIsSafe, PTL DEF Safety

-----------------------------------------------------------------------------
(* The refinement *)

LEMMA StepMapped ==
  ASSUME Inv, [PhasesNext]_phasesVars
  PROVE  [Promise!Step]_(Promise!vars)
<1> USE DEF Promise!vars, Promise!Step
<1>1. ASSUME NEW p \in Phase, Push(p) PROVE Promise!Come(p)
  BY <1>1 DEF Push, Display, Promise!Come
<1>2. ASSUME NEW t \in Timer, Fire(t) PROVE Promise!Advance \/ UNCHANGED Promise!vars
  BY <1>2, FireTimed DEF Fire, Display, Promise!Advance
<1>3. ASSUME Pass PROVE Promise!Age \/ UNCHANGED Promise!vars
  BY <1>3 DEF Pass, Promise!Age
<1>4. ASSUME Stop PROVE Promise!End BY <1>4 DEF Stop, Clear, Promise!End
<1>5. CASE UNCHANGED phases BY <1>5 DEF phases
<1> QED BY <1>1, <1>2, <1>3, <1>4, <1>5 DEF PhasesNext, Start, Draw, phasesVars

\* The queue with its timer implements the display that is promised: phases in
\* the order they came, each for MinDisplay, until the operation ends.
THEOREM AnimationImplements == PhasesSpec => ImplementsSafety
<1>1. PhasesInit => Promise!Init BY DEF PhasesInit, Promise!Init
<1>2. Inv /\ [PhasesNext]_phasesVars => [Promise!Step]_(Promise!vars) BY StepMapped
<1> QED BY <1>1, <1>2, SpecIsSafe, Invariance, PTL DEF Safety, ImplementsSafety, Promise!Safety
=============================================================================
