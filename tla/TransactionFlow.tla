---------------------------- MODULE TransactionFlow ----------------------------
(***************************************************************************)
(* The operations of the playground (packages/playground/src/aztec.ts:     *)
(* deployTestAccount, deployToken, runTokenFlow), transaction by           *)
(* transaction, while the user may change wallet and account.              *)
(*                                                                         *)
(* An address is reduced to the wallet it belongs to.  A wallet works for  *)
(* addresses of its own.  A transaction that was sent is pending until it  *)
(* is mined, which may leave its public part reverted, or dropped.         *)
(***************************************************************************)
EXTENDS Integers, Sequences, FiniteSets, FiniteSetsExt

CONSTANTS
  Attempts,      \* maxAttempts: 1, or MAX_SEND_ATTEMPTS in the E2E tests
  Timeout,       \* TX_TIMEOUT_MS / TX_POLL_INTERVAL_MS
  MaxAddresses   \* bound: addresses an operation may add to

ASSUME FlowAssumption ==
  Attempts \in Nat \ {0} /\ Timeout \in Nat /\ MaxAddresses \in Nat

Wallet == {"embedded", "external"}
Step == {"account", "bob", "token", "mint", "transfer"}

VARIABLES
  live,      \* proofsRequired
  wallet,    \* state.wallet, and state.walletType
  addresses, \* state.registeredAddresses
  selected,  \* state.selectedAccountIndex + 1
  op,        \* the operation: its position and its locals
  tx         \* tx[s]: what became of step s's transaction; accepted: how often

state == <<live, wallet, addresses, selected>>
vars == <<state, op, tx>>

Unsent == [status |-> "unsent", accepted |-> 0]

\* plan: the steps ahead.  by: the wallet of their contract.  from: who sends,
\* alice in the end.  attempt: of the send.  left: polls before the deadline.
Idle == [pc |-> "idle", kind |-> "none", plan |-> <<>>, by |-> "embedded",
         from |-> "none", alice |-> "none", bob |-> "none", attempt |-> 1, left |-> 0]

Init ==
  /\ live \in BOOLEAN
  /\ wallet = "embedded" /\ selected = 1
  /\ addresses = IF live THEN <<>> ELSE <<"embedded", "embedded">>
  /\ op = Idle
  /\ tx = [s \in Step |-> Unsent]

Ended == op.pc \in {"idle", "ok", "failed"}
At(pc) == op.pc = pc
Goto(pc) == op' = [op EXCEPT !.pc = pc]

-----------------------------------------------------------------------------
(* What the user does meanwhile *)

SetExternalWallet(n) ==
  /\ wallet' = "external"
  /\ addresses' = [i \in 1..n |-> "external"]
  /\ UNCHANGED <<live, selected, op, tx>>

SetSelectedAccount(i) ==
  /\ wallet = "external"
  /\ selected' = i
  /\ UNCHANGED <<live, wallet, addresses, op, tx>>

RevertToEmbedded ==
  /\ wallet' = "embedded" /\ selected' = 1
  /\ UNCHANGED <<live, addresses, op, tx>>

-----------------------------------------------------------------------------
(* The transaction under way *)

step == Head(op.plan)

\* Later steps call the contract the earlier ones have set up.
Ready(s) ==
  CASE s = "mint" -> tx["token"].status = "mined"
    [] s = "transfer" -> tx["mint"].status = "mined"
    [] OTHER -> TRUE

Works == op.from \in {op.by, "zero"} /\ Ready(step)

\* The first simulation of an account deployment may fail.
Simulate ==
  /\ At("simulate")
  /\ \/ Works /\ Goto("send")
     \/ Goto(IF step = "account" THEN "send" ELSE "failed")
  /\ UNCHANGED <<state, tx>>

Again(pc) == op' = [op EXCEPT !.pc = pc, !.attempt = @ + 1]

\* A send that is tried again simulates again first, which may meet the same
\* stale header.
Resimulate ==
  /\ At("resimulate")
  /\ \/ Works /\ Goto("send")
     \/ op.attempt < Attempts /\ Again("resimulate")
     \/ Goto("failed")
  /\ UNCHANGED <<state, tx>>

Accept == tx' = [tx EXCEPT ![step] = [status |-> "pending", accepted |-> @.accepted + 1]]

\* send proves and hands the transaction to the node, which takes it, refuses
\* it for its block header or something else, or takes it without saying so.
SendWithRetry_Always ==   \* mutant: whatever the error
  /\ At("send")
  /\ \/ Works /\ Accept /\ op' = [op EXCEPT !.pc = "confirm", !.left = Timeout]
     \/ op.attempt < Attempts /\ Again("resimulate") /\ UNCHANGED tx
     \/ op.attempt < Attempts /\ Works /\ Accept /\ Again("resimulate")
     \/ Works /\ Accept /\ Goto("failed")
     \/ Goto("failed") /\ UNCHANGED tx
  /\ UNCHANGED state

SendWithRetry ==
  /\ At("send")
  /\ \/ Works /\ Accept /\ op' = [op EXCEPT !.pc = "confirm", !.left = Timeout]
     \/ op.attempt < Attempts /\ Again("resimulate") /\ UNCHANGED tx
     \/ Works /\ Accept /\ Goto("failed")
     \/ Goto("failed") /\ UNCHANGED tx
  /\ UNCHANGED state

\* The chain.  A transfer is private throughout: it has nothing to revert.
Mine(s) ==
  /\ tx[s].status = "pending"
  /\ \E outcome \in {"mined", "dropped"} \cup (IF s = "transfer" THEN {} ELSE {"reverted"}) :
       tx' = [tx EXCEPT ![s].status = outcome]
  /\ UNCHANGED <<state, op>>

-----------------------------------------------------------------------------
(* The operations *)

Address(i) == IF i \in DOMAIN addresses THEN addresses[i] ELSE "none"

Others == DOMAIN addresses \ {selected}

Begin(kind, pc, plan, by, bob) ==
  /\ Ended
  /\ op' = [Idle EXCEPT !.kind = kind, !.pc = pc, !.plan = plan, !.by = by, !.bob = bob,
                        !.alice = Address(selected), !.from = Address(selected)]
  /\ tx' = [s \in Step |-> Unsent]
  /\ UNCHANGED state

DeployTestAccount ==
  /\ live => Len(addresses) < MaxAddresses
  /\ Begin("account", IF ~live /\ addresses = <<>> THEN "failed" ELSE "create",
           <<"account">>, "embedded", "none")

DeployToken ==
  Begin("token", IF addresses = <<>> THEN "failed" ELSE "simulate",
        <<"token">>, wallet, "none")

\* bob is another account of the wallet, or a new one if it is the embedded one.
RunTokenFlow ==
  LET steps == <<"token", "mint", "transfer">> IN
  \/ /\ Others # {}
     /\ Begin("flow", "simulate", steps, wallet, Address(Min(Others)))
  \/ /\ Others = {} /\ Len(addresses) < MaxAddresses
     /\ Begin("flow", IF addresses = <<>> \/ wallet = "external" THEN "failed" ELSE "create",
              <<"bob">> \o steps, "embedded", "embedded")

\* createSchnorrAccount.  The sender is only looked up after it.
Create ==
  /\ At("create")
  /\ \/ op' = [op EXCEPT !.pc = "simulate",
                         !.from = IF live \/ step = "bob" THEN "zero" ELSE Address(1)]
     \/ Goto("failed")
  /\ UNCHANGED <<state, tx>>

\* The next step is for the wallet there is now, once bob or the token is there.
Confirmed ==
  /\ op' = [op EXCEPT
       !.plan = Tail(@),
       !.pc = IF Len(op.plan) > 1 THEN "simulate"
              ELSE IF op.kind = "flow" THEN "balances" ELSE "ok",
       !.from = op.alice, !.attempt = 1, !.left = 0,
       !.by = IF step \in {"bob", "token"} THEN wallet ELSE @]
  /\ addresses' = IF step = "bob" \/ (step = "account" /\ live)
                   THEN Append(addresses, "embedded") ELSE addresses

WaitForTx_KeepsDropped ==   \* mutant: only whether it is still pending
  /\ At("confirm")
  /\ \/ tx[step].status # "pending" /\ Confirmed
     \/ /\ tx[step].status = "pending"
        /\ op' = [op EXCEPT !.pc = IF op.left = 0 THEN "failed" ELSE @,
                            !.left = IF op.left = 0 THEN @ ELSE @ - 1]
        /\ UNCHANGED addresses
     \/ Goto("failed") /\ UNCHANGED addresses
  /\ UNCHANGED <<live, wallet, selected, tx>>

WaitForTx_NewDeadline ==   \* mutant: each poll sets the deadline anew
  /\ At("confirm")
  /\ \/ tx[step].status \in {"mined", "reverted"} /\ Confirmed
     \/ /\ tx[step].status = "pending"
        /\ op' = [op EXCEPT !.left = IF @ = 0 THEN Timeout ELSE @ - 1]
        /\ UNCHANGED addresses
     \/ Goto("failed") /\ UNCHANGED addresses
  /\ UNCHANGED <<live, wallet, selected, tx>>

\* A poll, which may fail.  A transaction that is given up may still be mined.
WaitForTx ==
  /\ At("confirm")
  /\ \/ tx[step].status \in {"mined", "reverted"} /\ Confirmed
     \/ /\ tx[step].status = "pending" /\ op.left > 0
        /\ op' = [op EXCEPT !.left = @ - 1]
        /\ UNCHANGED addresses
     \/ Goto("failed") /\ UNCHANGED addresses
  /\ UNCHANGED <<live, wallet, selected, tx>>

CheckBalances ==
  /\ At("balances")
  /\ \/ {op.alice, op.bob} \subseteq {op.by} /\ Goto("ok")
     \/ Goto("failed")
  /\ UNCHANGED <<state, tx>>

-----------------------------------------------------------------------------

User ==
  \/ \E n \in 1..2 : SetExternalWallet(n)
  \/ \E i \in DOMAIN addresses : SetSelectedAccount(i)
  \/ RevertToEmbedded
  \/ DeployTestAccount \/ DeployToken \/ RunTokenFlow

Operation ==
  Create \/ Simulate \/ Resimulate \/ SendWithRetry \/ WaitForTx \/ CheckBalances

Next == User \/ Operation \/ \E s \in Step : Mine(s)

\* Wallets and node answer or throw; nothing makes the chain mine.
Spec == Init /\ [][Next]_vars /\ WF_vars(Operation)

-----------------------------------------------------------------------------
(* Properties *)

\* An operation reported as done has had each of its transactions accepted
\* once and mined.  Those of a token flow have also taken effect: alice has
\* 500 and bob 500, though the code never looks whether one was reverted.
ReportedIsMined ==
  At("ok") =>
    /\ \A s \in Step : \/ tx[s] = Unsent
                       \/ tx[s].accepted = 1 /\ tx[s].status \in {"mined", "reverted"}
    /\ op.kind # "flow" => tx[op.kind] # Unsent
    /\ op.kind = "flow" =>
         \A s \in {"token", "mint", "transfer"} : tx[s].status = "mined"

\* Through retries and lost answers, no step is sent again once the node has
\* taken it, and no step is sent before the one before it is on chain.
OneAtATime ==
  /\ \A s \in Step : tx[s].accepted <= 1
  /\ \A s \in Step : tx[s].status = "pending" /\ ~Ended => At("confirm") /\ s = step

\* An operation ends, even if its transaction is never mined: the buttons
\* wait for it.
EveryOperationEnds == ~Ended ~> Ended
=============================================================================
