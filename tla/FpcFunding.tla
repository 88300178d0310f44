------------------------------ MODULE FpcFunding ------------------------------
(***************************************************************************)
(* The scripts that pay for the playground's transactions                  *)
(* (packages/playground/scripts): batch-fund-fpc.ts, which mints Fee Juice *)
(* on L1 up to a target and bridges it to a Sponsored FPC, and             *)
(* deploy-sponsored-fpc.ts, which deploys such an FPC and gives it a mint. *)
(*                                                                         *)
(* One of them runs at a time.  It may stop anywhere: a call fails, a wait *)
(* times out, the operator interrupts it.  What it knew is lost, what it   *)
(* did stays, the mints it has submitted included.                         *)
(***************************************************************************)
EXTENDS Integers, Sequences, FiniteSetsExt

CONSTANTS
  Salt,        \* each gives one FPC
  MintAmount,  \* what a mint yields
  Target,      \* --amount
  BatchSize,   \* effectiveBatch
  MaxBalance,  \* bound: what the L1 account has at first
  MaxRuns,     \* bound: scripts started
  None

ASSUME FundingAssumption ==
  /\ MintAmount \in Nat \ {0} /\ Target \in Nat \ {0} /\ BatchSize \in Nat \ {0}
  /\ MaxBalance \in Nat /\ MaxRuns \in Nat
  /\ None \notin Salt \cup {"batch", "deploy", "fund-only"}

VARIABLES
  balance,   \* the L1 account's
  pending,   \* mints submitted and not mined
  fpc,       \* fpc[s]: is it deployed on L2, and what it has been credited
  secret,    \* SPONSORED_FPC_SALT, of the repository
  run,       \* the script: the steps ahead and its locals
  runs

vars == <<balance, pending, fpc, secret, run, runs>>

\* todo: the steps ahead.  mints: still to submit; batch: submitted since the
\* last wait.  amount: bridged to the FPC; already: is the FPC deployed?
\* History, of the plan: seen and late are the balance and the pending mints;
\* lost is how many mints have been reverted while the script was minting.
Stopped == [script |-> None, salt |-> None, todo |-> <<>>, mints |-> 0, batch |-> 0,
            amount |-> 0, already |-> FALSE, seen |-> 0, late |-> 0, lost |-> 0]

Init ==
  /\ balance \in 0..MaxBalance /\ pending = 0
  /\ fpc = [s \in Salt |-> [deployed |-> FALSE, credit |-> 0]]
  /\ secret = None
  /\ run = Stopped /\ runs = 0

\* targetWei: the least multiple of a mint that is not below the target.
TargetWei == MintAmount * ((Target + MintAmount - 1) \div MintAmount)

Steps(script) ==
  CASE script = "batch" ->
         <<"plan", "mint", "read", "bridge", "bootstrap", "account", "claim">>
    [] script = "deploy" ->
         <<"check", "bootstrap", "account", "deploy", "fund", "claim", "secret">>
    [] script = "fund-only" ->
         <<"bootstrap", "account", "fund", "claim", "secret">>

Start(script, salt) ==
  /\ run.todo = <<>> /\ runs < MaxRuns
  /\ run' = [Stopped EXCEPT !.script = script, !.salt = salt, !.todo = Steps(script)]
  /\ runs' = runs + 1
  /\ UNCHANGED <<balance, pending, fpc, secret>>

At(step) == run.todo # <<>> /\ Head(run.todo) = step
Done == [run EXCEPT !.todo = Tail(@)]

Stop ==
  /\ run.todo # <<>>
  /\ run' = Stopped
  /\ UNCHANGED <<balance, pending, fpc, secret, runs>>

-----------------------------------------------------------------------------
(* Batch minting *)

Plan_RoundsUp ==   \* mutant: one mint too many for what is left of one
  /\ At("plan")
  /\ LET remaining == Max({0, TargetWei - balance}) IN
       run' = [Done EXCEPT !.mints = (remaining + MintAmount - 1) \div MintAmount,
                           !.seen = balance, !.late = pending]
  /\ UNCHANGED <<balance, pending, fpc, secret, runs>>

Plan ==
  /\ At("plan")
  /\ LET remaining == Max({0, TargetWei - balance}) IN
       run' = [Done EXCEPT !.mints = remaining \div MintAmount,
                           !.seen = balance, !.late = pending]
  /\ UNCHANGED <<balance, pending, fpc, secret, runs>>

Submit ==
  /\ At("mint")
  /\ run.mints > 0 /\ run.batch < BatchSize
  /\ pending' = pending + 1
  /\ run' = [run EXCEPT !.mints = @ - 1, !.batch = @ + 1]
  /\ UNCHANGED <<balance, fpc, secret, runs>>

BatchIsSubmitted == At("mint") /\ run.batch = Min({BatchSize, run.batch + run.mints})

WaitForReceipt_First ==   \* mutant: of the batch's first transaction
  /\ BatchIsSubmitted
  /\ run.batch = 0 \/ pending < run.batch
  /\ run' = IF run.mints > 0 THEN [run EXCEPT !.batch = 0] ELSE [Done EXCEPT !.batch = 0]
  /\ UNCHANGED <<balance, pending, fpc, secret, runs>>

\* The last transaction is mined after those with lower nonces.  Its receipt is
\* not looked at, nor are there others: reverted mints count as the rest do.
WaitForReceipt ==
  /\ BatchIsSubmitted
  /\ run.batch = 0 \/ pending = 0
  /\ run' = IF run.mints > 0 THEN [run EXCEPT !.batch = 0] ELSE [Done EXCEPT !.batch = 0]
  /\ UNCHANGED <<balance, pending, fpc, secret, runs>>

\* A mint is mined, to the account's credit or reverted.
MineMint ==
  /\ pending > 0
  /\ pending' = pending - 1
  /\ \/ balance' = balance + MintAmount /\ UNCHANGED run
     \/ UNCHANGED balance /\ run' = IF At("mint") THEN [run EXCEPT !.lost = @ + 1] ELSE run
  /\ UNCHANGED <<fpc, secret, runs>>

ReadBalance ==
  /\ At("read")
  /\ run' = [Done EXCEPT !.amount = balance]
  /\ UNCHANGED <<balance, pending, fpc, secret, runs>>

-----------------------------------------------------------------------------
(* Bridging and claiming.  The secret of a claim is in the script's memory. *)

Bridge ==
  /\ At("bridge")
  /\ run' = Done /\ balance' = balance - run.amount
  /\ UNCHANGED <<pending, fpc, secret, runs>>

\* A mint and its deposit; the script may stop between the two.
MintAndBridge(done) ==
  /\ \/ run' = done /\ UNCHANGED balance
     \/ run' = Stopped /\ balance' = balance + MintAmount
  /\ UNCHANGED <<pending, fpc, secret, runs>>

BridgeToDeployer == At("bootstrap") /\ MintAndBridge(Done)

Fund == At("fund") /\ MintAndBridge([Done EXCEPT !.amount = MintAmount])

\* After waitForBlocks, the ephemeral account is deployed and pays for itself.
DeployAccount ==
  /\ At("account")
  /\ run' = Done
  /\ UNCHANGED <<balance, pending, fpc, secret, runs>>

Claim ==
  /\ At("claim")
  /\ run' = Done
  /\ fpc' = [fpc EXCEPT ![run.salt].credit = @ + run.amount]
  /\ UNCHANGED <<balance, pending, secret, runs>>

-----------------------------------------------------------------------------
(* The FPC and the secret *)

Check_Credited ==   \* mutant: an FPC that has been funded is taken for deployed
  /\ At("check")
  /\ run' = [Done EXCEPT !.already = fpc[run.salt].credit > 0]
  /\ UNCHANGED <<balance, pending, fpc, secret, runs>>

\* A node that does not answer counts as an FPC that is not deployed.
Check ==
  /\ At("check")
  /\ \E found \in {FALSE, fpc[run.salt].deployed} : run' = [Done EXCEPT !.already = found]
  /\ UNCHANGED <<balance, pending, fpc, secret, runs>>

\* Unless it was found; a second deployment of it is refused.
DeployFpc ==
  /\ At("deploy")
  /\ \/ run.already /\ UNCHANGED fpc
     \/ ~run.already /\ ~fpc[run.salt].deployed
        /\ fpc' = [fpc EXCEPT ![run.salt].deployed = TRUE]
  /\ run' = Done
  /\ UNCHANGED <<balance, pending, secret, runs>>

\* Unless --no-secret is given, or gh fails.
SetSecret ==
  /\ At("secret")
  /\ run' = Done
  /\ secret' \in {secret, run.salt}
  /\ UNCHANGED <<balance, pending, fpc, runs>>

Step ==
  \/ Plan \/ Submit \/ WaitForReceipt \/ ReadBalance \/ Bridge
  \/ BridgeToDeployer \/ DeployAccount \/ Check \/ DeployFpc \/ Fund \/ Claim \/ SetSecret

Next ==
  \/ \E script \in {"batch", "deploy", "fund-only"}, s \in Salt : Start(script, s)
  \/ Step \/ Stop \/ MineMint

Spec == Init /\ [][Next]_vars

-----------------------------------------------------------------------------
(* Properties *)

\* A batch run over what an earlier one has left mints up to the target and no
\* further, but for mints of the earlier one that were still pending.
MintsToTarget ==
  At("mint") =>
    balance + MintAmount * pending <= Max({run.seen, TargetWei}) + MintAmount * run.late

\* A batch run that ends has credited the FPC with less than one mint below the
\* target at worst, the mints it has seen reverted apart; a deployment that ends
\* leaves an FPC that is deployed and funded, wherever earlier ones stopped; and
\* the FPC that the secret names has been funded.
ReportedIsFunded ==
  /\ run.script = "batch" /\ run.todo = <<>> =>
       /\ fpc[run.salt].credit >= run.amount
       /\ run.amount + MintAmount * run.lost > TargetWei - MintAmount
  /\ run.script = "deploy" /\ run.todo = <<>> =>
       fpc[run.salt].deployed /\ fpc[run.salt].credit > 0
  /\ secret # None => fpc[secret].credit > 0
=============================================================================
