-------------------------- MODULE FpcFundingProofs --------------------------
(***************************************************************************)
(* What the scripts that fund the FPC spend and leave, for any amounts,    *)
(* batches and number of runs, stopped anywhere and started over.          *)
(***************************************************************************)
EXTENDS FpcFunding, SequenceTheorems, TLAPS

-----------------------------------------------------------------------------
(* The scripts that fund the transactions *)

Script == {"batch", "deploy", "fund-only"}

StepName == {"plan", "mint", "read", "bridge", "check", "bootstrap", "account", "deploy",
             "fund", "claim", "secret"}

\* What a script may have ahead, and the step it is at.
Rest(script) ==
  {SubSeq(Steps(script), k, Len(Steps(script))) : k \in 1..(Len(Steps(script)) + 1)}

Place == IF run.todo = <<>> THEN "end" ELSE Head(run.todo)

\* Mint by mint, what the balance is going to be.
Coming == balance + MintAmount * (pending + run.mints)

Goal == IF run.seen >= TargetWei THEN run.seen ELSE TargetWei

Runs ==
  [script : Script \cup {None}, salt : Salt \cup {None}, todo : Seq(StepName), mints : Nat,
   batch : Nat, amount : Nat, already : BOOLEAN, seen : Nat, late : Nat, lost : Nat]

FundType ==
  /\ balance \in Nat /\ pending \in Nat
  /\ fpc \in [Salt -> [deployed : BOOLEAN, credit : Nat]]
  /\ secret \in Salt \cup {None}
  /\ run \in Runs
  /\ IF run.script = None THEN run.todo = <<>>
     ELSE run.salt \in Salt /\ run.todo \in Rest(run.script)

\* What it is worth to a batch run, the mints it has seen reverted included, is
\* less than a mint below the target at worst.
Nearly(amount) == amount + MintAmount * run.lost > TargetWei - MintAmount

\* A batch run is on its way to the last multiple of a mint below the target,
\* or already past it.
Minting ==
  /\ Place = "mint" => /\ Coming <= Goal + MintAmount * run.late
                       /\ Nearly(Coming)
                       /\ run.batch = 0 /\ run.mints = 0 => Nearly(balance)
  /\ Place = "read" => Nearly(balance)

\* What is bridged was there, and what is claimed is what was bridged.
Bridged ==
  /\ Place = "bridge" => run.amount <= balance
  /\ run.script = "batch" /\ Place \in {"bridge", "bootstrap", "account", "claim", "end"} =>
       Nearly(run.amount)
  /\ run.script # "batch" /\ Place = "claim" => run.amount > 0

Credited ==
  /\ Place = "secret" => fpc[run.salt].credit > 0
  /\ run.script = "batch" /\ Place = "end" => fpc[run.salt].credit >= run.amount
  /\ run.script = "deploy" /\ Place = "end" => fpc[run.salt].credit > 0
  /\ secret # None => fpc[secret].credit > 0

\* A deployment goes on to fund an FPC that is there.
Deployed ==
  run.script = "deploy" /\ (run.already \/ Place \in {"fund", "claim", "secret", "end"}) =>
    fpc[run.salt].deployed

FundInv == FundType /\ Minting /\ Bridged /\ Credited /\ Deployed

\* The step a script goes on with.
Then(script, step) ==
  CASE step = "plan" -> "mint"
    [] step = "mint" -> "read"
    [] step = "read" -> "bridge"
    [] step \in {"bridge", "check"} -> "bootstrap"
    [] step = "bootstrap" -> "account"
    [] step = "account" -> IF script = "batch" THEN "claim"
                           ELSE IF script = "deploy" THEN "deploy" ELSE "fund"
    [] step = "deploy" -> "fund"
    [] step = "fund" -> "claim"
    [] step = "claim" -> IF script = "batch" THEN "end" ELSE "secret"
    [] OTHER -> "end"

LEMMA SuffixFacts ==
  ASSUME NEW S, NEW s \in Seq(S), NEW k \in 1..Len(s)
  PROVE  /\ SubSeq(s, k, Len(s)) \in Seq(S) /\ SubSeq(s, k, Len(s)) # <<>>
         /\ Head(SubSeq(s, k, Len(s))) = s[k]
         /\ Tail(SubSeq(s, k, Len(s))) = SubSeq(s, k + 1, Len(s))
<1>1. Len(s) \in k..Len(s) /\ k \in Int /\ Len(s) \in Int /\ k <= Len(s)
  OBVIOUS
<1>2. /\ Head(SubSeq(s, k, Len(s))) = s[k]
      /\ Tail(SubSeq(s, k, Len(s))) = SubSeq(s, k + 1, Len(s))
  BY <1>1, HeadTailOfSubSeq
<1>3. \A i \in k..Len(s) : s[i] \in S
  OBVIOUS
<1>4. SubSeq(s, k, Len(s)) \in Seq(S) /\ Len(SubSeq(s, k, Len(s))) = Len(s) - k + 1
  BY <1>1, <1>3, SubSeqProperties
<1> DEFINE rest == SubSeq(s, k, Len(s))
<1> HIDE DEF rest
<1>5. rest # <<>>
  <2>1. Len(rest) >= 1
    BY <1>1, <1>4 DEF rest
  <2>2. QED BY <2>1
<1>6. QED BY <1>2, <1>4, <1>5 DEF rest

LEMMA RestFacts ==
  ASSUME NEW script \in Script, NEW todo \in Rest(script), todo # <<>>
  PROVE  /\ Tail(todo) \in Rest(script) /\ todo \in Seq(StepName) /\ Tail(todo) \in Seq(StepName)
         /\ IF Tail(todo) = <<>> THEN Then(script, Head(todo)) = "end"
                                 ELSE Head(Tail(todo)) = Then(script, Head(todo))
         /\ Head(todo) \in StepName
         /\ Head(todo) \in {"plan", "mint", "read", "bridge"} => script = "batch"
         /\ Head(todo) \in {"check", "fund", "secret"} => script # "batch"
         /\ Head(todo) = "deploy" => script = "deploy"
<1> DEFINE s == Steps(script)
           n == Len(s)
<1>1. PICK k \in 1..(n + 1) : todo = SubSeq(s, k, n)
  BY DEF Rest
<1>2. s \in Seq(StepName)
  <2>1. CASE script = "batch"
    BY <2>1 DEF Steps, StepName
  <2>2. CASE script = "deploy"
    BY <2>2 DEF Steps, StepName
  <2>3. CASE script = "fund-only"
    BY <2>3 DEF Steps, StepName
  <2>4. QED BY <2>1, <2>2, <2>3 DEF Script
<1>3. k # n + 1
  BY <1>1, <1>2
<1>4. Head(todo) = s[k] /\ Tail(todo) = SubSeq(s, k + 1, n) /\ todo \in Seq(StepName)
  BY <1>1, <1>2, <1>3, SuffixFacts
<1>5. /\ k + 1 = n + 1 => Tail(todo) = <<>>
      /\ k + 1 # n + 1 => Tail(todo) # <<>> /\ Head(Tail(todo)) = s[k + 1]
  <2> HIDE DEF s
  <2>1. CASE k + 1 = n + 1
    BY <1>2, <1>4, <2>1
  <2>2. CASE k + 1 # n + 1
    <3>1. k + 1 \in 1..n
      BY <1>3, <2>2, <1>2
    <3>2. QED BY <1>2, <1>4, <2>2, <3>1, SuffixFacts
  <2>3. QED BY <2>1, <2>2
<1>6. /\ k \in 1..n
      /\ k = n => Then(script, s[k]) = "end"
      /\ k # n => s[k + 1] = Then(script, s[k])
      /\ s[k] \in StepName
      /\ s[k] \in {"plan", "mint", "read", "bridge"} => script = "batch"
      /\ s[k] \in {"check", "fund", "secret"} => script # "batch"
      /\ s[k] = "deploy" => script = "deploy"
  <2>1. CASE script = "batch"
    BY <1>3, <2>1 DEF Steps, Then, StepName
  <2>2. CASE script = "deploy"
    BY <1>3, <2>2 DEF Steps, Then, StepName
  <2>3. CASE script = "fund-only"
    BY <1>3, <2>3 DEF Steps, Then, StepName
  <2>4. QED BY <2>1, <2>2, <2>3 DEF Script
<1>7. Tail(todo) \in Rest(script) /\ Tail(todo) \in Seq(StepName)
  <2>1. \A i \in (k + 1)..n : s[i] \in StepName
    BY <1>2, <1>6
  <2>2. k + 1 \in Int /\ n \in Int /\ k + 1 \in 1..(n + 1)
    BY <1>2, <1>6
  <2>3. SubSeq(s, k + 1, n) \in Seq(StepName)
    BY <2>1, <2>2, SubSeqProperties
  <2>4. SubSeq(s, k + 1, n) \in Rest(script)
    BY <2>2 DEF Rest
  <2>5. QED BY <1>4, <2>3, <2>4, Zenon
<1>8. k \in Int /\ n \in Int
  BY <1>2, <1>6
<1> HIDE DEF s, n
<1>9. CASE k = n
  <2>1. Tail(todo) = <<>>
    BY <1>5, <1>8, <1>9
  <2>2. QED BY <1>4, <1>6, <1>7, <1>9, <2>1
<1>10. CASE k # n
  <2>1. Tail(todo) # <<>> /\ Head(Tail(todo)) = s[k + 1]
    BY <1>5, <1>8, <1>10
  <2>2. QED BY <1>4, <1>6, <1>7, <1>10, <2>1, Zenon
<1>11. QED BY <1>9, <1>10

LEMMA MaxOfTwo ==
  ASSUME NEW a \in Int, NEW b \in Int PROVE Max({a, b}) = IF a >= b THEN a ELSE b
BY DEF Max

LEMMA MinOfTwo ==
  ASSUME NEW a \in Int, NEW b \in Int PROVE Min({a, b}) = IF a <= b THEN a ELSE b
BY DEF Min

LEMMA Divided ==
  ASSUME NEW d \in Nat \ {0}, NEW x \in Nat
  PROVE  x \div d \in Nat /\ d * (x \div d) <= x /\ x < d * (x \div d) + d
OBVIOUS

LEMMA TargetIsAMint ==
  TargetWei \in Nat /\ TargetWei >= MintAmount
<1> DEFINE q == (Target + MintAmount - 1) \div MintAmount
<1>1. /\ MintAmount \in Nat \ {0} /\ Target + MintAmount - 1 \in Nat
      /\ Target + MintAmount - 1 >= MintAmount
  BY FundingAssumption
<1>2. q \in Nat /\ Target + MintAmount - 1 < MintAmount * q + MintAmount
  BY <1>1, Divided
<1>3. TargetWei = MintAmount * q
  BY DEF TargetWei
<1> HIDE DEF q
<1>4. q # 0
  BY <1>1, <1>2
<1>5. MintAmount * q = MintAmount + MintAmount * (q - 1) /\ MintAmount * (q - 1) \in Nat
  BY <1>1, <1>2, <1>4
<1>6. QED BY <1>1, <1>2, <1>3, <1>5

LEMMA FundInit == Init => FundInv
<1> SUFFICES ASSUME Init PROVE FundInv
  OBVIOUS
<1>1. run = Stopped /\ run.todo = <<>> /\ run.script = None /\ Place = "end"
  BY DEF Init, Stopped, Place
<1>2. run \in Runs
  BY <1>1 DEF Stopped, Runs
<1>3. FundType
  BY <1>1, <1>2, FundingAssumption DEF Init, FundType
<1>4. Minting
  BY <1>1 DEF Minting
<1>5. Bridged /\ Credited /\ Deployed
  BY <1>1, FundingAssumption DEF Init, Bridged, Credited, Deployed
<1>6. QED BY <1>3, <1>4, <1>5 DEF FundInv

\* A script that has steps ahead, and where it goes on.
LEMMA Ongoing ==
  ASSUME FundType, run.todo # <<>>
  PROVE  /\ run.script \in Script /\ run.salt \in Salt /\ run.todo \in Rest(run.script)
         /\ Place = Head(run.todo) /\ Place \in StepName /\ Place # "end"
         /\ Place \in {"plan", "mint", "read", "bridge"} => run.script = "batch"
         /\ Place \in {"check", "fund", "secret"} => run.script # "batch"
         /\ Place = "deploy" => run.script = "deploy"
         /\ run'.todo = run.todo => Place' = Place
         /\ run'.todo = Tail(run.todo) => Place' = Then(run.script, Place)
         /\ Done \in Runs /\ Tail(run.todo) \in Rest(run.script)
<1>1. run.script \in Script /\ run.salt \in Salt /\ run.todo \in Rest(run.script)
  BY DEF FundType, Runs
<1>2. Place = Head(run.todo)
  BY DEF Place
<1>3. Tail(run.todo) \in Rest(run.script) /\ Tail(run.todo) \in Seq(StepName)
  BY <1>1, RestFacts
<1>4. /\ Place \in StepName /\ Place # "end"
      /\ Place \in {"plan", "mint", "read", "bridge"} => run.script = "batch"
      /\ Place \in {"check", "fund", "secret"} => run.script # "batch"
      /\ Place = "deploy" => run.script = "deploy"
  BY <1>1, <1>2, RestFacts DEF StepName
<1>5. ASSUME run'.todo = Tail(run.todo) PROVE Place' = Then(run.script, Place)
  <2>1. IF Tail(run.todo) = <<>> THEN Then(run.script, Head(run.todo)) = "end"
        ELSE Head(Tail(run.todo)) = Then(run.script, Head(run.todo))
    BY <1>1, RestFacts
  <2>2. QED BY <1>2, <1>5, <2>1 DEF Place
<1>6. run'.todo = run.todo => Place' = Place
  BY DEF Place
<1>7. Done \in Runs
  BY <1>3 DEF Done, FundType, Runs
<1>8. QED BY <1>1, <1>2, <1>3, <1>4, <1>5, <1>6, <1>7

\* A script that stays at its step or goes on to the next.
LEMMA TypeKept ==
  ASSUME FundType, run.todo # <<>>, run' \in Runs,
         run'.script = run.script, run'.salt = run.salt,
         run'.todo \in {run.todo, Tail(run.todo)},
         balance' \in Nat, pending' \in Nat, secret' \in Salt \cup {None},
         fpc' \in [Salt -> [deployed : BOOLEAN, credit : Nat]]
  PROVE  FundType'
BY Ongoing DEF FundType

LEMMA StartStep ==
  ASSUME FundInv, NEW script \in Script, NEW salt \in Salt,
         Start(script, salt)
  PROVE  FundInv'
<1>1. UNCHANGED <<balance, pending, fpc, secret>>
  BY DEF Start
<1>2. /\ run'.script = script /\ run'.salt = salt /\ run'.todo = Steps(script)
      /\ run'.already = FALSE
      /\ Steps(script) \in Seq(StepName) => run' \in Runs
  BY DEF Start, Stopped, Runs
<1>3. /\ Steps(script) \in Seq(StepName) /\ Steps(script) # <<>>
      /\ Head(Steps(script)) \in {"plan", "check", "bootstrap"}
      /\ script = "batch" => Head(Steps(script)) = "plan"
  <2>1. CASE script = "batch"
    BY <2>1 DEF Steps, StepName
  <2>2. CASE script = "deploy"
    BY <2>2 DEF Steps, StepName
  <2>3. CASE script = "fund-only"
    BY <2>3 DEF Steps, StepName
  <2>4. QED BY <2>1, <2>2, <2>3 DEF Script
<1>4. Steps(script) \in Rest(script)
  <2>1. SubSeq(Steps(script), 1, Len(Steps(script))) = Steps(script)
    BY <1>3, SubSeqFull
  <2>2. 1 \in 1..(Len(Steps(script)) + 1)
    BY <1>3
  <2>3. QED BY <2>1, <2>2 DEF Rest
<1>5. script # None
  BY FundingAssumption DEF Script
<1>6. FundType'
  BY <1>1, <1>2, <1>3, <1>4, <1>5 DEF FundInv, FundType
<1>7. /\ Place' \in {"plan", "check", "bootstrap"} /\ run'.script = script
      /\ script = "batch" => Place' = "plan"
  BY <1>2, <1>3 DEF Place
<1>8. Minting' /\ Bridged' /\ Credited' /\ Deployed'
  BY <1>1, <1>2, <1>7 DEF FundInv, Minting, Bridged, Credited, Deployed
<1>9. QED BY <1>6, <1>8 DEF FundInv

\* Wherever it stops, also between a mint and its deposit.
LEMMA StopStep ==
  ASSUME FundInv, run' = Stopped, balance' \in Nat,
         UNCHANGED <<pending, fpc, secret>>
  PROVE  FundInv'
<1>1. run'.todo = <<>> /\ run'.script = None /\ Place' = "end" /\ run' \in Runs
  BY DEF Stopped, Place, Runs
<1>2. FundType'
  BY <1>1 DEF FundInv, FundType
<1>3. run'.script # "batch" /\ run'.script # "deploy"
  BY <1>1, FundingAssumption
<1>4. Minting' /\ Bridged' /\ Credited' /\ Deployed'
  BY <1>1, <1>3 DEF FundInv, Minting, Bridged, Credited, Deployed
<1>5. QED BY <1>2, <1>4 DEF FundInv

LEMMA PlanStep == ASSUME FundInv, Plan PROVE FundInv'
<1> DEFINE left == IF balance >= TargetWei THEN 0 ELSE TargetWei - balance
           mints == left \div MintAmount
<1>1. /\ balance \in Nat /\ pending \in Nat /\ TargetWei \in Nat /\ TargetWei >= MintAmount
      /\ MintAmount \in Nat \ {0}
  BY TargetIsAMint, FundingAssumption DEF FundInv, FundType
<1>2. Max({0, TargetWei - balance}) = left /\ left \in Nat
  BY <1>1, MaxOfTwo
<1>3. mints \in Nat /\ MintAmount * mints <= left /\ left < MintAmount * mints + MintAmount
  BY <1>1, <1>2, Divided
<1>4. /\ run.todo # <<>> /\ Place = "plan" /\ UNCHANGED <<balance, pending, fpc, secret>>
      /\ run' = [Done EXCEPT !.mints = mints, !.seen = balance, !.late = pending]
  BY <1>2 DEF Plan, At, Place
<1> HIDE DEF mints
<1>5. FundType
  BY DEF FundInv
<1>6. /\ run' \in Runs /\ run'.script = run.script /\ run'.salt = run.salt
      /\ run'.todo = Tail(run.todo) /\ run'.mints = mints /\ run'.seen = balance
      /\ run'.late = pending /\ run'.lost \in Nat
  BY <1>1, <1>3, <1>4, <1>5, Ongoing DEF Done, Runs, FundType
<1>7. FundType'
  BY <1>4, <1>5, <1>6, TypeKept DEF FundType
<1>8. Place' = "mint"
  BY <1>4, <1>5, <1>6, Ongoing DEF Then
<1>9. Minting'
  <2>1. MintAmount * (pending + mints) = MintAmount * pending + MintAmount * mints
    BY <1>1, <1>3
  <2>2. MintAmount * pending \in Nat /\ MintAmount * mints \in Nat
    BY <1>1, <1>3
  <2>3. Coming' = balance + MintAmount * pending + MintAmount * mints
    BY <1>1, <1>3, <1>4, <1>6, <2>1, <2>2 DEF Coming
  <2>4. TargetWei' = TargetWei /\ Goal' = IF balance >= TargetWei THEN balance ELSE TargetWei
    BY <1>6 DEF Goal, TargetWei
  <2>5. Coming' <= Goal' + MintAmount * pending
    BY <1>1, <1>2, <1>3, <2>2, <2>3, <2>4
  <2>6. Coming' > TargetWei - MintAmount /\ Coming' \in Nat
    BY <1>1, <1>2, <1>3, <2>2, <2>3
  <2>7. mints = 0 => balance > TargetWei - MintAmount
    BY <1>1, <1>2, <1>3
  <2>8. MintAmount * run'.lost \in Nat
    BY <1>1, <1>6
  <2>9. Nearly(Coming)' /\ (mints = 0 => Nearly(balance)')
    BY <1>1, <1>4, <2>4, <2>6, <2>7, <2>8 DEF Nearly
  <2>10. QED BY <1>4, <1>6, <1>8, <2>4, <2>5, <2>9 DEF Minting
<1>10. Bridged' /\ Credited' /\ Deployed'
  BY <1>4, <1>5, <1>6, <1>8, Ongoing DEF FundInv, Bridged, Credited, Deployed
<1>11. QED BY <1>7, <1>9, <1>10 DEF FundInv

LEMMA SubmitStep == ASSUME FundInv, Submit PROVE FundInv'
<1>1. /\ FundType /\ balance \in Nat /\ pending \in Nat /\ run.mints \in Nat
      /\ run.batch \in Nat /\ run \in Runs
  BY DEF FundInv, FundType, Runs
<1>2. /\ run.todo # <<>> /\ Place = "mint" /\ UNCHANGED <<balance, fpc, secret>>
      /\ run.mints > 0 /\ pending' = pending + 1
      /\ run' = [run EXCEPT !.mints = @ - 1, !.batch = @ + 1]
  BY DEF Submit, At, Place
<1> DEFINE mints == run.mints - 1
           batch == run.batch + 1
<1>3. /\ mints \in Nat /\ batch \in Nat /\ batch # 0 /\ mints + 1 = run.mints
      /\ run' = [run EXCEPT !.mints = mints, !.batch = batch]
  BY <1>1, <1>2
<1> HIDE DEF mints, batch
<1>4. /\ run' \in Runs /\ run'.script = run.script /\ run'.salt = run.salt
      /\ run'.todo = run.todo /\ run'.mints = mints /\ run'.batch # 0
      /\ run'.seen = run.seen /\ run'.late = run.late /\ run'.lost = run.lost
  BY <1>1, <1>3 DEF Runs
<1>5. FundType'
  BY <1>1, <1>2, <1>4, TypeKept DEF FundType
<1>6. Place' = "mint"
  BY <1>2, <1>4 DEF Place
<1>7. Coming' = Coming /\ Goal' = Goal /\ TargetWei' = TargetWei
  <2>1. pending' + mints = pending + run.mints
    BY <1>1, <1>2, <1>3
  <2>2. QED BY <1>2, <1>4, <2>1 DEF Coming, Goal, TargetWei
<1>8. Minting'
  BY <1>2, <1>4, <1>6, <1>7 DEF FundInv, Minting, Nearly
<1>9. Bridged' /\ Credited' /\ Deployed'
  BY <1>1, <1>2, <1>4, <1>6, Ongoing DEF FundInv, Bridged, Credited, Deployed
<1>10. QED BY <1>5, <1>8, <1>9 DEF FundInv

LEMMA WaitStep == ASSUME FundInv, WaitForReceipt PROVE FundInv'
<1>1. /\ FundType /\ balance \in Nat /\ pending \in Nat /\ run.mints \in Nat
      /\ run.batch \in Nat /\ run \in Runs /\ MintAmount \in Nat \ {0}
  BY FundingAssumption DEF FundInv, FundType, Runs
<1>2. /\ run.todo # <<>> /\ Place = "mint" /\ UNCHANGED <<balance, pending, fpc, secret>>
      /\ run.batch = 0 \/ pending = 0
  BY DEF WaitForReceipt, BatchIsSubmitted, At, Place
<1>3. CASE run.mints > 0
  <2>1. run' = [run EXCEPT !.batch = 0]
    BY <1>3 DEF WaitForReceipt
  <2>2. /\ run' \in Runs /\ run'.script = run.script /\ run'.salt = run.salt
        /\ run'.todo = run.todo /\ run'.mints = run.mints /\ run'.mints # 0
        /\ run'.seen = run.seen /\ run'.late = run.late /\ run'.lost = run.lost
    <3>1. run.mints # 0
      BY <1>1, <1>3
    <3>2. QED BY <1>1, <2>1, <3>1 DEF Runs
  <2>3. FundType'
    BY <1>1, <1>2, <2>2, TypeKept DEF FundType
  <2>4. Place' = "mint"
    BY <1>2, <2>2 DEF Place
  <2>5. Coming' = Coming /\ Goal' = Goal /\ TargetWei' = TargetWei
    BY <1>2, <2>2 DEF Coming, Goal, TargetWei
  <2>6. Minting'
    BY <1>2, <2>2, <2>4, <2>5 DEF FundInv, Minting, Nearly
  <2>7. Bridged' /\ Credited' /\ Deployed'
    BY <1>1, <1>2, <2>2, <2>4, Ongoing DEF FundInv, Bridged, Credited, Deployed
  <2>8. QED BY <2>3, <2>6, <2>7 DEF FundInv
<1>4. CASE run.mints = 0
  <2>1. run' = [Done EXCEPT !.batch = 0]
    BY <1>4 DEF WaitForReceipt
  <2>2. Done \in Runs
    BY <1>1, <1>2, Ongoing
  <2>3. /\ run' \in Runs /\ run'.script = run.script /\ run'.salt = run.salt
        /\ run'.todo = Tail(run.todo) /\ run'.lost = run.lost
    BY <1>1, <2>1, <2>2 DEF Done, Runs
  <2>4. FundType'
    BY <1>1, <1>2, <2>3, TypeKept DEF FundType
  <2>5. Place' = "read"
    BY <1>1, <1>2, <2>3, Ongoing DEF Then
  <2>6. Nearly(balance)
    <3>1. CASE run.batch = 0
      BY <1>2, <1>4, <3>1 DEF FundInv, Minting
    <3>2. CASE pending = 0
      <4>1. Coming = balance
        BY <1>1, <1>4, <3>2 DEF Coming
      <4>2. QED BY <1>2, <4>1 DEF FundInv, Minting
    <3>3. QED BY <1>2, <3>1, <3>2
  <2>7. Minting'
    BY <1>2, <2>3, <2>5, <2>6 DEF Minting, Nearly, TargetWei
  <2>8. Bridged' /\ Credited' /\ Deployed'
    BY <1>1, <1>2, <2>3, <2>5, Ongoing DEF FundInv, Bridged, Credited, Deployed
  <2>9. QED BY <2>4, <2>7, <2>8 DEF FundInv
<1>5. QED BY <1>1, <1>3, <1>4

\* A mint that is mined is in the balance instead of on its way.
LEMMA CreditStep ==
  ASSUME FundInv, pending > 0, pending' = pending - 1, balance' = balance + MintAmount,
         UNCHANGED <<fpc, secret, run>>
  PROVE  FundInv'
<1>1. /\ FundType /\ balance \in Nat /\ pending \in Nat /\ run.mints \in Nat
      /\ run.lost \in Nat /\ MintAmount \in Nat \ {0} /\ TargetWei \in Nat
  BY TargetIsAMint, FundingAssumption DEF FundInv, FundType, Runs
<1>2. FundType'
  BY <1>1 DEF FundType
<1>3. Place' = Place /\ Goal' = Goal /\ TargetWei' = TargetWei
  BY DEF Place, Goal, TargetWei
<1>4. Coming' = Coming /\ balance' > balance
  BY <1>1 DEF Coming
<1>5. Minting'
  <2>1. MintAmount * run.lost \in Nat
    BY <1>1
  <2>2. Nearly(balance) => Nearly(balance)'
    BY <1>1, <1>3, <2>1 DEF Nearly
  <2>3. Nearly(Coming) => Nearly(Coming)'
    BY <1>3, <1>4 DEF Nearly
  <2>4. QED BY <1>3, <1>4, <2>2, <2>3 DEF FundInv, Minting
<1>6. Bridged' /\ Credited' /\ Deployed'
  <2>1. run.amount \in Nat
    BY <1>1 DEF FundType, Runs
  <2>2. run.amount <= balance => run.amount <= balance'
    BY <1>1, <2>1
  <2>3. QED BY <1>3, <2>2 DEF FundInv, Bridged, Credited, Deployed, Nearly
<1>7. QED BY <1>2, <1>5, <1>6 DEF FundInv

\* One that is reverted is no longer on its way, and counted as lost.
LEMMA RevertStep ==
  ASSUME FundInv, pending > 0, pending' = pending - 1, UNCHANGED <<balance, fpc, secret>>,
         run' = IF At("mint") THEN [run EXCEPT !.lost = @ + 1] ELSE run
  PROVE  FundInv'
<1>1. /\ FundType /\ balance \in Nat /\ pending \in Nat /\ run.mints \in Nat
      /\ run.lost \in Nat /\ run.seen \in Nat /\ run.late \in Nat /\ run \in Runs
      /\ MintAmount \in Nat \ {0} /\ TargetWei \in Nat
  BY TargetIsAMint, FundingAssumption DEF FundInv, FundType, Runs
<1>2. TargetWei' = TargetWei
  BY DEF TargetWei
<1>3. CASE ~At("mint")
  <2>1. UNCHANGED run /\ Place' = Place /\ Place # "mint"
    BY <1>3 DEF At, Place
  <2>2. FundType'
    BY <1>1, <2>1 DEF FundType
  <2>3. Minting' /\ Bridged' /\ Credited' /\ Deployed'
    BY <1>2, <2>1 DEF FundInv, Minting, Bridged, Credited, Deployed, Nearly
  <2>4. QED BY <2>2, <2>3 DEF FundInv
<1>4. CASE At("mint")
  <2> DEFINE lost == run.lost + 1
  <2>1. run.todo # <<>> /\ Place = "mint" /\ lost \in Nat /\ run' = [run EXCEPT !.lost = lost]
    BY <1>1, <1>4 DEF At, Place
  <2>2. MintAmount * lost = MintAmount * run.lost + MintAmount
    BY <1>1
  <2> HIDE DEF lost
  <2>3. /\ run' \in Runs /\ run'.script = run.script /\ run'.salt = run.salt
        /\ run'.todo = run.todo /\ run'.mints = run.mints /\ run'.batch = run.batch
        /\ run'.seen = run.seen /\ run'.late = run.late /\ run'.lost = lost
    BY <1>1, <2>1 DEF Runs
  <2>4. FundType'
    BY <1>1, <2>1, <2>3, TypeKept DEF FundType
  <2>5. Place' = "mint" /\ Goal' = Goal
    BY <1>2, <2>1, <2>3 DEF Place, Goal
  <2>6. Coming' = Coming - MintAmount /\ Coming \in Nat
    <3>1. pending' + run.mints = (pending + run.mints) - 1 /\ pending + run.mints \in Nat
      BY <1>1
    <3>2. MintAmount * (pending' + run.mints) = MintAmount * (pending + run.mints) - MintAmount
      BY <1>1, <3>1
    <3>3. MintAmount * (pending + run.mints) \in Nat
      BY <1>1, <3>1
    <3>4. QED BY <1>1, <2>3, <3>2, <3>3 DEF Coming
  <2>7. MintAmount * run.lost \in Nat /\ MintAmount * run.late \in Nat /\ Goal \in Nat
    BY <1>1 DEF Goal
  <2>8. Nearly(Coming)' /\ (Nearly(balance) => Nearly(balance)')
    <3>1. Nearly(Coming)
      BY <2>1 DEF FundInv, Minting
    <3>2. QED BY <1>1, <1>2, <2>2, <2>3, <2>6, <2>7, <3>1 DEF Nearly
  <2>9. Coming' <= Goal' + MintAmount * run'.late
    <3>1. Coming <= Goal + MintAmount * run.late
      BY <2>1 DEF FundInv, Minting
    <3>2. QED BY <1>1, <2>3, <2>5, <2>6, <2>7, <3>1
  <2>10. Minting'
    BY <2>1, <2>3, <2>5, <2>8, <2>9 DEF FundInv, Minting
  <2>11. Bridged' /\ Credited' /\ Deployed'
    BY <1>1, <2>1, <2>3, <2>5, Ongoing DEF FundInv, Bridged, Credited, Deployed
  <2>12. QED BY <2>4, <2>10, <2>11 DEF FundInv
<1>5. QED BY <1>3, <1>4

LEMMA MineStepOfMint == ASSUME FundInv, MineMint PROVE FundInv'
BY CreditStep, RevertStep DEF MineMint

\* The steps after the minting.  amount: what is bridged from then on.
LEMMA LaterStep ==
  ASSUME FundInv, run.todo # <<>>, NEW amount \in Nat, NEW already \in BOOLEAN,
         run' = [Done EXCEPT !.amount = amount, !.already = already],
         balance' \in Nat, pending' = pending, secret' \in Salt \cup {None},
         fpc' \in [Salt -> [deployed : BOOLEAN, credit : Nat]],
         Place \notin {"plan", "mint"},
         Place = "read" => amount = balance /\ balance' = balance,
         Place \in {"bridge", "bootstrap", "account"} => amount = run.amount,
         Place = "fund" => amount > 0,
         Place = "claim" => fpc'[run.salt].credit >= amount /\ amount = run.amount,
         Place = "claim" /\ run.script # "batch" => fpc'[run.salt].credit > 0,
         Place = "secret" => UNCHANGED fpc,
         Place = "deploy" => fpc'[run.salt].deployed,
         already => run.already \/ fpc'[run.salt].deployed,
         fpc[run.salt].deployed => fpc'[run.salt].deployed,
         secret' # None => fpc'[secret'].credit > 0
  PROVE  FundInv'
<1>1. FundType /\ TargetWei \in Nat /\ TargetWei >= MintAmount /\ MintAmount \in Nat \ {0}
  BY TargetIsAMint, FundingAssumption DEF FundInv
<1>2. Done \in Runs
  BY <1>1, Ongoing
<1>3. /\ run' \in Runs /\ run'.script = run.script /\ run'.salt = run.salt
      /\ run'.todo = Tail(run.todo) /\ run'.amount = amount /\ run'.already = already
      /\ run'.lost = run.lost
  BY <1>2 DEF Done, Runs
<1>4. FundType'
  BY <1>1, <1>3, TypeKept DEF FundType
<1>5. Place' = Then(run.script, Place) /\ Place \in StepName
  BY <1>1, <1>3, Ongoing
<1>6. /\ Place \in {"plan", "mint", "read", "bridge"} => run.script = "batch"
      /\ Place \in {"check", "fund", "secret"} => run.script # "batch"
  BY <1>1, Ongoing
<1>7. Minting'
  BY <1>5 DEF Minting, Then
<1>8. Bridged'
  <2>1. Place' = "bridge" => amount <= balance'
    BY <1>5, <1>1 DEF Then, FundType
  <2>2. ASSUME run.script = "batch", Place' \in {"bridge", "bootstrap", "account", "claim", "end"}
        PROVE  Nearly(amount)
    <3>1. Place \in {"read", "bridge", "bootstrap", "account", "claim"}
      BY <1>5, <1>6, <2>2 DEF Then, StepName
    <3>2. QED BY <3>1, <2>2 DEF FundInv, Minting, Bridged
  <2>3. ASSUME Place' = "claim", run.script # "batch" PROVE amount > 0
    <3>1. Place = "fund"
      BY <1>5, <2>3 DEF Then
    <3>2. QED BY <3>1
  <2>4. TargetWei' = TargetWei
    BY DEF TargetWei
  <2>5. QED BY <1>3, <2>1, <2>2, <2>3, <2>4 DEF Bridged, Nearly
<1>9. Credited'
  <2>1. ASSUME Place' = "secret" PROVE Place = "claim" /\ run.script # "batch"
    BY <1>5, <2>1 DEF Then
  <2>2. ASSUME Place' = "end", run.script = "batch" PROVE Place = "claim"
    BY <1>5, <1>6, <2>2 DEF Then, StepName
  <2>3. ASSUME Place' = "end", run.script = "deploy" PROVE Place = "secret"
    BY <1>5, <1>6, <2>3 DEF Then, StepName
  <2>4. QED BY <1>3, <2>1, <2>2, <2>3 DEF FundInv, Credited
<1>10. Deployed'
  <2>1. ASSUME run.script = "deploy", Place' \in {"fund", "claim", "secret", "end"}
        PROVE  Place \in {"deploy", "fund", "claim", "secret"}
    BY <1>5, <1>6, <2>1 DEF Then, StepName
  <2>2. QED BY <1>3, <2>1 DEF FundInv, Deployed
<1>11. QED BY <1>4, <1>7, <1>8, <1>9, <1>10 DEF FundInv

LEMMA FundNext == ASSUME FundInv, Step PROVE FundInv'
<1>1. /\ FundType /\ balance \in Nat /\ pending \in Nat /\ run.amount \in Nat
      /\ run.already \in BOOLEAN /\ secret \in Salt \cup {None} /\ run \in Runs
      /\ fpc \in [Salt -> [deployed : BOOLEAN, credit : Nat]] /\ MintAmount \in Nat \ {0}
  BY FundingAssumption DEF FundInv, FundType, Runs
<1>2. secret # None => fpc[secret].credit > 0
  BY DEF FundInv, Credited
<1>3. ASSUME run.todo # <<>>
      PROVE  /\ Done = [Done EXCEPT !.amount = run.amount, !.already = run.already]
             /\ \A amount : [Done EXCEPT !.amount = amount] =
                             [Done EXCEPT !.amount = amount, !.already = run.already]
             /\ \A already : [Done EXCEPT !.already = already] =
                              [Done EXCEPT !.amount = run.amount, !.already = already]
             /\ run.salt \in Salt /\ run.script \in Script
  <2>1. Done \in Runs
    BY <1>1, <1>3, Ongoing
  <2>2. Done.amount = run.amount /\ Done.already = run.already
    BY <1>1 DEF Done, Runs
  <2> HIDE DEF Done
  <2>3. QED BY <1>1, <1>3, <2>1, <2>2, Ongoing DEF Runs
<1>4. CASE ReadBalance
  <2>1. /\ run.todo # <<>> /\ Place = "read" /\ run' = [Done EXCEPT !.amount = balance]
        /\ UNCHANGED <<balance, pending, fpc, secret>>
    BY <1>4 DEF ReadBalance, At, Place
  <2>2. run' = [Done EXCEPT !.amount = balance, !.already = run.already]
    BY <1>3, <2>1
  <2>3. QED BY <1>1, <1>2, <2>1, <2>2, LaterStep
<1>5. CASE Bridge
  <2>1. /\ run.todo # <<>> /\ Place = "bridge" /\ run' = Done
        /\ balance' = balance - run.amount /\ UNCHANGED <<pending, fpc, secret>>
    BY <1>5 DEF Bridge, At, Place
  <2>2. balance' \in Nat
    BY <1>1, <2>1 DEF FundInv, Bridged
  <2>3. run' = [Done EXCEPT !.amount = run.amount, !.already = run.already]
    BY <1>3, <2>1
  <2>4. QED BY <1>1, <1>2, <2>1, <2>2, <2>3, LaterStep
<1>6. CASE BridgeToDeployer
  <2>1. /\ run.todo # <<>> /\ Place = "bootstrap" /\ UNCHANGED <<pending, fpc, secret>>
        /\ \/ run' = Done /\ UNCHANGED balance
           \/ run' = Stopped /\ balance' = balance + MintAmount
    BY <1>6 DEF BridgeToDeployer, MintAndBridge, At, Place
  <2>2. CASE run' = Stopped /\ balance' = balance + MintAmount
    BY <1>1, <2>1, <2>2, StopStep
  <2>3. CASE run' = Done /\ UNCHANGED balance
    <3>1. run' = [Done EXCEPT !.amount = run.amount, !.already = run.already]
      BY <1>3, <2>1, <2>3
    <3>2. QED BY <1>1, <1>2, <2>1, <2>3, <3>1, LaterStep
  <2>4. QED BY <2>1, <2>2, <2>3
<1>7. CASE Fund
  <2>1. /\ run.todo # <<>> /\ Place = "fund" /\ UNCHANGED <<pending, fpc, secret>>
        /\ \/ run' = [Done EXCEPT !.amount = MintAmount] /\ UNCHANGED balance
           \/ run' = Stopped /\ balance' = balance + MintAmount
    BY <1>7 DEF Fund, MintAndBridge, At, Place
  <2>2. CASE run' = Stopped /\ balance' = balance + MintAmount
    BY <1>1, <2>1, <2>2, StopStep
  <2>3. CASE run' = [Done EXCEPT !.amount = MintAmount] /\ UNCHANGED balance
    <3>1. run' = [Done EXCEPT !.amount = MintAmount, !.already = run.already]
      BY <1>3, <2>1, <2>3
    <3>2. MintAmount \in Nat /\ MintAmount > 0
      BY <1>1
    <3>3. QED BY <1>1, <1>2, <2>1, <2>3, <3>1, <3>2, LaterStep
  <2>4. QED BY <2>1, <2>2, <2>3
<1>8. CASE DeployAccount
  <2>1. /\ run.todo # <<>> /\ Place = "account" /\ run' = Done
        /\ UNCHANGED <<balance, pending, fpc, secret>>
    BY <1>8 DEF DeployAccount, At, Place
  <2>2. run' = [Done EXCEPT !.amount = run.amount, !.already = run.already]
    BY <1>3, <2>1
  <2>3. QED BY <1>1, <1>2, <2>1, <2>2, LaterStep
<1>9. CASE Check
  <2>1. /\ run.todo # <<>> /\ Place = "check" /\ UNCHANGED <<balance, pending, fpc, secret>>
    BY <1>9 DEF Check, At, Place
  <2>2. PICK found \in {FALSE, fpc[run.salt].deployed} : run' = [Done EXCEPT !.already = found]
    BY <1>9 DEF Check
  <2>3. found \in BOOLEAN
    BY <1>1, <1>3, <2>1
  <2>4. run' = [Done EXCEPT !.amount = run.amount, !.already = found]
    BY <1>3, <2>1, <2>2
  <2>5. QED BY <1>1, <1>2, <2>1, <2>3, <2>4, LaterStep
<1>10. CASE DeployFpc
  <2>1. /\ run.todo # <<>> /\ Place = "deploy" /\ run' = Done
        /\ UNCHANGED <<balance, pending, secret>>
        /\ \/ run.already /\ UNCHANGED fpc
           \/ fpc' = [fpc EXCEPT ![run.salt].deployed = TRUE]
    BY <1>10 DEF DeployFpc, At, Place
  <2>2. run.salt \in Salt
    BY <1>3, <2>1
  <2>3. run.already => run.script # "deploy" \/ fpc[run.salt].deployed
    BY DEF FundInv, Deployed
  <2>4. run.script = "deploy"
    BY <1>1, <2>1, Ongoing
  <2>5. /\ fpc' \in [Salt -> [deployed : BOOLEAN, credit : Nat]] /\ fpc'[run.salt].deployed
        /\ \A s \in Salt : fpc'[s].credit = fpc[s].credit
    <3>1. CASE run.already /\ UNCHANGED fpc
      BY <1>1, <2>2, <2>3, <2>4, <3>1
    <3>2. CASE fpc' = [fpc EXCEPT ![run.salt].deployed = TRUE]
      <4>1. fpc[run.salt].credit \in Nat
        BY <1>1, <2>2
      <4>2. QED BY <1>1, <2>2, <3>2, <4>1
    <3>3. QED BY <2>1, <3>1, <3>2
  <2>6. run' = [Done EXCEPT !.amount = run.amount, !.already = run.already]
    BY <1>3, <2>1
  <2>7. secret' # None => fpc'[secret'].credit > 0
    BY <1>1, <1>2, <2>1, <2>5
  <2>8. QED BY <1>1, <2>1, <2>5, <2>6, <2>7, LaterStep
<1>11. CASE Claim
  <2>1. /\ run.todo # <<>> /\ Place = "claim" /\ run' = Done
        /\ UNCHANGED <<balance, pending, secret>>
        /\ fpc' = [fpc EXCEPT ![run.salt].credit = @ + run.amount]
    BY <1>11 DEF Claim, At, Place
  <2>2. run.salt \in Salt /\ (run.script # "batch" => run.amount > 0)
    BY <1>3, <2>1 DEF FundInv, Bridged
  <2>3. fpc[run.salt].credit \in Nat /\ fpc[run.salt].credit + run.amount \in Nat
    BY <1>1, <2>2
  <2>4. /\ fpc' \in [Salt -> [deployed : BOOLEAN, credit : Nat]]
        /\ fpc'[run.salt].credit = fpc[run.salt].credit + run.amount
        /\ fpc'[run.salt].deployed = fpc[run.salt].deployed
        /\ \A s \in Salt \ {run.salt} : fpc'[s] = fpc[s]
    BY <1>1, <2>1, <2>2, <2>3
  <2>5. /\ fpc'[run.salt].credit >= run.amount /\ fpc'[run.salt].credit >= fpc[run.salt].credit
        /\ run.script # "batch" => fpc'[run.salt].credit > 0
    BY <1>1, <2>2, <2>3, <2>4
  <2>6. run' = [Done EXCEPT !.amount = run.amount, !.already = run.already]
    BY <1>3, <2>1
  <2>7. secret' # None => fpc'[secret'].credit > 0
    BY <1>1, <1>2, <2>1, <2>4, <2>5
  <2>8. QED BY <1>1, <2>1, <2>4, <2>5, <2>6, <2>7, LaterStep
<1>12. CASE SetSecret
  <2>1. /\ run.todo # <<>> /\ Place = "secret" /\ run' = Done
        /\ UNCHANGED <<balance, pending, fpc>> /\ secret' \in {secret, run.salt}
    BY <1>12 DEF SetSecret, At, Place
  <2>2. run.salt \in Salt /\ fpc[run.salt].credit > 0
    BY <1>3, <2>1 DEF FundInv, Credited
  <2>3. run' = [Done EXCEPT !.amount = run.amount, !.already = run.already]
    BY <1>3, <2>1
  <2>4. secret' \in Salt \cup {None} /\ (secret' # None => fpc'[secret'].credit > 0)
    BY <1>1, <1>2, <2>1, <2>2
  <2>5. QED BY <1>1, <2>1, <2>3, <2>4, LaterStep
<1>13. QED
  BY <1>4, <1>5, <1>6, <1>7, <1>8, <1>9, <1>10, <1>11, <1>12, PlanStep, SubmitStep, WaitStep
     DEF Step

LEMMA FundKept == ASSUME FundInv, [Next]_vars PROVE FundInv'
<1>1. CASE UNCHANGED vars
  <2>1. UNCHANGED <<balance, pending, fpc, secret, run>>
    BY <1>1 DEF vars
  <2>2. Place' = Place /\ Coming' = Coming /\ Goal' = Goal /\ TargetWei' = TargetWei
    BY <2>1 DEF Place, Coming, Goal, TargetWei
  <2>3. FundType' /\ Minting' /\ Bridged' /\ Credited' /\ Deployed'
    BY <2>1, <2>2 DEF FundInv, FundType, Minting, Bridged, Credited, Deployed, Nearly
  <2>4. QED BY <2>3 DEF FundInv
<1>2. CASE Stop
  <2>1. run' = Stopped /\ UNCHANGED <<balance, pending, fpc, secret>> /\ balance \in Nat
    BY <1>2 DEF Stop, FundInv, FundType
  <2>2. QED BY <2>1, StopStep
<1>3. QED BY <1>1, <1>2, StartStep, FundNext, MineStepOfMint DEF Next, Script

LEMMA FundAlways == Spec => []FundInv
BY FundInit, FundKept, PTL DEF Spec

\* However often a batch run is stopped and started over, it mints no further than
\* its target, but for the mints an earlier run had under way.
THEOREM MintsStayOnTarget == Spec => []MintsToTarget
<1>1. FundInv => MintsToTarget
  <2> SUFFICES ASSUME FundInv, At("mint")
               PROVE  balance + MintAmount * pending
                        <= Max({run.seen, TargetWei}) + MintAmount * run.late
    BY DEF MintsToTarget
  <2>1. /\ balance \in Nat /\ pending \in Nat /\ run.mints \in Nat /\ run.seen \in Nat
        /\ run.late \in Nat /\ MintAmount \in Nat \ {0} /\ TargetWei \in Nat
    BY TargetIsAMint, FundingAssumption DEF FundInv, FundType, Runs
  <2>2. Coming <= Goal + MintAmount * run.late
    BY DEF FundInv, Minting, Place, At
  <2>3. Max({run.seen, TargetWei}) = Goal
    BY <2>1, MaxOfTwo DEF Goal
  <2>4. /\ MintAmount * (pending + run.mints) = MintAmount * pending + MintAmount * run.mints
        /\ MintAmount * pending \in Nat /\ MintAmount * run.mints \in Nat
        /\ MintAmount * run.late \in Nat
    BY <2>1
  <2>5. Goal \in Nat
    BY <2>1 DEF Goal
  <2>6. QED BY <2>1, <2>2, <2>3, <2>4, <2>5 DEF Coming
<1>2. QED BY <1>1, FundAlways, PTL

\* What a script reports as funded is: the FPC of a batch run that ended, and the
\* one the repository's secret names.
THEOREM FundedAsReported == Spec => []ReportedIsFunded
<1>1. FundInv => ReportedIsFunded
  BY DEF FundInv, Bridged, Credited, Deployed, Place, ReportedIsFunded, Nearly
<1>2. QED BY <1>1, FundAlways, PTL

\* A script that bridges what it read before has it: nothing it or a run before it
\* did meanwhile, mints of theirs that are mined late among it, takes from it.
THEOREM NeverOverdrawn == Spec => [](balance \in Nat /\ (At("bridge") => run.amount <= balance))
<1>1. FundInv => balance \in Nat /\ (At("bridge") => run.amount <= balance)
  BY DEF FundInv, FundType, Bridged, Place, At
<1>2. QED BY <1>1, FundAlways, PTL
=============================================================================
