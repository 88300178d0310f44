---------------------- MODULE PlaygroundSessionProofs -----------------------
(***************************************************************************)
(* What holds of a page of the playground, for any number of connections   *)
(* and initialisations and any remote modes.                               *)
(***************************************************************************)
EXTENDS PlaygroundSession, TLAPS

-----------------------------------------------------------------------------
(* The page *)

App == [node : BOOLEAN, live : BOOLEAN, wallet : Side \cup {None},
        proving : {"local", "uee"}, ui : {"local", "uee", "tee"}]

Prover == [mode : {"local", "uee", "tee", None}, listener : Side \cup {None}]

\* An operation runs exactly while its screen's flag is set.
FlagIsSet ==
  /\ deploying \in [Side -> BOOLEAN]
  /\ running \in [Side -> {0, 1}]
  /\ \A s \in Side : deploying[s] <=> running[s] = 1

\* Phases of the page's prover go to an operation that runs.
PageIsLive == prover.listener # None => running[prover.listener] > 0

\* The next prover is local too while the page says "local"; a mode other than
\* "local" is only remembered by a page that has had a prover.
ModeIsShown ==
  /\ app.ui = "local" => app.proving = "local" /\ prover.mode \in {None, "local"}
  /\ prover.mode = None => app.proving = "local" /\ ~app.node

PageInv ==
  /\ app \in App /\ prover \in Prover
  /\ FlagIsSet /\ PageIsLive /\ ModeIsShown

-----------------------------------------------------------------------------
(* Who holds which prover *)

Places == {"idle", "services", "node", "pxe", "fpc", "accounts", "clear"}

\* Past the first of these a node was there, which keeps connections from making
\* another prover.
Late == Places \ {"idle", "services"}

HeldType ==
  /\ start \in [Start -> [pc : Places, attempt : Int]]
  /\ pxe \in [Start -> Prover \cup {None, Current}]
  /\ overtaken \in {"no", "retry", "met"}

\* Until they met, one initialisation runs at most, and it holds state.prover.
OneStart ==
  overtaken # "met" =>
    \A i \in Start :
      /\ start[i].pc # "idle" => \A j \in Start : start[j].pc # "idle" => j = i
      /\ start[i].pc = "services" => own = None
      /\ start[i].pc = "pxe" => pxe[i] = Current

NodeIsThere ==
  /\ own # None => app.node
  /\ \A i \in Start : start[i].pc \in Late => app.node

WalletIsCurrent == overtaken = "no" => own \in {None, Current}

HeldInv == HeldType /\ OneStart /\ NodeIsThere /\ WalletIsCurrent

SessionInv == PageInv /\ HeldInv

-----------------------------------------------------------------------------
(* The page's invariant *)

LEMMA PageInit == Init => PageInv
<1> SUFFICES ASSUME Init PROVE PageInv
  OBVIOUS
<1>1. app \in App /\ prover \in Prover
  BY DEF Init, App, Prover
<1>2. FlagIsSet
  BY DEF Init, FlagIsSet
<1>3. PageIsLive /\ ModeIsShown
  BY DEF Init, PageIsLive, ModeIsShown
<1>4. QED BY <1>1, <1>2, <1>3 DEF PageInv

LEMMA InitializeNodeKeeps ==
  ASSUME PageInv, InitializeNode, UNCHANGED ops
  PROVE  PageInv'
<1> USE SessionAssumption DEF PageInv, InitializeNode
<1>1. app' \in App /\ prover' \in Prover
  BY DEF App, Prover
<1>2. FlagIsSet' /\ PageIsLive'
  BY DEF FlagIsSet, PageIsLive, ops
<1>3. ModeIsShown'
  BY DEF ModeIsShown, App, Prover
<1>4. QED BY <1>1, <1>2, <1>3

\* A step that changes app does not change more of it than the wallet in use.
WalletOnly ==
  /\ app' \in App
  /\ app'.ui = app.ui /\ app'.proving = app.proving /\ app'.node = app.node

\* That one does not bear on what is shown or running.
LEMMA AppKeeps ==
  ASSUME PageInv, UNCHANGED <<prover, ops>>,
         WalletOnly
  PROVE  PageInv'
BY DEF PageInv, FlagIsSet, PageIsLive, ModeIsShown, ops, WalletOnly

LEMMA SetUiModeKeeps ==
  ASSUME PageInv, NEW mode \in {"local"} \cup Configured, SetUiMode(mode)
  PROVE  PageInv'
<1> USE SessionAssumption DEF PageInv, SetUiMode
<1>1. app' \in App /\ prover' \in Prover
  <2>1. mode \in {"local", "uee", "tee"}
    OBVIOUS
  <2>2. CASE prover.mode = None
    BY <2>1, <2>2 DEF App
  <2>3. CASE prover.mode # None
    BY <2>1, <2>3 DEF App, Prover
  <2>4. QED BY <2>2, <2>3
<1>2. FlagIsSet' /\ PageIsLive'
  BY DEF FlagIsSet, PageIsLive, ops, Prover
<1>3. ModeIsShown'
  <2>1. /\ mode \in {"local", "uee", "tee"} /\ app'.ui = mode /\ app'.node = app.node
        /\ None \notin {"local", "uee", "tee"}
    BY DEF App
  <2>2. CASE prover.mode = None
    <3>1. UNCHANGED prover /\ app'.proving = app.proving
      BY <2>2 DEF App
    <3>2. app.proving = "local" /\ ~app.node
      BY <2>2 DEF ModeIsShown
    <3>3. QED BY <2>1, <2>2, <3>1, <3>2 DEF ModeIsShown
  <2>3. CASE prover.mode # None
    <3>1. prover'.mode = mode /\ app'.proving = IF mode = "local" THEN "local" ELSE "uee"
      BY <2>3 DEF App, Prover
    <3>2. QED BY <2>1, <3>1 DEF ModeIsShown
  <2>4. QED BY <2>2, <2>3
<1>4. QED BY <1>1, <1>2, <1>3

LEMMA OperateKeeps ==
  ASSUME PageInv, NEW s \in Side, Operate(s)
  PROVE  PageInv'
<1> USE DEF PageInv, Operate, Begin
<1>1. app' \in App /\ prover' \in Prover
  BY DEF Prover
<1>2. FlagIsSet'
  BY DEF FlagIsSet
<1>3. PageIsLive'
  BY DEF FlagIsSet, PageIsLive, Prover
<1>4. ModeIsShown'
  BY DEF ModeIsShown, Prover
<1>5. QED BY <1>1, <1>2, <1>3, <1>4

LEMMA EndOperationKeeps ==
  ASSUME PageInv, NEW s \in Side, EndOperation(s)
  PROVE  PageInv'
<1> USE DEF PageInv, EndOperation, End
<1>1. app' \in App /\ prover' \in Prover
  BY DEF Prover
<1>2. FlagIsSet'
  BY DEF FlagIsSet
<1>3. PageIsLive'
  BY DEF PageIsLive, Prover
<1>4. ModeIsShown'
  BY DEF ModeIsShown, Prover
<1>5. QED BY <1>1, <1>2, <1>3, <1>4

\* Whatever wallet is in use, a step of these does not change more of app.
LEMMA WalletSteps ==
  ASSUME PageInv
  PROVE  /\ RevertToEmbedded => WalletOnly
         /\ \A i \in Start : CreateWallet(i) => WalletOnly
         /\ \A c, provider : UseExternal(c, provider) => WalletOnly
<1> USE DEF PageInv, App, Side, WalletOnly
<1>1. RevertToEmbedded => WalletOnly
  BY DEF RevertToEmbedded
<1>2. \A i \in Start : CreateWallet(i) => WalletOnly
  BY DEF CreateWallet
<1>3. \A c, provider : UseExternal(c, provider) => WalletOnly
  BY DEF UseExternal
<1>4. QED BY <1>1, <1>2, <1>3

LEMMA PageStep == ASSUME PageInv, [Next]_vars PROVE PageInv'
<1>1. ASSUME UNCHANGED <<app, prover, ops>> PROVE PageInv'
  BY <1>1 DEF PageInv, FlagIsSet, PageIsLive, ModeIsShown, ops
<1>2. CASE OnChooseEmbedded
  BY <1>1, <1>2, WalletSteps, AppKeeps DEF OnChooseEmbedded
<1>3. CASE SwitchToExternal \/ StartDiscovery \/ CancelDiscovery \/ EmojiReject
  BY <1>1, <1>3
     DEF SwitchToExternal, StartDiscovery, CancelDiscovery, EmojiReject, provers
<1>4. CASE SwitchWallet \/ WalletDisconnects \/ DisconnectEnds
  BY <1>1, <1>4, WalletSteps, AppKeeps
     DEF SwitchWallet, WalletDisconnects, DisconnectEnds, HandleDisconnect,
         Disconnected, provers
<1>5. ASSUME NEW i \in Start, Initialisation(i) PROVE PageInv'
  <2>1. CASE CheckTee(i)
    BY <2>1, InitializeNodeKeeps DEF CheckTee
  <2>2. CASE CreatePxe(i)
    BY <1>1, <2>2 DEF CreatePxe
  <2>3. CASE CreateWallet(i)
    BY <2>3, WalletSteps, AppKeeps DEF CreateWallet
  <2>4. CASE RegisterFpc(i) \/ RegisterAccounts(i) \/ InitFails(i)
    BY <1>1, <2>4 DEF RegisterFpc, RegisterAccounts, InitFails, provers
  <2>5. CASE ClearIndexedDB(i)
    BY <1>1, <2>5, InitializeNodeKeeps DEF ClearIndexedDB, provers
  <2>6. QED BY <1>5, <2>1, <2>2, <2>3, <2>4, <2>5 DEF Initialisation
<1>6. ASSUME NEW c \in Connection, Connecting(c) PROVE PageInv'
  <2>1. CASE HandleWalletClick(c) \/ Initiated(c) \/ EmojiConfirm(c) \/ OnChooseExternal(c)
    BY <1>1, <2>1
       DEF HandleWalletClick, Initiated, EmojiConfirm, OnChooseExternal, provers
  <2>2. CASE Confirmed(c)
    BY <1>1, <2>2, WalletSteps, AppKeeps, InitializeNodeKeeps DEF Confirmed, provers
  <2>3. CASE NodeConnected(c)
    BY <1>1, <2>3, WalletSteps, AppKeeps DEF NodeConnected, provers
  <2>4. QED BY <1>6, <2>1, <2>2, <2>3 DEF Connecting
<1>7. QED
  BY <1>1, <1>2, <1>3, <1>4, <1>5, <1>6, SetUiModeKeeps, OperateKeeps, EndOperationKeeps
     DEF Next, vars, provers

-----------------------------------------------------------------------------
(* The invariant of who holds which prover *)

HeldVars == <<own, pxe, overtaken, start>>

LEMMA HeldInit == Init => HeldInv
<1> SUFFICES ASSUME Init PROVE HeldInv
  OBVIOUS
<1> USE SessionAssumption
<1>1. HeldType /\ own = None /\ \A i \in Start : start[i].pc \in {"idle", "services"}
  BY DEF Init, HeldType, Places
<1>2. \A i, j \in Start : start[i].pc # "idle" /\ start[j].pc # "idle" => j = i
  BY DEF Init
<1>3. QED BY <1>1, <1>2 DEF HeldInv, OneStart, NodeIsThere, WalletIsCurrent, Late, Places

\* Steps that bind no prover and change no initialisation.
LEMMA HeldKeeps ==
  ASSUME HeldInv, UNCHANGED HeldVars, app.node => app'.node
  PROVE  HeldInv'
BY DEF HeldInv, HeldVars, HeldType, OneStart, NodeIsThere, WalletIsCurrent

\* A connection makes a prover only before any initialisation has bound one.
LEMMA ConnectionKeeps ==
  ASSUME PageInv, HeldInv, ~app.node, InitializeNode, UNCHANGED <<start, overtaken>>
  PROVE  HeldInv'
<1> USE SessionAssumption DEF HeldInv, InitializeNode
<1>1. own = None /\ \A i \in Start : start[i].pc \in {"idle", "services"}
  BY DEF NodeIsThere, HeldType, Late
<1>2. own' = None /\ app'.node
  BY <1>1 DEF PageInv, App
<1>3. HeldType'
  BY DEF HeldType, PageInv
<1>4. (OneStart /\ NodeIsThere /\ WalletIsCurrent)'
  BY <1>1, <1>2 DEF OneStart, NodeIsThere, WalletIsCurrent
<1>5. QED BY <1>3, <1>4

LEMMA ChooseKeeps ==
  ASSUME PageInv, HeldInv, OnChooseEmbedded
  PROVE  HeldInv'
<1> USE SessionAssumption DEF HeldInv
<1>1. CASE UNCHANGED <<start, overtaken>>
  <2>1. app'.node = app.node
    BY <1>1, WalletSteps DEF OnChooseEmbedded, WalletOnly
  <2>2. QED BY <1>1, <2>1, HeldKeeps DEF OnChooseEmbedded, HeldVars
<1>2. ASSUME NEW i \in Start, start[i].pc = "idle", CheckEmbeddedServices(i),
             own = None, UNCHANGED <<app, own, pxe>>
      PROVE  HeldInv'
  <2>1. \A j \in Start : start'[j] = IF j = i THEN [pc |-> "services", attempt |-> 1]
                                    ELSE start[j]
    BY <1>2 DEF CheckEmbeddedServices, HeldType
  <2>2. HeldType'
    BY <1>2 DEF CheckEmbeddedServices, HeldType, Places
  <2>3. NodeIsThere'
    BY <1>2, <2>1 DEF NodeIsThere, Late
  <2>4. WalletIsCurrent'
    BY <1>2 DEF WalletIsCurrent
  <2>5. OneStart'
    <3>1. ASSUME overtaken' # "met" PROVE \A j \in Start : start[j].pc = "idle"
      BY <1>2, <3>1 DEF CheckEmbeddedServices
    <3>2. QED BY <1>2, <2>1, <3>1 DEF OneStart
  <2>6. QED BY <2>2, <2>3, <2>4, <2>5
<1>3. QED BY <1>1, <1>2 DEF OnChooseEmbedded

\* The steps of an initialisation.
LEMMA InitialisationKeeps ==
  ASSUME PageInv, HeldInv, NEW i \in Start, Initialisation(i)
  PROVE  HeldInv'
<1> USE SessionAssumption DEF HeldInv
\* i goes to another place, which it may do if it runs.
<1>1. ASSUME NEW pc \in Places, start[i].pc # "idle",
             \/ start' = [start EXCEPT ![i].pc = pc]
             \/ start' = [start EXCEPT ![i] = [pc |-> pc, attempt |-> @.attempt + 1]]
      PROVE  /\ start' \in [Start -> [pc : Places, attempt : Int]]
             /\ \A j \in Start : start'[j].pc = IF j = i THEN pc ELSE start[j].pc
             /\ overtaken # "met" => \A j \in Start : j # i => start[j].pc = "idle"
  <2>1. start \in [Start -> [pc : Places, attempt : Int]]
    BY DEF HeldType
  <2>2. overtaken # "met" => \A j \in Start : j # i => start[j].pc = "idle"
    BY <1>1 DEF OneStart
  <2>3. QED BY <1>1, <2>1, <2>2
<1>2. CASE CheckTee(i)
  <2>1. /\ start[i].pc = "services" /\ start' = [start EXCEPT ![i].pc = "node"]
        /\ InitializeNode /\ overtaken' = overtaken
    BY <1>2 DEF CheckTee, Step
  <2>2. /\ app'.node /\ own' = IF own = Current THEN prover ELSE own
        /\ pxe' \in [Start -> Prover \cup {None, Current}]
    BY <2>1 DEF InitializeNode, PageInv, App, HeldType
  <2>3. /\ start' \in [Start -> [pc : Places, attempt : Int]]
        /\ \A j \in Start : start'[j].pc = IF j = i THEN "node" ELSE start[j].pc
        /\ overtaken # "met" => \A j \in Start : j # i => start[j].pc = "idle"
    BY <1>1, <2>1 DEF Places
  <2>4. overtaken # "met" => own' = None
    BY <2>1, <2>2 DEF OneStart
  <2>5. HeldType' /\ NodeIsThere'
    BY <2>1, <2>2, <2>3 DEF HeldType, NodeIsThere
  <2>6. OneStart'
    BY <2>1, <2>3 DEF OneStart
  <2>7. WalletIsCurrent'
    BY <2>1, <2>4 DEF WalletIsCurrent
  <2>8. QED BY <2>5, <2>6, <2>7
<1>3. CASE CreatePxe(i)
  <2>1. /\ start[i].pc = "node" /\ start' = [start EXCEPT ![i].pc = "pxe"]
        /\ pxe' = [pxe EXCEPT ![i] = Current] /\ UNCHANGED <<app, own, overtaken>>
    BY <1>3 DEF CreatePxe, Step
  <2>2. /\ start' \in [Start -> [pc : Places, attempt : Int]]
        /\ \A j \in Start : start'[j].pc = IF j = i THEN "pxe" ELSE start[j].pc
        /\ overtaken # "met" => \A j \in Start : j # i => start[j].pc = "idle"
    BY <1>1, <2>1 DEF Places
  <2>3. HeldType' /\ pxe'[i] = Current
    BY <2>1, <2>2 DEF HeldType
  <2>4. NodeIsThere' /\ WalletIsCurrent'
    BY <2>1, <2>2 DEF NodeIsThere, WalletIsCurrent, Late, Places
  <2>5. OneStart'
    BY <2>1, <2>2, <2>3 DEF OneStart
  <2>6. QED BY <2>3, <2>4, <2>5
<1>4. CASE CreateWallet(i)
  <2>1. /\ start[i].pc = "pxe" /\ start' = [start EXCEPT ![i].pc = "fpc"]
        /\ own' = pxe[i] /\ pxe' = [pxe EXCEPT ![i] = None]
        /\ overtaken' = IF overtaken = "retry" THEN "no" ELSE overtaken
        /\ app'.node = app.node
    BY <1>4, WalletSteps DEF CreateWallet, Step, WalletOnly
  <2>2. /\ start' \in [Start -> [pc : Places, attempt : Int]]
        /\ \A j \in Start : start'[j].pc = IF j = i THEN "fpc" ELSE start[j].pc
        /\ overtaken # "met" => \A j \in Start : j # i => start[j].pc = "idle"
    BY <1>1, <2>1 DEF Places
  <2>3. overtaken # "met" => own' = Current
    BY <2>1 DEF OneStart
  <2>4. HeldType'
    BY <2>1, <2>2 DEF HeldType
  <2>5. NodeIsThere'
    BY <2>1, <2>2 DEF NodeIsThere, Late, Places
  <2>6. WalletIsCurrent' /\ OneStart'
    BY <2>1, <2>2, <2>3 DEF WalletIsCurrent, OneStart
  <2>7. QED BY <2>4, <2>5, <2>6
\* The rest of it binds no prover.
<1>5. ASSUME NEW pc \in {"idle", "accounts", "clear"}, start[i].pc \in Late,
             start' = [start EXCEPT ![i].pc = pc],
             pxe' \in {pxe, [pxe EXCEPT ![i] = None]},
             UNCHANGED <<own, overtaken>>, app' = app
      PROVE  HeldInv'
  <2>1. /\ start' \in [Start -> [pc : Places, attempt : Int]]
        /\ \A j \in Start : start'[j].pc = IF j = i THEN pc ELSE start[j].pc
        /\ overtaken # "met" => \A j \in Start : j # i => start[j].pc = "idle"
    BY <1>1, <1>5 DEF Places, Late
  <2>2. HeldType'
    BY <1>5, <2>1 DEF HeldType
  <2>3. NodeIsThere' /\ WalletIsCurrent'
    BY <1>5, <2>1 DEF NodeIsThere, WalletIsCurrent
  <2>4. OneStart'
    BY <1>5, <2>1 DEF OneStart
  <2>5. QED BY <2>2, <2>3, <2>4
<1>6. CASE RegisterFpc(i) \/ RegisterAccounts(i) \/ InitFails(i)
  <2>1. CASE RegisterFpc(i)
    BY <1>5, <2>1 DEF RegisterFpc, Step, Late, Places, provers
  <2>2. CASE RegisterAccounts(i)
    BY <1>5, <2>2 DEF RegisterAccounts, Step, Late, Places, provers
  <2>3. CASE InitFails(i)
    BY <1>5, <2>3 DEF InitFails, Fails, Late, Places
  <2>4. QED BY <1>6, <2>1, <2>2, <2>3
<1>7. CASE ClearIndexedDB(i)
  <2>1. CASE Step(i, "clear", "idle") /\ UNCHANGED <<app, provers>>
    BY <1>5, <2>1 DEF Step, Late, Places, provers
  <2>2. CASE /\ start[i].pc = "clear"
             /\ start' = [start EXCEPT ![i] = [pc |-> "node", attempt |-> @.attempt + 1]]
             /\ overtaken' = IF overtaken = "no" /\ own # None THEN "retry" ELSE overtaken
             /\ InitializeNode
    <3>1. /\ app'.node /\ own' = IF own = Current THEN prover ELSE own
          /\ pxe' \in [Start -> Prover \cup {None, Current}]
      BY <2>2 DEF InitializeNode, PageInv, App, HeldType
    <3>2. /\ start' \in [Start -> [pc : Places, attempt : Int]]
          /\ \A j \in Start : start'[j].pc = IF j = i THEN "node" ELSE start[j].pc
          /\ overtaken # "met" => \A j \in Start : j # i => start[j].pc = "idle"
      BY <1>1, <2>2 DEF Places
    <3>3. HeldType' /\ NodeIsThere'
      BY <2>2, <3>1, <3>2 DEF HeldType, NodeIsThere
    <3>4. OneStart'
      BY <2>2, <3>2 DEF OneStart, HeldType
    <3>5. WalletIsCurrent'
      BY <2>2, <3>1 DEF WalletIsCurrent
    <3>6. QED BY <3>3, <3>4, <3>5
  <2>3. QED BY <1>7, <2>1, <2>2 DEF ClearIndexedDB
<1>8. QED BY <1>2, <1>3, <1>4, <1>6, <1>7 DEF Initialisation

LEMMA HeldStep == ASSUME PageInv, HeldInv, [Next]_vars PROVE HeldInv'
<1>1. ASSUME UNCHANGED HeldVars, app'.node = app.node PROVE HeldInv'
  BY <1>1, HeldKeeps
<1>2. ASSUME NEW mode, SetUiMode(mode) PROVE HeldInv'
  <2>1. app'.node = app.node
    BY <1>2 DEF SetUiMode, PageInv, App
  <2>2. QED BY <1>1, <1>2, <2>1 DEF SetUiMode, HeldVars
<1>3. CASE SwitchToExternal \/ StartDiscovery \/ CancelDiscovery \/ EmojiReject
  BY <1>1, <1>3 DEF SwitchToExternal, StartDiscovery, CancelDiscovery, EmojiReject,
                    provers, HeldVars
<1>4. CASE SwitchWallet \/ WalletDisconnects \/ DisconnectEnds
  BY <1>1, <1>4, WalletSteps
     DEF SwitchWallet, WalletDisconnects, DisconnectEnds, HandleDisconnect,
         Disconnected, provers, HeldVars, WalletOnly
<1>5. ASSUME NEW c \in Connection, Connecting(c) PROVE HeldInv'
  <2>1. CASE HandleWalletClick(c) \/ Initiated(c) \/ EmojiConfirm(c) \/ OnChooseExternal(c)
    BY <1>1, <2>1 DEF HandleWalletClick, Initiated, EmojiConfirm, OnChooseExternal,
                      provers, HeldVars
  <2>2. CASE Confirmed(c)
    BY <1>1, <2>2, WalletSteps, ConnectionKeeps
       DEF Confirmed, provers, HeldVars, WalletOnly
  <2>3. CASE NodeConnected(c)
    BY <1>1, <2>3, WalletSteps DEF NodeConnected, provers, HeldVars, WalletOnly
  <2>4. QED BY <1>5, <2>1, <2>2, <2>3 DEF Connecting
<1>6. ASSUME NEW s \in Side, Operate(s) \/ EndOperation(s) PROVE HeldInv'
  BY <1>1, <1>6 DEF Operate, Begin, EndOperation, End, HeldVars
<1>7. CASE UNCHANGED vars
  BY <1>1, <1>7 DEF vars, provers, HeldVars
<1>8. QED
  BY <1>2, <1>3, <1>4, <1>5, <1>6, <1>7, ChooseKeeps, InitialisationKeeps DEF Next

-----------------------------------------------------------------------------
(* Theorems *)

LEMMA SessionAlways == Spec => []SessionInv
<1>1. Init => SessionInv
  BY PageInit, HeldInit DEF SessionInv
<1>2. SessionInv /\ [Next]_vars => SessionInv'
  BY PageStep, HeldStep DEF SessionInv
<1>3. QED BY <1>1, <1>2, PTL DEF Spec

\* A wallet that gets ready, or is connected, enables the buttons of a running
\* operation, which yet never meets a second one from the same screen.
THEOREM OneOperationRuns == Spec => []OneOperationPerScreen
<1>1. SessionInv => OneOperationPerScreen
  BY DEF SessionInv, PageInv, FlagIsSet, OneOperationPerScreen
<1>2. QED BY <1>1, SessionAlways, PTL

\* The prover of the page, and that of a wallet which was not overtaken, report
\* phases to a running operation only.
THEOREM PhaseCallbackStaysLive == Spec => []PhaseCallbackIsLive
<1>1. SessionInv => PhaseCallbackIsLive
  BY DEF SessionInv, PageInv, HeldInv, PageIsLive, WalletIsCurrent, OwnProver,
         PhaseCallbackIsLive
<1>2. QED BY <1>1, SessionAlways, PTL

\* While the page says "local", neither the prover of a wallet that was not
\* overtaken nor that of the page, for the wallet to come, sends anything away.
THEOREM LocalIsKept == Spec => []LocalStaysLocal
<1>1. SessionInv => LocalStaysLocal
  BY DEF SessionInv, PageInv, HeldInv, ModeIsShown, WalletIsCurrent, NodeIsThere,
         OwnProver, LocalStaysLocal
<1>2. QED BY <1>1, SessionAlways, PTL
=============================================================================
