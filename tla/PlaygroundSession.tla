--------------------------- MODULE PlaygroundSession ---------------------------
(***************************************************************************)
(* A page of the playground (packages/playground/src: main.ts, aztec.ts,   *)
(* wallet-selection.ts, external-wallet-ui.ts): its global state, what it  *)
(* shows, and what runs between the awaits of its handlers: initialisations *)
(* of the embedded wallet, connections to an external one, disconnections  *)
(* and operations.  TransactionFlow has the steps of an operation.         *)
(*                                                                         *)
(* The node can be reached when the page loads: otherwise fewer buttons    *)
(* are enabled.  One external wallet is installed.                         *)
(***************************************************************************)
EXTENDS Integers

CONSTANTS
  Start,        \* runs of initEmbeddedWallet
  Connection,   \* connections to an external wallet under way
  MaxAttempts,  \* MAX_INIT_ATTEMPTS
  Configured,   \* PROVER_CONFIGURED and TEE_CONFIGURED: the remote modes
  MaxClosing,   \* bound: disconnections under way, and registered callbacks
  Current,      \* what holds state.prover
  None

ASSUME SessionAssumption ==
  /\ MaxAttempts \in Nat \ {0} /\ MaxClosing \in Nat \ {0}
  /\ Configured \subseteq {"uee", "tee"}
  /\ None \notin {Current, "embedded", "external", "local", "uee", "tee"}

Side == {"embedded", "external"}   \* the two screens with operations

VARIABLES
  app,        \* node, proofsRequired (live), walletType, provingMode, uiMode
  prover,     \* state.prover: its mode, and whose onPhase it calls
  own,        \* the prover in the PXE of state.embeddedWallet: the one that is
              \* state.prover, or one that was, as it was left
  pxe,        \* pxe[i]: likewise, in the PXE that i makes a wallet with
  overtaken,  \* history: initialisations have "met", or the wallet there is was
              \* followed by a "retry" of the initialisation that made it
  addresses,  \* state.registeredAddresses: whose they are
  visible,    \* the sections of the page that are shown
  button,     \* the buttons that are enabled or shown
  deploying,  \* the flags of main.ts and of external-wallet-ui.ts
  running,    \* running[s]: the operations started from s that have not ended
  start,      \* start[i]: position and attempt
  section,    \* what the wallet selection shows
  pending,    \* pendingConn and selectedProvider are set
  connection, \* connection[c]: position, and whether it has a provider
  link        \* disconnectUnsub, currentExternalProvider, registered callbacks
              \* and disconnections under way

provers == <<prover, own, pxe, overtaken>>
page == <<visible, button>>
ops == <<deploying, running>>
conn == <<section, pending, connection, link>>
vars == <<app, provers, addresses, page, ops, start, conn>>

CheckEmbeddedServices(i) ==
  /\ start' = [start EXCEPT ![i] = [pc |-> "services", attempt |-> 1]]
  /\ overtaken' = IF \A j \in Start : start[j].pc = "idle" THEN overtaken ELSE "met"
  /\ button' = button \cup (Configured \cap {"uee"})

\* The page as init leaves it; with ?wallet=embedded there is no selection.
Init ==
  /\ app \in [node : {FALSE}, live : BOOLEAN, wallet : {None},
              proving : {"local"}, ui : {"local"}]
  /\ prover = [mode |-> None, listener |-> None]
  /\ own = None /\ pxe = [i \in Start |-> None] /\ overtaken = "no"
  /\ addresses = {}
  /\ deploying = [s \in Side |-> FALSE] /\ running = [s \in Side |-> 0]
  /\ section = "choice" /\ pending = FALSE
  /\ connection = [c \in Connection |-> [pc |-> "idle", provider |-> FALSE]]
  /\ link = [unsub |-> FALSE, provider |-> FALSE, callbacks |-> 0, closing |-> 0]
  /\ \E first \in {{}} \cup {{i} : i \in Start} :
       /\ start = [i \in Start |->
            [pc |-> IF i \in first THEN "services" ELSE "idle", attempt |-> 1]]
       /\ visible = IF first = {} THEN {"selection"} ELSE {"embedded"}
       /\ button = IF first = {} THEN {"local"} ELSE {"local"} \cup (Configured \cap {"uee"})

-----------------------------------------------------------------------------
(* Changes of the global state *)

\* A new prover, for the mode there is now.  Who holds the old one keeps it, and
\* nothing sets its mode or its callback any more.
InitializeNode ==
  LET left(held) == IF held = Current THEN prover ELSE held IN
  /\ app' = [app EXCEPT !.node = TRUE]
  /\ prover' = [mode |-> app.proving, listener |-> None]
  /\ own' = left(own)
  /\ pxe' = [i \in Start |-> left(pxe[i])]

RevertToEmbedded ==
  app' = IF own # None THEN [app EXCEPT !.wallet = "embedded"] ELSE app

GoToWalletSelection ==
  visible' = {"selection"} /\ section' = "choice" /\ pending' = FALSE

SetUiMode_KeepsProving(mode) ==   \* mutant: "local" leaves provingMode
  /\ "embedded" \in visible /\ mode \in button /\ ~deploying["embedded"]
  /\ \/ /\ prover.mode = None
        /\ app' = [app EXCEPT !.ui = mode]
        /\ UNCHANGED prover
     \/ /\ prover.mode # None
        /\ app' = [app EXCEPT !.ui = mode,
                              !.proving = IF mode = "local" THEN @ ELSE "uee"]
        /\ prover' = [prover EXCEPT !.mode = mode]
  /\ UNCHANGED <<own, pxe, overtaken, addresses, page, ops, start, conn>>

SetUiMode(mode) ==
  /\ "embedded" \in visible /\ mode \in button /\ ~deploying["embedded"]
  /\ \/ /\ prover.mode = None
        /\ app' = [app EXCEPT !.ui = mode]
        /\ UNCHANGED prover
     \/ /\ prover.mode # None
        /\ app' = [app EXCEPT !.ui = mode,
                              !.proving = IF mode = "local" THEN "local" ELSE "uee"]
        /\ prover' = [prover EXCEPT !.mode = mode]
  /\ UNCHANGED <<own, pxe, overtaken, addresses, page, ops, start, conn>>

-----------------------------------------------------------------------------
(* The embedded wallet *)

OnChooseEmbedded ==
  /\ "selection" \in visible
  /\ visible' = {"embedded"}
  /\ \/ /\ own # None
        /\ RevertToEmbedded
        /\ button' = button \cup {"embedded"}
        /\ UNCHANGED <<start, overtaken>>
     \/ /\ own = None
        /\ \E i \in Start : start[i].pc = "idle" /\ CheckEmbeddedServices(i)
        /\ UNCHANGED app
  /\ UNCHANGED <<prover, own, pxe, addresses, ops, conn>>

SwitchToExternal ==
  /\ "embedded" \in visible /\ "switch" \in button /\ ~deploying["embedded"]
  /\ GoToWalletSelection
  /\ UNCHANGED <<app, provers, addresses, button, ops, start, connection, link>>

Step(i, from, to) ==
  /\ start[i].pc = from
  /\ start' = [start EXCEPT ![i].pc = to]

\* Both services have answered; only a Nitro attestation enables the TEE.
CheckTee(i) ==
  /\ Step(i, "services", "node")
  /\ button' \in {button, button \cup (Configured \cap {"tee"})}
  /\ InitializeNode
  /\ UNCHANGED <<overtaken, addresses, visible, ops, conn>>

\* The node has answered: createPXE gets what is state.prover by now.
CreatePxe(i) ==
  /\ Step(i, "node", "pxe")
  /\ pxe' = [pxe EXCEPT ![i] = Current]
  /\ UNCHANGED <<app, prover, own, overtaken, addresses, page, ops, conn>>

\* The PXE and the wallet's database are there.
CreateWallet(i) ==
  /\ Step(i, "pxe", "fpc")
  /\ own' = pxe[i] /\ pxe' = [pxe EXCEPT ![i] = None]
  /\ overtaken' = IF overtaken = "retry" THEN "no" ELSE overtaken
  /\ app' = [app EXCEPT !.wallet = "embedded"]
  /\ UNCHANGED <<prover, addresses, page, ops, conn>>

Ready == button' = button \cup {"embedded", "switch"}

\* Only a network without proofs has accounts to register.
RegisterFpc(i) ==
  /\ \/ /\ app.live
        /\ Step(i, "fpc", "idle") /\ Ready
        /\ UNCHANGED addresses
     \/ /\ ~app.live
        /\ Step(i, "fpc", "accounts")
        /\ addresses' = {}
        /\ UNCHANGED button
  /\ UNCHANGED <<app, provers, visible, ops, conn>>

RegisterAccounts(i) ==
  /\ Step(i, "accounts", "idle") /\ Ready
  /\ addresses' = addresses \cup {"embedded"}
  /\ UNCHANGED <<app, provers, visible, ops, conn>>

Fails(i) == start[i].pc \in {"node", "pxe", "fpc", "accounts"}

InitFails(i) ==
  /\ Fails(i)
  /\ start' = [start EXCEPT ![i].pc =
                IF start[i].attempt < MaxAttempts THEN "clear" ELSE "idle"]
  /\ pxe' = [pxe EXCEPT ![i] = None]
  /\ UNCHANGED <<app, prover, own, overtaken, addresses, page, ops, conn>>

\* If it throws nothing catches it: the page goes on saying "initializing".
ClearIndexedDB(i) ==
  /\ \/ /\ Step(i, "clear", "idle")
        /\ UNCHANGED <<app, provers>>
     \/ /\ start[i].pc = "clear"
        /\ start' = [start EXCEPT ![i] = [pc |-> "node", attempt |-> @.attempt + 1]]
        /\ overtaken' = IF overtaken = "no" /\ own # None THEN "retry" ELSE overtaken
        /\ InitializeNode
  /\ UNCHANGED <<addresses, page, ops, conn>>

-----------------------------------------------------------------------------
(* The wallet selection.  The embedded wallet can be chosen all the while. *)

Selecting(what) == "selection" \in visible /\ section = what

Become(c, pc) == connection' = [connection EXCEPT ![c].pc = pc]

\* "choice" hides what this changes.
ResetToWalletList ==
  /\ section' = IF section = "choice" THEN "choice" ELSE "list"
  /\ pending' = FALSE

StartDiscovery ==
  /\ Selecting("choice")
  /\ section' = "list" /\ pending' = FALSE
  /\ UNCHANGED <<app, provers, addresses, page, ops, start, connection, link>>

CancelDiscovery ==
  /\ Selecting("list")
  /\ section' = "choice" /\ pending' = FALSE
  /\ UNCHANGED <<app, provers, addresses, page, ops, start, connection, link>>

HandleWalletClick(c) ==
  /\ Selecting("list") /\ connection[c].pc = "idle"
  /\ section' = "emoji" /\ Become(c, "initiating")
  /\ UNCHANGED <<app, provers, addresses, page, ops, start, pending, link>>

Initiated(c) ==
  /\ connection[c].pc = "initiating" /\ Become(c, "idle")
  /\ \/ pending' = TRUE /\ UNCHANGED section
     \/ ResetToWalletList
  /\ UNCHANGED <<app, provers, addresses, page, ops, start, link>>

EmojiReject ==
  /\ Selecting("emoji")
  /\ ResetToWalletList
  /\ UNCHANGED <<app, provers, addresses, page, ops, start, connection, link>>

EmojiConfirm(c) ==
  /\ Selecting("emoji") /\ pending /\ connection[c].pc = "idle"
  /\ Become(c, "confirming")
  /\ UNCHANGED <<app, provers, addresses, page, ops, start, section, pending, link>>

-----------------------------------------------------------------------------
(* The external wallet *)

\* setExternalWallet, and the await of initializeFPC.
UseExternal(c, provider) ==
  /\ app' = [app EXCEPT !.wallet = "external"]
  /\ addresses' = {"external"}
  /\ link' = [link EXCEPT !.provider = provider]
  /\ connection' = [connection EXCEPT ![c] = [pc |-> "fpc", provider |-> provider]]

Confirmed_NewNode(c) ==   \* mutant: a connection always initialises the node
  /\ connection[c].pc = "confirming"
  /\ InitializeNode
  /\ connection' = [connection EXCEPT ![c] = [pc |-> "node", provider |-> pending]]
  /\ visible' = visible \ {"selection"}
  /\ UNCHANGED <<overtaken, addresses, button, ops, start, section, pending, link>>

\* The connection is refused, or has no accounts, or there is a wallet:
\* selectedProvider is read now, whatever became of it.
Confirmed(c) ==
  /\ connection[c].pc = "confirming"
  /\ \/ /\ ResetToWalletList /\ Become(c, "idle")
        /\ UNCHANGED <<app, provers, addresses, visible, link>>
     \/ /\ visible' = visible \ {"selection"}
        /\ UNCHANGED <<section, pending>>
        /\ \/ app.node /\ UseExternal(c, pending) /\ UNCHANGED provers
           \/ /\ ~app.node /\ InitializeNode
              /\ connection' = [connection EXCEPT ![c] = [pc |-> "node", provider |-> pending]]
              /\ UNCHANGED <<overtaken, addresses, link>>
  /\ UNCHANGED <<button, ops, start>>

NodeConnected(c) ==
  /\ connection[c].pc = "node"
  /\ \/ UseExternal(c, connection[c].provider) /\ UNCHANGED <<visible, section, pending>>
     \/ GoToWalletSelection /\ Become(c, "idle") /\ UNCHANGED <<app, addresses, link>>
  /\ UNCHANGED <<provers, button, ops, start>>

\* Without a provider, onDisconnect throws and nothing is shown.
OnChooseExternal(c) ==
  /\ connection[c].pc = "fpc" /\ Become(c, "idle")
  /\ \/ /\ connection[c].provider /\ link.callbacks < MaxClosing
        /\ link' = [link EXCEPT !.unsub = TRUE, !.callbacks = @ + 1]
        /\ button' = button \cup {"external"}
        /\ visible' = (visible \cup {"external"}) \ {"selection"}
     \/ ~connection[c].provider /\ UNCHANGED <<link, button, visible>>
  /\ UNCHANGED <<app, provers, addresses, ops, start, section, pending>>

\* The rest of handleDisconnect, once the wallet has been told.
Disconnected ==
  /\ RevertToEmbedded
  /\ GoToWalletSelection

HandleDisconnect ==
  LET left == [link EXCEPT !.unsub = FALSE,
                           !.callbacks = IF link.unsub THEN @ - 1 ELSE @] IN
  /\ \/ /\ link.provider /\ link.closing < MaxClosing
        /\ link' = [left EXCEPT !.closing = @ + 1]
        /\ UNCHANGED <<app, visible, section, pending>>
     \/ ~link.provider /\ link' = left /\ Disconnected
  /\ UNCHANGED <<provers, addresses, button, ops, start, connection>>

\* The button is not disabled while an operation runs.
SwitchWallet == "external" \in visible /\ HandleDisconnect

WalletDisconnects == link.callbacks > 0 /\ HandleDisconnect

DisconnectEnds ==
  /\ link.closing > 0
  /\ link' = [link EXCEPT !.closing = @ - 1, !.provider = FALSE]
  /\ Disconnected
  /\ UNCHANGED <<provers, addresses, button, ops, start, connection>>

-----------------------------------------------------------------------------
(* Operations: one that cannot start throws and leaves all as it was *)

Usable(s) ==
  \/ s = "embedded" /\ own # None /\ (app.live \/ addresses # {})
  \/ app.wallet # None /\ addresses # {}

Begin(s) ==
  /\ deploying' = [deploying EXCEPT ![s] = TRUE]
  /\ running' = [running EXCEPT ![s] = @ + 1]
  /\ button' = button \ {s}
  /\ prover' = IF prover.mode = None THEN prover ELSE [prover EXCEPT !.listener = s]
  /\ UNCHANGED <<app, own, pxe, overtaken, addresses, visible, start, conn>>

Operate_NoFlag(s) ==   \* mutant: relies on the disabled buttons alone
  /\ s \in visible \cap button /\ Usable(s) /\ running[s] < 2
  /\ Begin(s)

Operate(s) ==
  /\ s \in visible \cap button /\ Usable(s)
  /\ ~deploying[s]
  /\ Begin(s)

\* It may have deployed an account.
Deployed ==
  addresses' \in {addresses} \cup (IF own # None THEN {addresses \cup {"embedded"}} ELSE {})

End(s, listener) ==
  /\ running[s] > 0
  /\ running' = [running EXCEPT ![s] = @ - 1]
  /\ deploying' = [deploying EXCEPT ![s] = FALSE]
  /\ button' = button \cup {s}
  /\ prover' = [prover EXCEPT !.listener = listener]
  /\ Deployed
  /\ UNCHANGED <<app, own, pxe, overtaken, visible, start, conn>>

EndOperation_KeepsListener(s) ==   \* mutant: an error skips setOnPhase(null)
  \E listener \in {prover.listener, None} : End(s, listener)

EndOperation(s) == End(s, None)

-----------------------------------------------------------------------------

Initialisation(i) ==
  \/ CheckTee(i) \/ CreatePxe(i) \/ CreateWallet(i)
  \/ RegisterFpc(i) \/ RegisterAccounts(i) \/ InitFails(i) \/ ClearIndexedDB(i)

Connecting(c) ==
  \/ HandleWalletClick(c) \/ Initiated(c) \/ EmojiConfirm(c) \/ Confirmed(c)
  \/ NodeConnected(c) \/ OnChooseExternal(c)

Next ==
  \/ \E mode \in {"local"} \cup Configured : SetUiMode(mode)
  \/ OnChooseEmbedded \/ SwitchToExternal
  \/ StartDiscovery \/ CancelDiscovery \/ EmojiReject
  \/ SwitchWallet \/ WalletDisconnects \/ DisconnectEnds
  \/ \E i \in Start : Initialisation(i)
  \/ \E c \in Connection : Connecting(c)
  \/ \E s \in Side : Operate(s) \/ EndOperation(s)

Spec == Init /\ [][Next]_vars

-----------------------------------------------------------------------------
(* Properties *)

\* Two operations started from the same screen never overlap, though a wallet
\* that gets ready, or is connected, enables the buttons of a running one.
OneOperationPerScreen == \A s \in Side : running[s] <= 1

\* The prover the embedded wallet proves with.
OwnProver == IF own = Current THEN prover ELSE own

\* Phases go to an operation that still runs: an animation that has been stopped
\* gets none from the prover of the page, nor from the one in the wallet's PXE,
\* which is another once an initialisation has been overtaken: connections, which
\* make a prover too, do not come between the wallet and its own.
PhaseCallbackIsLive ==
  LET Live(p) == p.listener # None => running[p.listener] > 0 IN
  /\ Live(prover)
  /\ own # None /\ overtaken = "no" => Live(OwnProver)

\* While the page says "local" the wallet's prover sends nothing away, unless it
\* was overtaken, and no wallet will be made with a prover that does, though every
\* initialisation makes a new prover, for a mode that may be an old one.
LocalStaysLocal ==
  app.ui = "local" =>
    /\ prover.mode \in {None, "local"}
    /\ own # None /\ overtaken = "no" => OwnProver.mode = "local"

\* The comment of the global state: "Concurrent mutations are prevented at the
\* UI layer via the `deploying` flag".
OneOperation == running["embedded"] + running["external"] <= 1
=============================================================================
