------------------------------- MODULE AnyHost -------------------------------
(***************************************************************************)
(* The executor and the driver under any program that hosts them: what a   *)
(* host may do around them, without saying when.  `hackrf-agent chat`      *)
(* (ChatSession) and the MCP server (McpServer) are two such hosts, and    *)
(* what the funnel promises it promises to each.                           *)
(***************************************************************************)
EXTENDS CommandExecutor

hostVars == <<grants, clock, stop_event, last_press, revoking, transfer, sent, in_flight,
              received, queued, sentinel, left, on_air, pc, cmd, as_of, active_grants,
              sweeps_left, tx_used, capture_used, trail, answered, assessed_at,
              revoked_then, escaped>>

(* Where the host is while no command is in the funnel.                    *)
Resting == {"prompt", "thinking", "exited", "terminated"}

HostInit ==
  /\ InitPermissions /\ InitKillSwitch /\ InitDriver /\ InitExecutor
  /\ pc \in {"prompt", "thinking"}
-----------------------------------------------------------------------------
(* One command goes through the funnel, at most, and the host decides      *)
(* where an exception that escapes from it leads.                          *)
Receives == \E c \in Commands : Receive(c)

Handles ==
  \/ ListActive \/ Refuse \/ AskOperator \/ Proceed \/ Approve \/ Deny
  \/ OfflineDone \/ TxReturns \/ RxKilled \/ NextSweep \/ RxReturns

IsAborted == \E where \in Resting : OfflineEscapes(where) \/ TransferEscapes(where)

(* The device goes on also when the host is on its way out, and what       *)
(* cancelled transfers have left behind goes on at any time.               *)
RadioRuns == DeviceRuns \/ CoroutineRuns \/ TransferFails \/ LeftoversRun

(* The task that runs the command is cancelled, wherever it is suspended.  *)
Dropped(where) ==
  /\ transfer = "idle"
  /\ Leave(where)
  /\ UNCHANGED <<trail, budgetVars, driverVars, killVars, permVars>>

IsCancelled == \E where \in Resting : TransferCancelled(where) \/ Dropped(where)

(* The grants table belongs to everybody, and time passes.                 *)
TableMoves ==
  \/ \E i \in GrantIds, t \in GrantTemplates : GrantTx(i, t)
  \/ \E g \in grants : Revoke(g)
  \/ RevokeAllTx
  \/ Tick
  \/ UNCHANGED permVars

(* The host's own steps: it may give a command up, and leave the loop with *)
(* a transfer under way; it may raise the stop event at any time, and      *)
(* lower it while the radio is idle.                                       *)
HostMoves ==
  /\ pc' \in Resting \cup {pc}
  /\ transfer # "idle" => pc' \in {pc, "exited"}
  /\ stop_event' \in BOOLEAN
  /\ stop_event /\ transfer # "idle" => stop_event'
  /\ last_press' \in Int /\ revoking' \in Nat
  /\ TableMoves
  /\ UNCHANGED <<sweeps_left, trail, commandVars, budgetVars, driverVars>>

HostNext == Receives \/ Handles \/ IsAborted \/ RadioRuns \/ IsCancelled \/ HostMoves

HostSpec == HostInit /\ [][HostNext]_hostVars
-----------------------------------------------------------------------------
Allowance ==
  IF transfer \in {"tx_setup", "transmitting"}
  THEN cmd.length - sent - (IF in_flight /\ sent < cmd.length THEN 1 ELSE 0)
  ELSE 0

(* What a host promises the operator, with everything else left out.       *)
Promise == INSTANCE TransmitAuthority WITH
  keyed <- Transmitting,
  allowance <- Allowance,
  pending <- InFlight,
  emitted <- on_air,
  stopped <- stop_event

(* Its safety part: the steps that the promise allows, without "a keyed    *)
(* radio always falls silent".                                             *)
TransmitSteps == Promise!Init /\ [][Promise!Next]_(Promise!vars)

(* No buffer is turned to, and none goes out but the one that its callback *)
(* was filling already.                                                    *)
OnlyInFlight ==
  /\ InFlight' => InFlight
  /\ on_air' \in {on_air} \cup (IF InFlight /\ ~InFlight' THEN {on_air + 1} ELSE {})

(* What may go on when the stop event is up: no transfer is set up.        *)
FallsSilent == OnlyInFlight /\ (transfer' \in SetUp => transfer' = transfer)

(***************************************************************************)
(* Why Authorised and SessionBudgetsHold hold: what the control state says *)
(* of the command in hand and of the driver; what the rows that were read  *)
(* say of the rows that are stored now; what an approval is still good     *)
(* for; and what the two accounts owe.                                     *)
(***************************************************************************)
HostTypes == TypePermissions /\ TypeKillSwitch /\ TypeDriver /\ TypeExecutor

CommandInv ==
  /\ pc \in {"listing", "assessing", "approval", "offline", "radio"} \/ transfer # "idle"
       => cmd \in Commands
  /\ transfer # "idle" => pc \in {"radio", "exited"}
  /\ pc = "radio" => cmd.valid
  /\ Transmitting => cmd.action = "transmit_iq"

StoredAs(s, g) ==
  /\ g.id = s.id /\ s.id \notin revoked_then
  /\ g.band_start_hz = s.band_start_hz /\ g.band_stop_hz = s.band_stop_hz
  /\ g.max_gain_db = s.max_gain_db
  /\ g.expires_at = s.expires_at

IdsAreUnique == \A g, h \in grants : g.id = h.id => g = h

SnapshotInv ==
  /\ IdsAreUnique
  /\ pc = "assessing" => \A s \in active_grants : \E g \in grants : StoredAs(s, g)

ApprovalInv ==
  pc = "approval" /\ cmd.action = "transmit_iq" => ~TxRefused(cmd.center, cmd.gain)

SentInv ==
  /\ Transmitting => sent <= cmd.length
  /\ ~Transmitting \/ transfer = "tx_setup" => sent = 0
  /\ in_flight => transfer \in {"transmitting", "tx_unwinding"} /\ "buffer" \notin left

AffordableInv ==
  pc = "approval" \/ Transmitting =>
    (cmd.action = "transmit_iq" /\ cmd.estimate # None
       => tx_used + cmd.estimate <= MAX_TX_SECONDS)

LedgerInv ==
  /\ on_air <= escaped + sent + tx_used
  /\ on_air <= escaped + sent + MAX_TX_SECONDS

AirtimeInv == SentInv /\ (MAX_TX_SECONDS # None => AffordableInv /\ LedgerInv)

CaptureInv ==
  MAX_CAPTURE_SECONDS # None =>
    /\ capture_used <= MAX_CAPTURE_SECONDS
    /\ pc \in {"approval", "radio"} =>
         (cmd.action = "capture_iq" /\ cmd.duration # None
            => capture_used + cmd.duration <= MAX_CAPTURE_SECONDS)

HostInv ==
  /\ HostTypes /\ CommandInv /\ SnapshotInv /\ ApprovalInv
  /\ Authorised /\ AirtimeInv /\ CaptureInv
=============================================================================
