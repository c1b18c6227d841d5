----------------------------- MODULE HostProofs -----------------------------
(***************************************************************************)
(* First the grants table, for any templates, ids and length of time: what *)
(* each transaction preserves, and what any history of them does.  Then    *)
(* the funnel and the driver under any host, for every set of commands,    *)
(* grants and bounds: HostInv is inductive, and what rests on it is true   *)
(* of each program whose steps are steps of HostNext.  Every lemma has one *)
(* step per action, or per group of actions that the conjunct in question  *)
(* does not tell apart.                                                    *)
(***************************************************************************)
EXTENDS AnyHost, GrantsTable, TLAPS

LEMMA StampsArePast ==
  ASSUME TypePermissions, NEW now \in Stamps
  PROVE  now \in Nat /\ now <= clock
  BY DEF TypePermissions, Stamps

(* grant() adds a well-formed row with an id of its own, and touches no    *)
(* other.                                                                  *)
LEMMA GrantTxStep ==
  ASSUME TypePermissions, NEW i \in GrantIds, NEW t \in GrantTemplates, GrantTx(i, t)
  PROVE  /\ TypePermissions'
         /\ RowsPersist
         /\ IdsAreUnique => IdsAreUnique'
         /\ clock' = clock
<1>1. PICK now \in Stamps : grants' = grants \cup {NewRow(i, t, now)}
  BY DEF GrantTx
<1>2. NewRow(i, t, now) \in Grant
  BY StampsArePast, TemplatesAreArguments, GrantIdsAreNumbers DEF GrantTx, NewRow, Grant
<1>3. TypePermissions'
  BY <1>1, <1>2 DEF GrantTx, TypePermissions
<1>4. IdsAreUnique => IdsAreUnique'
  <2>1. \A g \in grants : g.id # NewRow(i, t, now).id
    BY DEF GrantTx, NewRow
  <2> QED BY <1>1, <2>1 DEF IdsAreUnique
<1> QED
  BY <1>1, <1>3, <1>4 DEF GrantTx, RowsPersist, KeptOrStamped

(* A stamped row is still a row.                                           *)
LEMMA StampedIsGrant ==
  ASSUME TypePermissions, NEW g \in grants, NEW now \in Stamps
  PROVE  [g EXCEPT !.revoked_at = now] \in Grant
  BY StampsArePast DEF TypePermissions, Grant

(* revoke() stamps one row and keeps the others.                           *)
LEMMA RevokeStep ==
  ASSUME TypePermissions, NEW g \in grants, Revoke(g)
  PROVE  /\ TypePermissions'
         /\ RowsPersist
         /\ IdsAreUnique => IdsAreUnique'
         /\ clock' = clock
<1>0. PICK now \in Stamps : grants' = (grants \ {g}) \cup {[g EXCEPT !.revoked_at = now]}
  BY DEF Revoke
<1> DEFINE stamped == [g EXCEPT !.revoked_at = now]
<1>1. stamped \in Grant
  BY StampedIsGrant
<1>2. /\ g.revoked_at = None
      /\ grants' = (grants \ {g}) \cup {stamped}
      /\ clock' = clock
  BY <1>0 DEF Revoke
<1>3. TypePermissions'
  BY <1>1, <1>2 DEF TypePermissions
<1>4. ASSUME NEW r \in grants
      PROVE  \E h \in grants' : KeptOrStamped(r, h)
  <2>1. CASE r = g
    <3>1. stamped \in grants' /\ KeptOrStamped(r, stamped)
      BY <1>2, <2>1 DEF KeptOrStamped
    <3> QED BY <3>1
  <2>2. CASE r # g
    BY <1>2, <2>2 DEF KeptOrStamped
  <2> QED BY <2>1, <2>2
<1>5. stamped.id = g.id
  BY DEF TypePermissions, Grant
<1>6. IdsAreUnique => IdsAreUnique'
  BY <1>2, <1>5 DEF IdsAreUnique
<1> QED
  BY <1>2, <1>3, <1>4, <1>6 DEF RowsPersist

(* revoke_all_tx() stamps rows that were active, and leaves none active.   *)
LEMMA RevokeAllTxStep ==
  ASSUME TypePermissions, RevokeAllTx
  PROVE  /\ TypePermissions'
         /\ RowsPersist
         /\ IdsAreUnique => IdsAreUnique'
         /\ clock' = clock
         /\ ActiveAt(clock)' = {}
<1>0. PICK now \in Stamps :
        grants' = {IF g \in ActiveAt(now) THEN [g EXCEPT !.revoked_at = now] ELSE g
                   : g \in grants}
  BY DEF RevokeAllTx
<1> DEFINE after(g) == IF g \in ActiveAt(now) THEN [g EXCEPT !.revoked_at = now] ELSE g
<1>1. grants' = {after(g) : g \in grants} /\ clock' = clock
  BY <1>0 DEF RevokeAllTx
<1>2. \A g \in grants : after(g) \in Grant
  BY StampedIsGrant DEF TypePermissions
<1>3. TypePermissions'
  BY <1>1, <1>2 DEF TypePermissions
<1>4. \A g \in grants : KeptOrStamped(g, after(g))
  BY DEF KeptOrStamped, ActiveAt
<1>5. RowsPersist
  BY <1>1, <1>4 DEF RowsPersist
<1>6. ASSUME NEW g \in grants
      PROVE  ~(after(g).revoked_at = None /\ after(g).expires_at > clock)
  <2>1. CASE g \in ActiveAt(now)
    <3>1. after(g).revoked_at = now
      BY <2>1 DEF TypePermissions, Grant
    <3> QED BY <3>1, StampsArePast, NoneIsNoNumber
  <2>2. CASE g \notin ActiveAt(now)
    <3>1. g.expires_at \in Int /\ clock \in Nat
      BY DEF TypePermissions, Grant
    <3> QED BY <2>2, <3>1, StampsArePast DEF ActiveAt
  <2> QED BY <2>1, <2>2
<1>7. ActiveAt(clock)' = {}
  BY <1>1, <1>6 DEF ActiveAt
<1>8. \A g \in grants : after(g).id = g.id
  BY DEF TypePermissions, Grant
<1>9. ASSUME IdsAreUnique, NEW g \in grants', NEW h \in grants', g.id = h.id
      PROVE  g = h
  <2>1. PICK a \in grants, b \in grants : g = after(a) /\ h = after(b)
    BY <1>1
  <2>2. a.id = b.id
    BY <1>8, <1>9, <2>1
  <2> HIDE DEF after
  <2> QED BY <1>9, <2>1, <2>2 DEF IdsAreUnique
<1> QED
  BY <1>1, <1>3, <1>5, <1>7, <1>9 DEF IdsAreUnique

LEMMA TickStep ==
  ASSUME TypePermissions, Tick
  PROVE  /\ TypePermissions'
         /\ RowsPersist
         /\ IdsAreUnique => IdsAreUnique'
         /\ clock' = clock + 1
  BY DEF Tick, TypePermissions, RowsPersist, KeptOrStamped, IdsAreUnique

LEMMA NoPermissionStep ==
  ASSUME TypePermissions, UNCHANGED permVars
  PROVE  /\ TypePermissions'
         /\ RowsPersist
         /\ IdsAreUnique => IdsAreUnique'
         /\ clock' = clock
  BY DEF permVars, TypePermissions, RowsPersist, KeptOrStamped, IdsAreUnique
-----------------------------------------------------------------------------
(* TableNext, seen through the lemmas: whatever the step, the table stays  *)
(* well-formed, no row is lost, and the clock never goes back.             *)
LEMMA TableNextStep ==
  ASSUME TableTypeOK, [TableNext]_tableVars
  PROVE  TableTypeOK' /\ RowsPersist /\ (clock' = clock \/ clock' = clock + 1)
<1>1. CASE \E i \in GrantIds, t \in GrantTemplates : GrantTx(i, t) /\ swept' = FALSE
  BY <1>1, GrantTxStep DEF TableTypeOK
<1>2. CASE \E g \in grants : Revoke(g) /\ UNCHANGED swept
  BY <1>2, RevokeStep DEF TableTypeOK
<1>3. CASE RevokeAllTx /\ swept' = TRUE
  BY <1>3, RevokeAllTxStep DEF TableTypeOK
<1>4. CASE Tick /\ UNCHANGED swept
  BY <1>4, TickStep DEF TableTypeOK
<1>5. CASE UNCHANGED tableVars
  BY <1>5, NoPermissionStep DEF TableTypeOK, tableVars, permVars
<1> QED
  BY <1>1, <1>2, <1>3, <1>4, <1>5 DEF TableNext

(* Rows of the table are always rows of the schema: what the executor      *)
(* reads back is a Grant.                                                  *)
THEOREM TableTypeCorrect == TableSpec => []TableTypeOK
<1>1. TableInit => TableTypeOK
  <2>1. InitPermissions => TypePermissions
    BY DEF InitPermissions, TypePermissions
  <2> QED
    BY <2>1 DEF TableInit, TableTypeOK
<1>2. TableTypeOK /\ [TableNext]_tableVars => TableTypeOK'
  BY TableNextStep
<1> QED
  BY <1>1, <1>2, PTL DEF TableSpec

(* No row is deleted or rewritten but to be revoked once, and no grant     *)
(* that has expired or been revoked is ever active again, over any history *)
(* of grants, revocations and sweeps in which the clock does not go back.  *)
THEOREM GrantsNeverRevive == TableSpec => NothingRevives
<1> DEFINE Kept(g) == \E h \in grants' :
                        /\ h.id = g.id
                        /\ KeptOrStamped(g, h)
                        /\ IsActive(h, clock') => IsActive(g, clock)
<1>1. TableTypeOK /\ [TableNext]_tableVars => [\A g \in grants : Kept(g)]_tableVars
  <2> SUFFICES ASSUME TableTypeOK, [TableNext]_tableVars, NEW g \in grants
               PROVE  Kept(g)
    OBVIOUS
  <2>1. PICK h \in grants' : KeptOrStamped(g, h)
    BY TableNextStep DEF RowsPersist
  <2>2. g \in Grant /\ clock \in Nat
    BY DEF TableTypeOK, TypePermissions
  <2>3. clock' = clock \/ clock' = clock + 1
    BY TableNextStep
  <2>4. h.id = g.id /\ h.expires_at = g.expires_at
    BY <2>1, <2>2 DEF KeptOrStamped, Grant
  <2>5. IsActive(h, clock') => IsActive(g, clock)
    <3>1. CASE h = g
      BY <3>1, <2>2, <2>3 DEF IsActive, Grant
    <3>2. CASE \E now \in Stamps : h = [g EXCEPT !.revoked_at = now]
      <4>1. PICK now \in Stamps : h = [g EXCEPT !.revoked_at = now]
        BY <3>2
      <4>2. h.revoked_at = now
        BY <4>1, <2>2 DEF Grant
      <4> QED
        BY <4>2, StampsArePast, NoneIsNoNumber DEF IsActive, TableTypeOK
    <3> QED BY <3>1, <3>2, <2>1 DEF KeptOrStamped
  <2> QED
    BY <2>1, <2>4, <2>5
<1> QED
  BY <1>1, TableTypeCorrect, PTL DEF TableSpec, NothingRevives

(* After revoke_all_tx and until the next grant no grant is active: a      *)
(* second sweep, which returns 0, has nothing to do.                       *)
THEOREM SweepIsComplete == TableSpec => []SweptMeansNothingActive
<1>1. TableInit => SweptMeansNothingActive
  BY DEF TableInit, SweptMeansNothingActive
<1>2. TableTypeOK /\ SweptMeansNothingActive /\ [TableNext]_tableVars => SweptMeansNothingActive'
  <2> SUFFICES ASSUME TableTypeOK, SweptMeansNothingActive, [TableNext]_tableVars
               PROVE  SweptMeansNothingActive'
    OBVIOUS
  <2> USE DEF SweptMeansNothingActive, TableTypeOK
  <2>1. CASE \E i \in GrantIds, t \in GrantTemplates : GrantTx(i, t) /\ swept' = FALSE
    BY <2>1
  <2>2. CASE \E g \in grants : Revoke(g) /\ UNCHANGED swept
    <3> SUFFICES ASSUME NEW g \in grants, Revoke(g), swept
                 PROVE  ActiveAt(clock)' = {}
      BY <2>2
    <3>1. g \in Grant /\ clock \in Nat
      BY DEF TypePermissions
    <3>2. PICK now \in Stamps : grants' = (grants \ {g}) \cup {[g EXCEPT !.revoked_at = now]}
      BY DEF Revoke
    <3>3. [g EXCEPT !.revoked_at = now].revoked_at # None
      BY <3>1, StampsArePast, NoneIsNoNumber DEF Grant
    <3> QED BY <3>2, <3>3 DEF Revoke, ActiveAt
  <2>3. CASE RevokeAllTx /\ swept' = TRUE
    BY <2>3, RevokeAllTxStep
  <2>4. CASE Tick /\ UNCHANGED swept
    BY <2>4 DEF Tick, ActiveAt, TypePermissions, Grant
  <2>5. CASE UNCHANGED tableVars
    BY <2>5 DEF tableVars, ActiveAt
  <2> QED
    BY <2>1, <2>2, <2>3, <2>4, <2>5 DEF TableNext
<1> QED
  BY <1>1, <1>2, TableTypeCorrect, PTL DEF TableSpec
-----------------------------------------------------------------------------
(* What the funnel and the driver do leaves the grants table alone.        *)
LEMMA FunnelKeepsTable ==
  ASSUME Receives \/ Handles \/ IsAborted \/ RadioRuns \/ IsCancelled
  PROVE  UNCHANGED <<permVars, killVars>>
<1>1. CASE Receives \/ IsAborted \/ RadioRuns \/ IsCancelled
  BY <1>1 DEF Receives, Receive, IsAborted, OfflineEscapes, TransferEscapes, Escapes, RadioRuns,
              DeviceRuns, CoroutineRuns, TransferFails, LeftoversRun,
              IsCancelled, TransferCancelled, Dropped
<1>2. CASE Handles
  BY <1>2 DEF Handles, ListActive, Refuse, AskOperator, Proceed, Approve, Dispatch, Deny,
              OfflineDone, TxReturns, RxKilled, NextSweep, RxReturns
<1> QED
  BY <1>1, <1>2

(* Whatever happens, the table stays well-formed, and no row is lost,      *)
(* doubled or rewritten but to be revoked.                                 *)
LEMMA TableStep ==
  ASSUME TypePermissions, [HostNext]_hostVars
  PROVE  /\ TypePermissions'
         /\ RowsPersist
         /\ IdsAreUnique => IdsAreUnique'
<1>1. CASE TableMoves
  BY <1>1, GrantTxStep, RevokeStep, RevokeAllTxStep, TickStep, NoPermissionStep DEF TableMoves
<1>2. CASE UNCHANGED permVars
  BY <1>2, NoPermissionStep
<1> QED
  BY <1>1, <1>2, FunnelKeepsTable DEF HostNext, HostMoves, hostVars, permVars

LEMMA KillSwitchType ==
  ASSUME TypeKillSwitch, [HostNext]_hostVars
  PROVE  TypeKillSwitch'
<1> USE DEF TypeKillSwitch, killVars
<1>1. CASE HostMoves
  BY <1>1 DEF HostMoves
<1>2. CASE UNCHANGED killVars
  BY <1>2
<1> QED
  BY <1>1, <1>2, FunnelKeepsTable DEF HostNext, hostVars

(* The driver's own steps, for a transfer of any length.                   *)
TxMoves(length) ==
  \/ BeginTx \/ StartTx \/ TxCheck \/ TxHandOver(length) \/ TxEnd(length) \/ TxRaises
  \/ TxFlush \/ TxDone
RxMoves(length) ==
  \/ BeginRx \/ StartRx \/ RxCallback \/ RxDrain(length) \/ RxStopped(length) \/ RxDone
EndMoves(length) ==
  \E late \in {{}, {"set_up"}, {"start"}, {"stop"}} : Unwind(late) \/ Abandon(late, length)
LateMoves == LateCallReturns \/ CutOff \/ LateBuffer

LEMMA DriverStepsType ==
  ASSUME TypeDriver, NEW length \in Nat,
         \/ TxMoves(length) \/ RxMoves(length) \/ EndMoves(length) \/ LateMoves
         \/ UNCHANGED driverVars
  PROVE  TypeDriver'
<1> USE DEF TypeDriver, driverVars, txVars, rxVars, TxStates, RxStates
<1>1. CASE TxMoves(length)
  <2> USE DEF TxMoves, BeginTx, StartTx, TxCheck, TxHandOver, TxEnd, TxRaises, TxFlush, TxDone
  <2>1. in_flight' \in BOOLEAN /\ sentinel' \in BOOLEAN
    BY <1>1, Zenon
  <2>2. transfer' \in {"idle"} \cup TxStates \cup RxStates /\ left' \subseteq Leftovers
    BY <1>1
  <2>3. sent' \in Nat /\ on_air' \in Nat /\ received' \in Nat /\ queued' \in Nat
    BY <1>1
  <2> QED BY <2>1, <2>2, <2>3
<1>2. CASE RxMoves(length)
  <2> USE DEF RxMoves, BeginRx, StartRx, RxCallback, RxDrain, RxStopped, RxDone
  <2>1. in_flight' \in BOOLEAN /\ sentinel' \in BOOLEAN
    BY <1>2, Zenon
  <2>2. transfer' \in {"idle"} \cup TxStates \cup RxStates /\ left' \subseteq Leftovers
    BY <1>2
  <2>3. sent' \in Nat /\ on_air' \in Nat /\ received' \in Nat /\ queued' \in Nat
    BY <1>2
  <2> QED BY <2>1, <2>2, <2>3
<1>3. CASE EndMoves(length)
  <2> USE DEF EndMoves, Unwind, Abandon
  <2>1. in_flight' \in BOOLEAN /\ sentinel' \in BOOLEAN
    BY <1>3, Zenon
  <2>2. transfer' \in {"idle"} \cup TxStates \cup RxStates
    BY <1>3
  <2>3. left' \subseteq Leftovers
    BY <1>3 DEF Leftovers, LateCalls
  <2>4. sent' \in Nat /\ on_air' \in Nat /\ received' \in Nat /\ queued' \in Nat
    BY <1>3
  <2> QED BY <2>1, <2>2, <2>3, <2>4
<1>4. CASE LateMoves
  <2> USE DEF LateMoves, LateCallReturns, CutOff, LateBuffer
  <2>1. in_flight' \in BOOLEAN /\ sentinel' \in BOOLEAN
    BY <1>4, Zenon
  <2>2. transfer' \in {"idle"} \cup TxStates \cup RxStates /\ left' \subseteq Leftovers
    BY <1>4
  <2>3. sent' \in Nat /\ on_air' \in Nat /\ received' \in Nat /\ queued' \in Nat
    BY <1>4
  <2> QED BY <2>1, <2>2, <2>3
<1>5. CASE UNCHANGED driverVars
  BY <1>5, Zenon
<1> QED
  BY <1>1, <1>2, <1>3, <1>4, <1>5

(* What the driver does by itself, and what an end of a transfer that      *)
(* nobody answers for is made of.                                          *)
LEMMA RadioSteps ==
  ASSUME RadioRuns
  PROVE  /\ UNCHANGED <<killVars, permVars>>
         /\ \/ /\ DeviceMoves \/ RxDrain(cmd.length) \/ RxStopped(cmd.length) \/ Unwind({})
               /\ pc \in {"radio", "exited"}
               /\ UNCHANGED execVars
            \/ LateMoves /\ LeftoversRun
  BY DEF RadioRuns, DeviceRuns, CoroutineRuns, TransferFails, LeftoversRun, LateMoves

LEMMA EndSteps ==
  ASSUME IsAborted \/ IsCancelled
  PROVE  \/ UNCHANGED driverVars
         \/ EndMoves(cmd.length) /\ pc \in {"radio", "exited"}
<1>1. CASE IsAborted
  BY <1>1 DEF IsAborted, OfflineEscapes, TransferEscapes, Escapes, EndMoves
<1>2. CASE IsCancelled
  BY <1>2 DEF IsCancelled, TransferCancelled, Escapes, Dropped, EndMoves
<1> QED BY <1>1, <1>2

LEMMA LengthIsNat == ASSUME cmd \in Commands PROVE cmd.length \in Nat
  BY CommandsAreCommands DEF Command

LEMMA DriverType ==
  ASSUME TypeDriver, CommandInv, SentInv, [HostNext]_hostVars
  PROVE  TypeDriver'
<1>1. CASE UNCHANGED driverVars
  BY <1>1, DriverStepsType
<1>2. CASE Proceed \/ Approve
  BY <1>1, <1>2, DriverStepsType, 0 \in Nat
     DEF Proceed, Approve, Dispatch, DispatchFails, DispatchOffline, DispatchRadio,
         TxMoves, RxMoves
<1>3. CASE TxReturns \/ RxKilled \/ NextSweep \/ RxReturns
  BY <1>3, DriverStepsType, 0 \in Nat
     DEF TxReturns, RxKilled, NextSweep, RxReturns, TxMoves, RxMoves
<1>4. CASE IsAborted \/ IsCancelled
  <2>1. CASE EndMoves(cmd.length)
    <3>1. transfer # "idle"
      BY <2>1 DEF EndMoves, Unwind, Abandon, Streaming, Stopping
    <3> QED BY <2>1, <3>1, DriverStepsType, LengthIsNat DEF CommandInv
  <2> QED BY <1>1, <1>4, <2>1, EndSteps
<1>5. CASE RadioRuns
  <2>1. CASE LateMoves
    BY <2>1, DriverStepsType, 0 \in Nat
  <2>2. CASE DeviceMoves \/ RxDrain(cmd.length) \/ RxStopped(cmd.length) \/ Unwind({})
    <3>1. transfer # "idle" \/ TxHandOver(cmd.length)
      BY <2>2 DEF DeviceMoves, StartTx, TxCheck, TxCallback, TxEnd, TxRaises, TxFlush, StartRx,
                  RxCallback, RxDrain, RxStopped, Unwind, Streaming
    <3>2. transfer # "idle"
      BY <3>1 DEF TxHandOver, SentInv
    <3>3. TxMoves(cmd.length) \/ RxMoves(cmd.length) \/ EndMoves(cmd.length)
      BY <2>2 DEF DeviceMoves, TxMoves, RxMoves, EndMoves
    <3> QED BY <3>2, <3>3, DriverStepsType, LengthIsNat DEF CommandInv
  <2> QED BY <1>5, <2>1, <2>2, RadioSteps
<1>6. CASE Receives \/ HostMoves
  BY <1>1, <1>6 DEF Receives, Receive, HostMoves
<1>7. CASE ListActive \/ Refuse \/ AskOperator \/ Deny \/ OfflineDone
  BY <1>1, <1>7 DEF ListActive, Refuse, AskOperator, Deny, OfflineDone
<1>8. CASE UNCHANGED hostVars
  BY <1>1, <1>8 DEF hostVars, driverVars, txVars, rxVars
<1> QED
  BY <1>2, <1>3, <1>4, <1>5, <1>6, <1>7, <1>8 DEF HostNext, Handles

(* The ways out of execute().                                              *)
Leaves == \E where \in Resting : Leave(where)

(* Who leaves the executor's variables alone, or only moves pc; a task     *)
(* that is cancelled inside of the driver's try goes to its finally clause *)
(* first.                                                                  *)
ExecutorIdle == UNCHANGED <<cmd, as_of, active_grants, assessed_at, answered, sweeps_left,
                            revoked_then, tx_used, capture_used>>

LEMMA IdleSteps ==
  ASSUME \/ HostMoves \/ RadioRuns \/ UNCHANGED hostVars
         \/ IsCancelled /\ ~Leaves
  PROVE  ExecutorIdle /\ pc' \in Resting \cup {pc}
<1> USE DEF ExecutorIdle, execVars, commandVars, budgetVars
<1>1. CASE HostMoves
  BY <1>1 DEF HostMoves
<1>2. CASE RadioRuns
  BY <1>2, RadioSteps DEF LeftoversRun
<1>3. CASE UNCHANGED hostVars
  BY <1>3 DEF hostVars
<1>4. CASE IsCancelled /\ ~Leaves
  BY <1>4, Zenon DEF IsCancelled, TransferCancelled, Escapes, Dropped, Leaves
<1> QED
  BY <1>1, <1>2, <1>3, <1>4

LEMMA LeavingSteps ==
  ASSUME \/ Refuse \/ Deny \/ OfflineDone \/ TxReturns \/ RxKilled \/ RxReturns
         \/ IsAborted
  PROVE  Leaves
<1>1. "thinking" \in Resting
  BY DEF Resting
<1>2. CASE Refuse \/ Deny \/ OfflineDone \/ TxReturns \/ RxKilled \/ RxReturns
  <2>1. Leave("thinking")
    BY <1>2 DEF Refuse, Deny, OfflineDone, TxReturns, RxKilled, RxReturns, Result
  <2> QED BY <1>1, <2>1 DEF Leaves
<1>3. CASE IsAborted
  BY <1>3, Zenon DEF IsAborted, OfflineEscapes, TransferEscapes, Escapes, Leaves
<1> QED BY <1>2, <1>3

LEMMA AnsweredType ==
  ASSUME answered \in BOOLEAN, [HostNext]_hostVars
  PROVE  answered' \in BOOLEAN
<1>1. CASE ExecutorIdle
  BY <1>1 DEF ExecutorIdle
<1>2. CASE Receives \/ Leaves
  BY <1>2, Zenon DEF Receives, Receive, Leaves, Leave
<1>3. CASE ListActive \/ AskOperator
  BY <1>3, Zenon DEF ListActive, AskOperator
<1>4. CASE Proceed \/ Approve
  BY <1>4, Zenon DEF Proceed, Approve, Dispatch, DispatchFails, Dispatched, Leave
<1>5. CASE NextSweep
  BY <1>5, Zenon DEF NextSweep, Result, Leave, commandVars
<1> QED
  BY <1>1, <1>2, <1>3, <1>4, <1>5, IdleSteps, LeavingSteps DEF HostNext, Handles

(* The ledger entries stay numbers.                                        *)
LEMMA BudgetType ==
  ASSUME HostTypes, CommandInv, [HostNext]_hostVars
  PROVE  tx_used' \in Nat /\ capture_used' \in Int /\ escaped' \in Nat
<1> USE DEF budgetVars
<1>1. /\ tx_used \in Nat /\ capture_used \in Int /\ escaped \in Nat
      /\ sent \in Nat /\ on_air \in Nat
  BY DEF HostTypes, TypeExecutor, TypeDriver
<1>2. CASE HostMoves \/ UNCHANGED hostVars
  BY <1>1, <1>2 DEF HostMoves, hostVars
<1>3. CASE Receives \/ ListActive \/ Refuse \/ AskOperator \/ Deny \/ OfflineDone
  BY <1>1, <1>3 DEF Receives, Receive, ListActive, Refuse, AskOperator, Deny, OfflineDone
<1>4. CASE Proceed \/ Approve
  BY <1>1, <1>4 DEF Proceed, Approve, Dispatch
<1>5. CASE IsAborted \/ RxKilled \/ NextSweep
  BY <1>1, <1>5 DEF IsAborted, OfflineEscapes, TransferEscapes, Escapes, RxKilled, NextSweep
<1>9. CASE RadioRuns
  <2>1. CASE UNCHANGED execVars
    BY <1>1, <2>1 DEF execVars
  <2>2. CASE LeftoversRun /\ LateMoves
    <3>1. on_air' \in {on_air, on_air + 1}
      BY <2>2 DEF LateMoves, LateCallReturns, CutOff, LateBuffer, txVars
    <3>2. /\ UNCHANGED <<tx_used, capture_used>>
          /\ escaped' = escaped + (on_air' - on_air)
      BY <2>2 DEF LeftoversRun
    <3>3. CASE on_air' = on_air
      BY <1>1, <3>2, <3>3
    <3>4. CASE on_air' = on_air + 1
      BY <1>1, <3>2, <3>4
    <3> QED BY <3>1, <3>3, <3>4
  <2> QED BY <1>9, <2>1, <2>2, RadioSteps
<1>6. CASE TxReturns
  BY <1>1, <1>6, MaxOverheadIsNumber DEF TxReturns
<1>7. CASE RxReturns
  <2>1. cmd \in Commands /\ cmd.valid
    BY <1>7 DEF RxReturns, CommandInv
  <2>2. cmd.action = "capture_iq" => cmd.duration \in Nat
    BY <2>1, CommandsAreCommands
  <2> QED
    BY <1>1, <1>7, <2>2 DEF RxReturns
<1>8. CASE IsCancelled
  BY <1>1, <1>8 DEF IsCancelled, TransferCancelled, Escapes, Dropped, execVars
<1> QED
  BY <1>2, <1>3, <1>4, <1>5, <1>6, <1>7, <1>8, <1>9 DEF HostNext, Handles

LEMMA ActiveAreGrants ==
  ASSUME TypePermissions, NEW now PROVE ActiveAt(now) \subseteq Grant
  BY DEF TypePermissions, ActiveAt

LEMMA RevokedAreNumbers ==
  ASSUME TypePermissions PROVE RevokedIds \subseteq Nat
  BY DEF TypePermissions, RevokedIds, Grant

LEMMA RangesAreSequence ==
  ASSUME cmd \in Commands, cmd.valid, cmd.action = "sweep_spectrum_bulk"
  PROVE  Len(cmd.ranges) \in Nat
<1>1. cmd.ranges \in Seq(SweepRange)
  BY CommandsAreCommands DEF Command
<1> QED
  BY <1>1

LEMMA CommandType ==
  ASSUME HostTypes, CommandInv, [HostNext]_hostVars
  PROVE  /\ pc' \in {"prompt", "thinking", "listing", "assessing", "approval",
                     "offline", "radio", "exited", "terminated"}
         /\ cmd' \in Commands \cup {None}
         /\ as_of' \in Nat /\ assessed_at' \in Nat
         /\ active_grants' \subseteq Grant /\ revoked_then' \subseteq Nat
         /\ sweeps_left' \in Nat
<1> USE DEF commandVars
<1>1. /\ TypePermissions
      /\ pc \in {"prompt", "thinking", "listing", "assessing", "approval",
                 "offline", "radio", "exited", "terminated"}
      /\ cmd \in Commands \cup {None}
      /\ as_of \in Nat /\ assessed_at \in Nat /\ clock \in Nat
      /\ active_grants \subseteq Grant /\ revoked_then \subseteq Nat
      /\ sweeps_left \in Nat
  BY DEF HostTypes, TypeExecutor, TypePermissions
<1>2. CASE ExecutorIdle /\ pc' \in Resting \cup {pc}
  BY <1>1, <1>2 DEF ExecutorIdle, Resting
<1>3. CASE Receives
  BY <1>1, <1>3 DEF Receives, Receive
<1>4. CASE ListActive
  BY <1>1, <1>4, ActiveAreGrants, RevokedAreNumbers DEF ListActive
<1>5. CASE AskOperator
  BY <1>1, <1>5 DEF AskOperator
<1>6. CASE Leaves
  BY <1>6 DEF Leaves, Leave, Resting
<1>7. CASE NextSweep
  <2>1. CASE stop_event
    BY <1>7, <2>1 DEF NextSweep, Result, Leave
  <2>2. CASE ~stop_event
    <3>1. /\ sweeps_left > 1 /\ sweeps_left' = sweeps_left - 1
          /\ UNCHANGED <<pc, cmd, as_of, active_grants, assessed_at, revoked_then>>
      BY <1>7, <2>2 DEF NextSweep
    <3> QED BY <1>1, <3>1
  <2> QED BY <2>1, <2>2
<1>8. CASE Proceed \/ Approve
  <2>1. cmd \in Commands
    BY <1>8 DEF Proceed, Approve, CommandInv
  <2>2. PICK log, who : Dispatch(log, who, clock) \/ Dispatch(log, who, assessed_at)
    BY <1>8 DEF Proceed, Approve
  <2>3. CASE DispatchFails(log)
    BY <2>3 DEF DispatchFails, Leave
  <2>4. CASE DispatchOffline \/ DispatchRadio
    <3>1. PICK at \in Nat : Dispatched(log, who, at) \/ DispatchFails(log)
      BY <2>2, <1>1 DEF Dispatch
    <3>2. CASE Dispatched(log, who, at)
      <4>1. sweeps_left' \in Nat
        BY <2>1, <2>4, <1>1, RangesAreSequence DEF DispatchOffline, DispatchRadio
      <4>2. pc' \in {"offline", "radio"}
        BY <2>4 DEF DispatchOffline, DispatchRadio
      <4> QED
        BY <1>1, <3>2, <4>1, <4>2 DEF Dispatched
    <3> QED BY <3>1, <3>2, <2>3
  <2> QED BY <2>2, <2>3, <2>4 DEF Dispatch
<1> QED
  BY <1>2, <1>3, <1>4, <1>5, <1>6, <1>7, <1>8, IdleSteps, LeavingSteps DEF HostNext, Handles

LEMMA TypesStep ==
  ASSUME HostTypes, CommandInv, SentInv, [HostNext]_hostVars
  PROVE  HostTypes'
<1>1. TypePermissions' /\ TypeKillSwitch' /\ TypeDriver'
  BY TableStep, KillSwitchType, DriverType DEF HostTypes
<1>2. TypeExecutor'
  BY AnsweredType, BudgetType, CommandType DEF HostTypes, TypeExecutor
<1> QED
  BY <1>1, <1>2 DEF HostTypes
-----------------------------------------------------------------------------
(* A command is in hand whenever the funnel or the driver is at work, and  *)
(* a transmission belongs to a transmit_iq.                                *)
LEMMA CommandStep ==
  ASSUME CommandInv, [HostNext]_hostVars
  PROVE  CommandInv'
<1> USE DEF CommandInv, commandVars, driverVars, txVars, rxVars, Transmitting, TxStates, RxStates
<1>1. CASE HostMoves
  BY <1>1 DEF HostMoves, Resting
<1>2. CASE Receives
  BY <1>2 DEF Receives, Receive
<1>3. CASE ListActive \/ AskOperator
  BY <1>3 DEF ListActive, AskOperator
<1>4. CASE Leaves /\ transfer' = "idle"
  BY <1>4 DEF Leaves, Leave, Resting
<1>5. CASE Refuse \/ Deny \/ OfflineDone \/ TxReturns \/ RxKilled \/ RxReturns \/ IsAborted
  <2>1. transfer' = "idle"
    BY <1>5 DEF Refuse, Deny, OfflineDone, TxReturns, RxKilled, RxReturns, TxDone, RxDone,
                IsAborted, OfflineEscapes, TransferEscapes, Escapes, Abandon
  <2> QED BY <1>4, <1>5, <2>1, LeavingSteps
<1>6. CASE IsCancelled
  <2>1. CASE \E late \in {{}, {"set_up"}, {"start"}, {"stop"}} :
               Unwind(late) /\ UNCHANGED execVars
    BY <2>1 DEF Unwind, Streaming, execVars
  <2>2. CASE Leaves /\ transfer' = "idle"
    BY <1>4, <2>2
  <2> QED
    BY <1>6, <2>1, <2>2 DEF IsCancelled, TransferCancelled, Escapes, Abandon, Dropped, Leaves
<1>7. CASE Proceed \/ Approve
  <2>1. PICK log, who, at : Dispatch(log, who, at)
    BY <1>7 DEF Proceed, Approve
  <2>2. cmd \in Commands /\ transfer = "idle"
    BY <1>7 DEF Proceed, Approve
  <2>3. CASE DispatchFails(log)
    BY <2>2, <2>3 DEF DispatchFails, Leave
  <2>4. CASE DispatchOffline /\ Dispatched(log, who, at)
    BY <2>2, <2>4 DEF DispatchOffline, Dispatched
  <2>5. CASE DispatchRadio /\ Dispatched(log, who, at)
    BY <2>2, <2>5 DEF DispatchRadio, Dispatched, BeginTx, BeginRx
  <2> QED
    BY <2>1, <2>3, <2>4, <2>5 DEF Dispatch
<1>8. CASE NextSweep
  BY <1>8 DEF NextSweep, RxDone, BeginRx, Result, Leave
<1>9. CASE RadioRuns
  <2>1. UNCHANGED <<pc, cmd>>
    BY <1>9, RadioSteps DEF execVars, LeftoversRun
  <2>2. /\ transfer' # "idle" => transfer # "idle"
        /\ Transmitting' => Transmitting
    <3>1. CASE LateMoves
      BY <3>1 DEF LateMoves, LateCallReturns, CutOff, LateBuffer
    <3>2. CASE DeviceMoves \/ RxDrain(cmd.length) \/ RxStopped(cmd.length) \/ Unwind({})
      BY <3>2 DEF DeviceMoves, StartTx, TxCheck, TxHandOver, TxEnd, TxRaises, TxFlush, TxCallback,
                  StartRx, RxCallback, RxDrain, RxStopped, Unwind, Streaming
    <3> QED BY <1>9, <3>1, <3>2, RadioSteps
  <2> QED BY <2>1, <2>2
<1>10. CASE UNCHANGED hostVars
  BY <1>10 DEF hostVars
<1> QED
  BY <1>1, <1>2, <1>3, <1>5, <1>6, <1>7, <1>8, <1>9, <1>10 DEF HostNext, Handles
-----------------------------------------------------------------------------
(* A command is assessed only after a read of the table, and approved only *)
(* after the operator was asked.                                           *)
LEMMA StageSteps ==
  ASSUME [HostNext]_hostVars
  PROVE  /\ \/ ListActive
            \/ pc' # "assessing"
            \/ UNCHANGED <<pc, active_grants, revoked_then>>
         /\ \/ AskOperator
            \/ pc' # "approval"
            \/ UNCHANGED <<pc, cmd, tx_used, capture_used>>
<1> USE DEF execVars, commandVars, budgetVars
<1>1. CASE HostMoves \/ Receives
  BY <1>1 DEF HostMoves, Resting, Receives, Receive
<1>2. CASE ListActive \/ AskOperator
  BY <1>2 DEF ListActive, AskOperator
<1>3. CASE Leaves
  BY <1>3 DEF Leaves, Leave, Resting
<1>4. CASE NextSweep
  BY <1>4 DEF NextSweep, Result, Leave
<1>5. CASE Proceed \/ Approve
  BY <1>5 DEF Proceed, Approve, Dispatch, DispatchFails, DispatchOffline, DispatchRadio, Leave
<1>6. CASE RadioRuns
  BY <1>6, RadioSteps DEF LeftoversRun
<1>7. CASE UNCHANGED hostVars
  BY <1>7 DEF hostVars
<1>8. CASE IsCancelled /\ ~Leaves
  BY <1>8, Zenon DEF IsCancelled, TransferCancelled, Escapes, Dropped, Leaves
<1> QED
  BY <1>1, <1>2, <1>3, <1>4, <1>5, <1>6, <1>7, <1>8, LeavingSteps DEF HostNext, Handles

(* A row that stands for the copy the executor holds still does, stamped   *)
(* or not, after any step.                                                 *)
LEMMA StoredRowsLast ==
  ASSUME TypePermissions, NEW s, NEW g \in grants, StoredAs(s, g), NEW h, KeptOrStamped(g, h)
  PROVE  StoredAs(s, h)
<1>1. g \in Grant
  BY DEF TypePermissions
<1>2. CASE h = g
  BY <1>2
<1>3. CASE \E now \in Stamps : h = [g EXCEPT !.revoked_at = now]
  <2>1. /\ h.id = g.id
        /\ h.band_start_hz = g.band_start_hz /\ h.band_stop_hz = g.band_stop_hz
        /\ h.max_gain_db = g.max_gain_db /\ h.expires_at = g.expires_at
    BY <1>1, <1>3 DEF Grant
  <2> QED BY <2>1 DEF StoredAs
<1> QED BY <1>2, <1>3 DEF KeptOrStamped

LEMMA SnapshotStep ==
  ASSUME HostTypes, CommandInv, SnapshotInv, [HostNext]_hostVars
  PROVE  SnapshotInv'
<1>0. TypePermissions /\ IdsAreUnique /\ IdsAreUnique'
  BY TableStep DEF HostTypes, SnapshotInv
<1>1. CASE ListActive
  <2> SUFFICES ASSUME NEW s \in active_grants'
               PROVE  s \in grants' /\ StoredAs(s, s)'
    BY <1>0 DEF SnapshotInv
  <2>1. /\ active_grants' = ActiveAt(as_of)
        /\ revoked_then' = RevokedIds
        /\ UNCHANGED grants
    BY <1>1 DEF ListActive, permVars
  <2>2. s \in grants /\ s.revoked_at = None
    BY <2>1 DEF ActiveAt
  <2>3. s.id \notin RevokedIds
    BY <1>0, <2>2 DEF RevokedIds, IdsAreUnique
  <2> QED BY <2>1, <2>2, <2>3 DEF StoredAs
<1>2. CASE UNCHANGED <<pc, active_grants, revoked_then>> /\ pc = "assessing"
  <2> SUFFICES ASSUME NEW s \in active_grants
               PROVE  \E h \in grants' : StoredAs(s, h)'
    BY <1>0, <1>2 DEF SnapshotInv
  <2>1. PICK g \in grants : StoredAs(s, g)
    BY <1>2 DEF SnapshotInv
  <2>2. PICK h \in grants' : KeptOrStamped(g, h)
    BY <1>0, TableStep DEF RowsPersist
  <2>3. StoredAs(s, h)
    BY <1>0, <2>1, <2>2, StoredRowsLast
  <2> QED BY <1>2, <2>3 DEF StoredAs
<1> QED
  BY <1>0, <1>1, <1>2, StageSteps DEF SnapshotInv

(* What each verdict on a transmission means for the executor.             *)
LEMMA TransmitVerdict ==
  ASSUME NEW center, NEW gain, NEW rows, NEW now,
         AssessTransmitIq(center, gain, rows, now).level # "BLOCKED"
  PROVE  LET v == AssessTransmitIq(center, gain, rows, now) IN
         /\ ~TxRefused(center, gain)
         /\ ~v.requires_confirmation => TxGranted(center, gain, rows, now)
         /\ v.level = "MEDIUM" => is_in_ism(center) /\ gain <= MEDIUM_TX_VGA_GAIN_DB
  BY DEF AssessTransmitIq, Blocked, Low, Medium, High, Verdict

(* What the assessor said of a transmission that is not refused.           *)
LEMMA RiskOfTransmission ==
  ASSUME ~Refused, cmd.action = "transmit_iq"
  PROVE  /\ ~TxRefused(cmd.center, cmd.gain)
         /\ ~risk.requires_confirmation
              => TxGranted(cmd.center, cmd.gain, active_grants, clock)
         /\ risk.level = "MEDIUM"
              => is_in_ism(cmd.center) /\ cmd.gain <= MEDIUM_TX_VGA_GAIN_DB
<1>1. risk = AssessTransmitIq(cmd.center, cmd.gain, active_grants, clock)
  BY DEF risk, Assess, AdminActions, KnowledgeActions, AnalysisActions
<1>2. risk.level # "BLOCKED"
  BY DEF Refused
<1> QED
  BY <1>1, <1>2, TransmitVerdict

LEMMA ApprovalStep ==
  ASSUME ApprovalInv, [HostNext]_hostVars
  PROVE  ApprovalInv'
<1>1. CASE AskOperator
  BY <1>1, RiskOfTransmission DEF AskOperator, ApprovalInv
<1>2. CASE UNCHANGED <<pc, cmd>>
  BY <1>2 DEF ApprovalInv
<1> QED
  BY <1>1, <1>2, StageSteps DEF ApprovalInv
-----------------------------------------------------------------------------
(* A radio that transmits after a step either did so before it, for the    *)
(* same command and on the same authority, or is being keyed by it.        *)
KeyUp == (Proceed \/ Approve) /\ DispatchRadio /\ cmd.action = "transmit_iq"

LEMMA TransmittingSteps ==
  ASSUME CommandInv, [HostNext]_hostVars, Transmitting'
  PROVE  \/ KeyUp
         \/ /\ Transmitting
            /\ UNCHANGED <<cmd, answered, revoked_then, assessed_at, tx_used, trail>>
<1> USE DEF Transmitting, TxStates, RxStates, driverVars, txVars, rxVars, execVars,
            commandVars, budgetVars, CommandInv
<1>1. CASE Receives \/ HostMoves
  BY <1>1 DEF Receives, Receive, HostMoves
<1>2. CASE ListActive \/ AskOperator \/ Refuse \/ Deny \/ OfflineDone
  BY <1>2 DEF ListActive, AskOperator, Refuse, Deny, OfflineDone
<1>3. CASE TxReturns \/ RxKilled \/ RxReturns \/ NextSweep
  BY <1>3 DEF TxReturns, RxKilled, RxReturns, NextSweep, TxDone, RxDone, BeginRx
<1>4. CASE IsAborted \/ IsCancelled
  <2>1. CASE UNCHANGED execVars /\ \E late \in {{}, {"set_up"}, {"start"}, {"stop"}} : Unwind(late)
    BY <2>1 DEF Unwind, Streaming
  <2>2. CASE transfer' = "idle"
    BY <2>2
  <2> QED
    BY <1>4, <2>1, <2>2 DEF IsAborted, OfflineEscapes, TransferEscapes, Escapes, IsCancelled,
                            TransferCancelled, Abandon, Dropped
<1>5. CASE Proceed \/ Approve
  BY <1>5 DEF Proceed, Approve, Dispatch, DispatchFails, DispatchOffline, DispatchRadio,
              BeginRx, KeyUp
<1>6. CASE RadioRuns
  <2>1. UNCHANGED <<cmd, answered, revoked_then, assessed_at, tx_used, trail>>
    BY <1>6, RadioSteps DEF LeftoversRun
  <2>2. Transmitting
    <3>1. CASE LateMoves
      BY <3>1 DEF LateMoves, LateCallReturns, CutOff, LateBuffer
    <3>2. CASE DeviceMoves \/ RxDrain(cmd.length) \/ RxStopped(cmd.length) \/ Unwind({})
      BY <3>2 DEF DeviceMoves, StartTx, TxCheck, TxHandOver, TxEnd, TxRaises, TxFlush, TxCallback,
                  StartRx, RxCallback, RxDrain, RxStopped, Unwind, Streaming
    <3> QED BY <1>6, <3>1, <3>2, RadioSteps
  <2> QED BY <2>1, <2>2
<1>7. CASE UNCHANGED hostVars
  BY <1>7 DEF hostVars
<1> QED
  BY <1>1, <1>2, <1>3, <1>4, <1>5, <1>6, <1>7 DEF HostNext, Handles

(* A row that backs a transmission goes on backing it once it is revoked.  *)
LEMMA BackingLasts ==
  ASSUME HostTypes, BackedByGrant, RowsPersist, UNCHANGED <<cmd, revoked_then, assessed_at>>
  PROVE  BackedByGrant'
<1>0. TypePermissions
  BY DEF HostTypes
<1>1. PICK g \in grants :
        /\ CoversFrequency(g, cmd.center)
        /\ cmd.gain <= g.max_gain_db
        /\ g.expires_at > assessed_at
        /\ g.id \notin revoked_then
  BY DEF BackedByGrant
<1>2. PICK h \in grants' : KeptOrStamped(g, h)
  BY DEF RowsPersist
<1>3. StoredAs(g, g)
  BY <1>1 DEF StoredAs
<1>4. StoredAs(g, h)
  BY <1>0, <1>2, <1>3, StoredRowsLast
<1> QED
  BY <1>1, <1>2, <1>4 DEF StoredAs, BackedByGrant, CoversFrequency

(* A transmission that is LOW, and so goes ahead without anybody being     *)
(* asked, is covered by a row that is stored when the radio is keyed.      *)
LEMMA LowMeansBacked ==
  ASSUME HostTypes, SnapshotInv, KeyUp, Proceed, ~risk.requires_confirmation
  PROVE  BackedByGrant'
<1>1. PICK log, who, at : Dispatch(log, who, at)
  BY DEF Proceed
<1>2. cmd.action = "transmit_iq" /\ ~Refused /\ UNCHANGED <<cmd, revoked_then, permVars>>
  BY <1>1 DEF KeyUp, Proceed, Dispatch, DispatchFails, DispatchRadio, Dispatched
<1>3. assessed_at' = clock
  BY DEF Proceed, Dispatch, Dispatched, DispatchFails, DispatchRadio, KeyUp
<1>4. PICK s \in active_grants : CoversTransmission(s, cmd.center, cmd.gain, clock)
  BY <1>2, RiskOfTransmission DEF TxGranted
<1>5. PICK g \in grants : StoredAs(s, g)
  BY <1>4 DEF Proceed, SnapshotInv
<1>6. s \in Grant /\ clock \in Nat
  BY <1>4 DEF HostTypes, TypeExecutor, TypePermissions
<1>7. g.expires_at > clock
  BY <1>4, <1>5, <1>6 DEF StoredAs, CoversTransmission, IsActive, Grant
<1> QED
  BY <1>2, <1>3, <1>4, <1>5, <1>7
     DEF BackedByGrant, StoredAs, CoversTransmission, CoversFrequency, permVars

LEMMA AuthorisedStep ==
  ASSUME HostTypes, CommandInv, SnapshotInv, ApprovalInv, Authorised, [HostNext]_hostVars
  PROVE  Authorised'
<1> SUFFICES ASSUME Transmitting' PROVE Authorised'
  BY DEF Authorised
<1>1. CASE Transmitting /\ UNCHANGED <<cmd, answered, revoked_then, assessed_at>>
  <2>1. BackedByGrant => BackedByGrant'
    BY <1>1, BackingLasts, TableStep DEF HostTypes
  <2> QED
    BY <1>1, <2>1 DEF Authorised
<1>2. CASE KeyUp
  <2>1. PICK log, who, at : Dispatch(log, who, at) /\ (Approve => who = TRUE)
    BY <1>2 DEF KeyUp, Proceed, Approve
  <2>2. cmd \in Commands /\ cmd.action = "transmit_iq" /\ UNCHANGED <<cmd, revoked_then, permVars>>
    BY <1>2, <2>1 DEF KeyUp, Proceed, Approve, Dispatch, DispatchFails, DispatchRadio,
                      Dispatched, CommandInv
  <2>3. ~TxRefused(cmd.center, cmd.gain)
    BY <1>2, <2>2, RiskOfTransmission DEF KeyUp, Proceed, Approve, ApprovalInv
  <2>4. ~is_blocked(cmd.center) /\ cmd.gain \in 0..MAX_TX_VGA_GAIN_DB
    <3>1. cmd \in Command
      BY <2>2, CommandsAreCommands
    <3>2. cmd.gain \in Int \cup {None}
      BY <3>1 DEF Command
    <3>3. /\ ~is_blocked(cmd.center) /\ cmd.gain # None
          /\ ~(cmd.gain > MAX_TX_VGA_GAIN_DB) /\ ~(cmd.gain < 0)
      BY <2>3 DEF TxRefused
    <3> QED BY <3>2, <3>3 DEF MAX_TX_VGA_GAIN_DB
  <2>5. CASE Approve
    <3>1. answered'
      BY <1>2, <2>5, Zenon DEF Approve, Dispatch, Dispatched, DispatchFails, DispatchRadio, KeyUp
    <3> QED
      BY <2>2, <2>4, <3>1 DEF Authorised
  <2>6. CASE Proceed
    <3>1. assessed_at' = clock
      BY <1>2, <2>6 DEF Proceed, Dispatch, Dispatched, DispatchFails, DispatchRadio, KeyUp
    <3>2. CASE risk.requires_confirmation
      <4>1. /\ auto_approve_medium
            /\ is_in_ism(cmd.center) /\ cmd.gain <= MEDIUM_TX_VGA_GAIN_DB
        BY <2>2, <2>6, <3>2, RiskOfTransmission DEF Proceed, AutoApproved
      <4> QED
        BY <2>2, <2>4, <4>1 DEF Authorised
    <3>3. CASE ~risk.requires_confirmation
      <4>1. BackedByGrant'
        BY <1>2, <2>6, <3>3, LowMeansBacked
      <4> QED
        BY <2>2, <2>4, <4>1 DEF Authorised
    <3> QED BY <3>2, <3>3
  <2> QED
    BY <1>2, <2>5, <2>6 DEF KeyUp
<1> QED
  BY <1>1, <1>2, TransmittingSteps
-----------------------------------------------------------------------------
(* What the pre-flight check found affordable still is when the radio is   *)
(* keyed, and until it falls silent.                                       *)
LEMMA AffordableStep ==
  ASSUME HostTypes, CommandInv, MAX_TX_SECONDS # None, AffordableInv, [HostNext]_hostVars
  PROVE  AffordableInv'
<1>1. ASSUME ~Refused, cmd \in Commands, cmd.action = "transmit_iq", cmd.estimate # None
      PROVE  tx_used + cmd.estimate <= MAX_TX_SECONDS
  <2>1. cmd.estimate \in Nat /\ tx_used \in Nat /\ MAX_TX_SECONDS \in Nat
    BY <1>1, CommandsAreCommands, LengthIsNat, BudgetsAreNumbers DEF HostTypes, TypeExecutor
  <2>2. ~(tx_used + cmd.estimate > MAX_TX_SECONDS)
    BY <1>1 DEF Refused, OverTxBudget
  <2> QED BY <2>1, <2>2
<1>2. CASE Transmitting'
  <2>1. CASE Proceed /\ KeyUp
    <3>1. UNCHANGED <<cmd, tx_used>> /\ ~Refused /\ cmd \in Commands
      BY <2>1 DEF KeyUp, Proceed, Dispatch, Dispatched, DispatchFails, DispatchOffline,
                  DispatchRadio, budgetVars, CommandInv
    <3> QED BY <1>1, <3>1 DEF AffordableInv
  <2>2. CASE Approve /\ KeyUp
    <3>1. UNCHANGED <<cmd, tx_used>> /\ pc = "approval"
      BY <2>2 DEF KeyUp, Approve, Dispatch, Dispatched, DispatchFails, DispatchOffline,
                  DispatchRadio, budgetVars
    <3> QED BY <3>1 DEF AffordableInv
  <2>3. CASE Transmitting /\ UNCHANGED <<cmd, tx_used>>
    BY <2>3 DEF AffordableInv
  <2> QED BY <1>2, <2>1, <2>2, <2>3, TransmittingSteps DEF KeyUp
<1>3. CASE pc' = "approval" /\ ~Transmitting'
  <2>1. CASE AskOperator
    <3>1. UNCHANGED <<cmd, tx_used>> /\ ~Refused /\ cmd \in Commands
      BY <2>1 DEF AskOperator, budgetVars, CommandInv
    <3> QED BY <1>1, <3>1 DEF AffordableInv
  <2>2. CASE UNCHANGED <<pc, cmd, tx_used, capture_used>>
    BY <1>3, <2>2 DEF AffordableInv
  <2> QED BY <1>3, <2>1, <2>2, StageSteps
<1> QED BY <1>2, <1>3 DEF AffordableInv

(* How the count of buffers sent, the callback and the state of the        *)
(* transmitter move together.                                              *)
LEMMA SentMoves ==
  ASSUME SentInv, [HostNext]_hostVars
  PROVE  /\ sent' = sent \/ sent' = 0 \/ (sent < cmd.length /\ sent' = sent + 1)
         /\ ~Transmitting' \/ transfer' = "tx_setup" => sent' = 0
         /\ in_flight' => transfer' \in {"transmitting", "tx_unwinding"} /\ "buffer" \notin left'
<1> USE DEF SentInv, Transmitting, TxStates, RxStates, driverVars, txVars, rxVars
<1>1. CASE UNCHANGED driverVars
  BY <1>1
<1>2. CASE Proceed \/ Approve
  BY <1>1, <1>2 DEF Proceed, Approve, Dispatch, DispatchFails, DispatchOffline,
                    DispatchRadio, BeginTx, BeginRx
<1>3. CASE TxReturns \/ RxKilled \/ RxReturns
  BY <1>3 DEF TxReturns, RxKilled, RxReturns, TxDone, RxDone
<1>4. CASE IsAborted \/ IsCancelled
  <2>1. CASE EndMoves(cmd.length)
    BY <2>1 DEF EndMoves, Unwind, Abandon, Streaming
  <2> QED BY <1>1, <1>4, <2>1, EndSteps
<1>5. CASE NextSweep
  BY <1>5 DEF NextSweep, BeginRx, RxDone
<1>6. CASE RadioRuns
  <2>1. CASE LateMoves
    BY <2>1 DEF LateMoves, LateCallReturns, CutOff, LateBuffer
  <2>2. CASE DeviceMoves
    BY <2>2 DEF DeviceMoves, StartTx, TxCheck, TxHandOver, TxEnd, TxRaises, TxFlush, TxCallback,
                StartRx, RxCallback
  <2>3. CASE RxDrain(cmd.length) \/ RxStopped(cmd.length) \/ Unwind({})
    BY <2>3 DEF RxDrain, RxStopped, Unwind, Streaming
  <2> QED BY <1>6, <2>1, <2>2, <2>3, RadioSteps
<1>7. CASE Receives \/ HostMoves
  BY <1>1, <1>7 DEF Receives, Receive, HostMoves
<1>8. CASE ListActive \/ Refuse \/ AskOperator \/ Deny \/ OfflineDone
  BY <1>1, <1>8 DEF ListActive, Refuse, AskOperator, Deny, OfflineDone
<1>9. CASE UNCHANGED hostVars
  BY <1>1, <1>9 DEF hostVars
<1> QED
  BY <1>2, <1>3, <1>4, <1>5, <1>6, <1>7, <1>8, <1>9 DEF HostNext, Handles

(* No more is sent than the file holds, the count starts from 0, and a     *)
(* callback is at work only inside a transmission.                         *)
LEMMA SentStep ==
  ASSUME HostTypes, CommandInv, SentInv, [HostNext]_hostVars
  PROVE  SentInv'
<1>1. Transmitting' => sent' <= cmd'.length
  <2> SUFFICES ASSUME Transmitting' PROVE sent' <= cmd'.length
    OBVIOUS
  <2>1. CASE KeyUp
    <3>1. transfer = "idle" /\ sent' = sent /\ cmd' = cmd /\ cmd \in Commands
      BY <2>1 DEF KeyUp, Proceed, Approve, Dispatch, Dispatched, DispatchFails,
                  DispatchOffline, DispatchRadio, BeginTx, txVars, CommandInv
    <3>2. sent = 0
      BY <3>1 DEF SentInv, Transmitting, TxStates
    <3> QED BY <3>1, <3>2, LengthIsNat
  <2>2. CASE Transmitting /\ UNCHANGED <<cmd, tx_used>>
    <3>1. sent <= cmd.length /\ sent \in Nat /\ cmd.length \in Nat
      BY <2>2, LengthIsNat DEF SentInv, CommandInv, Transmitting, TxStates, HostTypes, TypeDriver
    <3>2. sent' = sent \/ sent' = 0 \/ (sent < cmd.length /\ sent' = sent + 1)
      BY SentMoves
    <3> QED BY <2>2, <3>1, <3>2
  <2> QED BY <2>1, <2>2, TransmittingSteps
<1> QED BY <1>1, SentMoves DEF SentInv, Transmitting

(* Nothing is settled but by the end of a transmission, and a buffer that  *)
(* was left behind goes down as escaped when it goes out.                  *)
Unwinds ==
  \E where \in Resting, late \in {{}, {"set_up"}, {"start"}, {"stop"}} : Escapes(where, late)

LEMMA LedgerMoves ==
  ASSUME HostTypes, SentInv, [HostNext]_hostVars
  PROVE  \/ UNCHANGED <<on_air, sent, escaped, tx_used>>
         \/ /\ on_air' = on_air + 1 /\ sent' = sent + 1
            /\ UNCHANGED <<escaped, tx_used>>
         \/ /\ on_air' = on_air + 1 /\ escaped' = escaped + 1
            /\ UNCHANGED <<sent, tx_used>>
         \/ TxReturns \/ Unwinds
<1> USE DEF SentInv, Transmitting, TxStates, RxStates, driverVars, txVars, rxVars,
            execVars, budgetVars
<1>1. CASE UNCHANGED <<driverVars, budgetVars>>
  BY <1>1
<1>2. CASE Proceed \/ Approve
  BY <1>2 DEF Proceed, Approve, Dispatch, DispatchFails, DispatchOffline,
              DispatchRadio, BeginTx, BeginRx
<1>3. CASE RxKilled \/ RxReturns
  BY <1>3 DEF RxKilled, RxReturns, TxDone, RxDone
<1>4. CASE NextSweep
  BY <1>4 DEF NextSweep, BeginRx, RxDone
<1>5. CASE RadioRuns
  <2>1. CASE LeftoversRun /\ LateMoves
    <3>1. on_air \in Nat /\ escaped \in Nat
      BY DEF HostTypes, TypeDriver, TypeExecutor
    <3>2. on_air' \in {on_air, on_air + 1} /\ sent' = sent
      BY <2>1 DEF LateMoves, LateCallReturns, CutOff, LateBuffer
    <3>3. escaped' = escaped + (on_air' - on_air) /\ tx_used' = tx_used
      BY <2>1 DEF LeftoversRun
    <3>4. CASE on_air' = on_air
      BY <3>1, <3>2, <3>3, <3>4
    <3>5. CASE on_air' = on_air + 1
      BY <3>1, <3>2, <3>3, <3>5
    <3> QED BY <3>2, <3>4, <3>5
  <2>2. CASE DeviceMoves /\ UNCHANGED execVars
    BY <2>2 DEF DeviceMoves, StartTx, TxCheck, TxHandOver, TxEnd, TxRaises, TxFlush, TxCallback,
                StartRx, RxCallback
  <2>3. CASE /\ RxDrain(cmd.length) \/ RxStopped(cmd.length) \/ Unwind({})
             /\ UNCHANGED execVars
    BY <2>3 DEF RxDrain, RxStopped, Unwind
  <2> QED BY <1>5, <2>1, <2>2, <2>3, RadioSteps
<1>6. CASE Receives \/ HostMoves
  BY <1>1, <1>6 DEF Receives, Receive, HostMoves
<1>7. CASE ListActive \/ Refuse \/ AskOperator \/ Deny \/ OfflineDone
  BY <1>1, <1>7 DEF ListActive, Refuse, AskOperator, Deny, OfflineDone
<1>8. CASE IsAborted \/ IsCancelled
  <2>1. CASE UNCHANGED execVars /\ \E late \in {{}, {"set_up"}, {"start"}, {"stop"}} : Unwind(late)
    BY <2>1 DEF Unwind
  <2>2. CASE Unwinds
    BY <2>2
  <2> QED
    BY <1>1, <1>8, <2>1, <2>2
       DEF IsAborted, OfflineEscapes, TransferEscapes, IsCancelled, TransferCancelled, Dropped,
           Unwinds
<1>9. CASE UNCHANGED hostVars
  BY <1>1, <1>9 DEF hostVars
<1>10. CASE TxReturns
  BY <1>10
<1> QED
  BY <1>2, <1>3, <1>4, <1>5, <1>6, <1>7, <1>8, <1>9, <1>10 DEF HostNext, Handles

(* A measured transmission is charged at least what it sent, and what it   *)
(* sent was affordable; every other one goes down as escaped.              *)
LEMMA LedgerStep ==
  ASSUME HostTypes, CommandInv, MAX_TX_SECONDS # None, SentInv, AffordableInv, LedgerInv,
         [HostNext]_hostVars
  PROVE  LedgerInv'
<1>1. /\ sent \in Nat /\ on_air \in Nat /\ escaped \in Nat /\ tx_used \in Nat
      /\ MAX_TX_SECONDS \in Nat
  BY BudgetsAreNumbers DEF HostTypes, TypeDriver, TypeExecutor
<1> USE DEF LedgerInv
<1>2. CASE UNCHANGED <<on_air, sent, escaped, tx_used>>
  BY <1>2
<1>3. CASE on_air' = on_air + 1 /\ sent' = sent + 1 /\ UNCHANGED <<escaped, tx_used>>
  BY <1>1, <1>3
<1>4. CASE Unwinds
  <2>1. UNCHANGED <<on_air, tx_used>> /\ sent' = 0 /\ escaped' = escaped + sent
    BY <1>4 DEF Unwinds, Escapes, Abandon
  <2> QED BY <1>1, <2>1
<1>6. CASE on_air' = on_air + 1 /\ escaped' = escaped + 1 /\ UNCHANGED <<sent, tx_used>>
  BY <1>1, <1>6
<1>5. CASE TxReturns
  <2>1. on_air' = on_air /\ sent' = 0
    BY <1>5 DEF TxReturns, TxDone
  <2>2. CASE stop_event
    <3>1. tx_used' = tx_used /\ escaped' = escaped + sent
      BY <1>5, <2>2 DEF TxReturns
    <3> QED BY <1>1, <2>1, <3>1
  <2>3. CASE ~stop_event
    <3>1. PICK overhead \in 0..MaxOverhead : tx_used' = tx_used + sent + overhead
      BY <1>5, <2>3 DEF TxReturns
    <3>2. escaped' = IF cmd.estimate = None THEN escaped + sent ELSE escaped
      BY <1>5, <2>3 DEF TxReturns
    <3>3. overhead \in Nat
      BY MaxOverheadIsNumber
    <3>4. CASE cmd.estimate = None
      BY <1>1, <2>1, <3>1, <3>2, <3>3, <3>4
    <3>5. CASE cmd.estimate # None
      <4>1. Transmitting /\ cmd \in Commands /\ cmd.action = "transmit_iq"
        BY <1>5 DEF TxReturns, Transmitting, TxStates, CommandInv
      <4>2. cmd.estimate = cmd.length /\ cmd.length \in Nat
        BY <3>5, <4>1, CommandsAreCommands, LengthIsNat
      <4>3. sent <= cmd.length /\ tx_used + cmd.length <= MAX_TX_SECONDS
        BY <3>5, <4>1, <4>2 DEF SentInv, AffordableInv
      <4>4. tx_used + sent <= MAX_TX_SECONDS
        BY <1>1, <4>2, <4>3
      <4>5. escaped' = escaped
        BY <3>2, <3>5
      <4> QED BY <1>1, <2>1, <3>1, <3>3, <4>4, <4>5
    <3> QED BY <3>4, <3>5
  <2> QED BY <2>2, <2>3
<1> QED
  BY <1>2, <1>3, <1>4, <1>5, <1>6, LedgerMoves

LEMMA AirtimeStep ==
  ASSUME HostTypes, CommandInv, AirtimeInv, [HostNext]_hostVars
  PROVE  AirtimeInv'
  BY SentStep, AffordableStep, LedgerStep DEF AirtimeInv
-----------------------------------------------------------------------------
(* A command that may still capture was found affordable, and only the end *)
(* of a capture is charged.                                                *)
LEMMA CaptureMoves ==
  ASSUME [HostNext]_hostVars
  PROVE  /\ RxReturns \/ capture_used' = capture_used
         /\ pc' \in {"approval", "radio"} =>
              /\ UNCHANGED <<cmd, capture_used>>
              /\ pc \in {"approval", "radio"} \/ (pc = "assessing" /\ ~Refused)
<1> USE DEF execVars, commandVars, budgetVars
<1>1. CASE Receives \/ ListActive \/ HostMoves
  BY <1>1 DEF Receives, Receive, ListActive, HostMoves, Resting
<1>2. CASE AskOperator
  BY <1>2 DEF AskOperator
<1>3. CASE Refuse \/ Deny \/ OfflineDone \/ TxReturns \/ RxKilled \/ RxReturns
  BY <1>3 DEF Refuse, Deny, OfflineDone, TxReturns, RxKilled, RxReturns, Result, Leave
<1>4. CASE Proceed \/ Approve
  BY <1>4 DEF Proceed, Approve, Dispatch, Dispatched, DispatchFails, DispatchOffline,
              DispatchRadio, Leave
<1>5. CASE IsAborted \/ IsCancelled
  BY <1>5 DEF IsAborted, OfflineEscapes, TransferEscapes, Escapes, IsCancelled,
              TransferCancelled, Dropped, Leave, Resting
<1>6. CASE NextSweep
  BY <1>6 DEF NextSweep, Result, Leave
<1>7. CASE RadioRuns
  BY <1>7, RadioSteps DEF LeftoversRun
<1>8. CASE UNCHANGED hostVars
  BY <1>8 DEF hostVars
<1> QED
  BY <1>1, <1>2, <1>3, <1>4, <1>5, <1>6, <1>7, <1>8 DEF HostNext, Handles

LEMMA CaptureStep ==
  ASSUME HostTypes, CommandInv, CaptureInv, [HostNext]_hostVars
  PROVE  CaptureInv'
<1> SUFFICES ASSUME MAX_CAPTURE_SECONDS # None PROVE CaptureInv'
  BY DEF CaptureInv
<1>1. MAX_CAPTURE_SECONDS \in Nat /\ capture_used \in Int
  BY BudgetsAreNumbers DEF HostTypes, TypeExecutor
<1>2. capture_used' <= MAX_CAPTURE_SECONDS
  <2>1. CASE capture_used' = capture_used
    BY <2>1 DEF CaptureInv
  <2>2. CASE RxReturns
    <3>1. cmd \in Commands /\ cmd.valid /\ pc = "radio"
      BY <2>2 DEF RxReturns, CommandInv
    <3>2. CASE cmd.action = "capture_iq"
      <4>1. cmd.duration \in Nat
        BY <3>1, <3>2, CommandsAreCommands
      <4>2. cmd.duration # None
        BY <4>1, NoneIsNoNumber
      <4>3. capture_used' = capture_used + cmd.duration
        BY <2>2, <3>2, <4>1 DEF RxReturns
      <4> QED BY <3>1, <3>2, <4>2, <4>3 DEF CaptureInv
    <3>3. CASE cmd.action # "capture_iq"
      BY <2>1, <2>2, <3>3 DEF RxReturns
    <3> QED BY <3>2, <3>3
  <2> QED BY <2>1, <2>2, CaptureMoves
<1>3. ASSUME pc' \in {"approval", "radio"}, cmd.action = "capture_iq", cmd.duration # None
      PROVE  capture_used + cmd.duration <= MAX_CAPTURE_SECONDS
  <2>1. CASE pc \in {"approval", "radio"}
    BY <1>3, <2>1 DEF CaptureInv
  <2>2. CASE pc = "assessing" /\ ~Refused
    <3>1. cmd \in Command
      BY <2>2, CommandsAreCommands DEF CommandInv
    <3>2. cmd.duration \in Int
      BY <1>3, <3>1 DEF Command
    <3>3. ~(capture_used + cmd.duration > MAX_CAPTURE_SECONDS)
      BY <1>3, <2>2 DEF Refused, OverCaptureBudget
    <3> QED BY <1>1, <3>2, <3>3
  <2> QED BY <1>3, <2>1, <2>2, CaptureMoves
<1> QED
  BY <1>2, <1>3, CaptureMoves DEF CaptureInv
-----------------------------------------------------------------------------
LEMMA HostInitially == HostInit => HostInv
<1> SUFFICES ASSUME HostInit PROVE HostInv
  OBVIOUS
<1> USE DEF HostInit, InitPermissions, InitKillSwitch, InitDriver, InitExecutor
<1>1. TypePermissions /\ TypeKillSwitch
  <2>1. stop_event \in BOOLEAN
    BY Zenon
  <2> QED BY <2>1, WindowIsPositive DEF TypePermissions, TypeKillSwitch
<1>2. TypeDriver
  <2>1. sentinel \in BOOLEAN /\ in_flight \in BOOLEAN
    BY Zenon
  <2> QED BY <2>1 DEF TypeDriver
<1>3. TypeExecutor
  <2>1. answered \in BOOLEAN
    BY Zenon
  <2> QED BY <2>1 DEF TypeExecutor
<1>4. CommandInv /\ SnapshotInv /\ ApprovalInv /\ Authorised
  BY DEF CommandInv, SnapshotInv, IdsAreUnique, ApprovalInv, Authorised, Transmitting, TxStates
<1>5. AirtimeInv /\ CaptureInv
  BY BudgetsAreNumbers
     DEF AirtimeInv, SentInv, AffordableInv, LedgerInv, CaptureInv, Transmitting, TxStates
<1> QED BY <1>1, <1>2, <1>3, <1>4, <1>5 DEF HostInv, HostTypes

LEMMA HostInductive == HostInv /\ [HostNext]_hostVars => HostInv'
  BY TypesStep, CommandStep, SnapshotStep, ApprovalStep, AuthorisedStep, AirtimeStep,
     CaptureStep DEF HostInv, AirtimeInv

(* Whatever program drives the executor, and however the grants table      *)
(* moves between two of its steps, the control state, the copies of the    *)
(* table, the approval and the two accounts stay consistent.               *)
THEOREM HostInvariant == HostSpec => []HostInv
  BY HostInitially, HostInductive, PTL DEF HostSpec

(* The accounts bound the airtime at every buffer.                         *)
LEMMA AccountsBound == HostInv => SessionBudgetsHold
<1> SUFFICES ASSUME HostInv PROVE SessionBudgetsHold
  OBVIOUS
<1>1. MAX_CAPTURE_SECONDS # None => capture_used <= MAX_CAPTURE_SECONDS
  BY DEF HostInv, CaptureInv
<1>2. ASSUME MAX_TX_SECONDS # None
      PROVE  on_air <= MAX_TX_SECONDS + escaped + Unmeasured
  <2>1. /\ sent \in Nat /\ on_air \in Nat /\ escaped \in Nat /\ tx_used \in Nat
        /\ MAX_TX_SECONDS \in Nat
    BY <1>2, BudgetsAreNumbers DEF HostInv, HostTypes, TypeDriver, TypeExecutor
  <2>2. LedgerInv /\ SentInv /\ AffordableInv
    BY <1>2 DEF HostInv, AirtimeInv
  <2>3. CASE ~Transmitting
    BY <2>1, <2>2, <2>3 DEF SentInv, LedgerInv, Unmeasured
  <2>4. CASE Transmitting /\ cmd.estimate = None
    BY <2>1, <2>2, <2>4 DEF LedgerInv, Unmeasured
  <2>5. CASE Transmitting /\ cmd.estimate # None
    <3>1. cmd \in Commands /\ cmd.action = "transmit_iq"
      BY <2>5 DEF HostInv, CommandInv, Transmitting, TxStates
    <3>2. cmd.estimate = cmd.length /\ cmd.length \in Nat
      BY <2>5, <3>1, CommandsAreCommands, LengthIsNat
    <3>3. sent <= cmd.length /\ tx_used + cmd.length <= MAX_TX_SECONDS
      BY <2>2, <2>5, <3>1, <3>2 DEF SentInv, AffordableInv
    <3>4. sent + tx_used <= MAX_TX_SECONDS
      BY <2>1, <3>2, <3>3
    <3> QED BY <2>1, <2>2, <2>5, <3>4 DEF LedgerInv, Unmeasured
  <2> QED BY <2>3, <2>4, <2>5
<1> QED BY <1>1, <1>2 DEF SessionBudgetsHold
-----------------------------------------------------------------------------
(* What a step does to the radio and to the flag: it keys the radio, turns *)
(* to a buffer, emits one, silences the radio, gives up what it was keyed  *)
(* for, or leaves all that alone, and then the flag comes down only over a *)
(* silent radio.                                                           *)
FlagMoves == stop_event /\ Transmitting => stop_event'
Turning == transfer \in {"tx_setup", "transmitting"}

KeysUp ==
  /\ KeyUp /\ BeginTx
  /\ UNCHANGED <<cmd, stop_event>>
HandsOver == (TxCheck \/ TxHandOver(cmd.length) \/ LateBuffer) /\ UNCHANGED <<cmd, stop_event>>
Silences ==
  /\ Transmitting /\ transfer' = "idle"
  /\ InFlight' <=> InFlight
  /\ UNCHANGED <<on_air, stop_event>>
GivesUp ==
  /\ Transmitting /\ Transmitting' /\ ~Turning'
  /\ (InFlight' <=> InFlight) \/ (~Turning /\ ~InFlight')
  /\ UNCHANGED <<cmd, sent, on_air, stop_event>>
Rests ==
  /\ Transmitting' <=> Transmitting
  /\ Turning' <=> Turning
  /\ Transmitting => UNCHANGED <<cmd, sent, in_flight>>
  /\ InFlight' <=> InFlight
  /\ UNCHANGED on_air
  /\ FlagMoves

(* Where nothing is transmitted, the callback is not at work.              *)
LEMMA QuietDriver ==
  ASSUME SentInv, ~Transmitting, ~Transmitting', UNCHANGED <<in_flight, left, on_air>>, FlagMoves
  PROVE  Rests
  BY DEF Rests, Transmitting, TxStates, Turning, InFlight, SentInv

(* An end of a transfer leaves the buffer in flight to its callback.       *)
LEMMA Unwound ==
  ASSUME SentInv, NEW late \in {{}, {"set_up"}, {"start"}, {"stop"}}, Unwind(late),
         UNCHANGED <<cmd, stop_event>>
  PROVE  GivesUp \/ Rests
<1>1. InFlight' <=> InFlight
  BY DEF Unwind, txVars, InFlight
<1>2. CASE Transmitting
  <2>1. transfer' = "tx_unwinding"
    BY <1>2 DEF Unwind, Transmitting
  <2> QED
    BY <1>1, <1>2, <2>1 DEF Unwind, txVars, GivesUp, Turning, Transmitting, TxStates
<1>3. CASE ~Transmitting
  <2>1. transfer' = "rx_unwinding"
    BY <1>3 DEF Unwind, Transmitting
  <2> QED
    BY <1>1, <1>3, <2>1 DEF Unwind, txVars, Rests, FlagMoves, Turning, Transmitting, TxStates
<1> QED BY <1>2, <1>3

LEMMA Abandoned ==
  ASSUME SentInv, NEW late \in {{}, {"set_up"}, {"start"}, {"stop"}}, Abandon(late, cmd.length),
         UNCHANGED stop_event
  PROVE  Silences \/ Rests
<1>1. InFlight' <=> InFlight
  BY DEF Abandon, InFlight
<1>2. transfer' = "idle" /\ UNCHANGED on_air
  BY DEF Abandon
<1>3. CASE Transmitting
  BY <1>1, <1>2, <1>3 DEF Silences
<1>4. CASE ~Transmitting
  BY <1>1, <1>2, <1>4 DEF Rests, FlagMoves, Turning, Transmitting, TxStates
<1> QED BY <1>3, <1>4

LEMMA RadioMoves ==
  ASSUME HostTypes, CommandInv, SentInv, [HostNext]_hostVars
  PROVE  KeysUp \/ HandsOver \/ Silences \/ GivesUp \/ Rests
<1> USE DEF Transmitting, TxStates, RxStates, CommandInv, driverVars, txVars, rxVars,
            execVars, commandVars, killVars, FlagMoves
<1>1. CASE HostMoves
  BY <1>1 DEF HostMoves, Rests, Turning, InFlight
<1>2. CASE Receives \/ ListActive \/ AskOperator
  BY <1>2, QuietDriver DEF Receives, Receive, ListActive, AskOperator
<1>3. CASE Refuse \/ Deny \/ OfflineDone
  BY <1>3, QuietDriver DEF Refuse, Deny, OfflineDone
<1>4. CASE Proceed \/ Approve
  <2>1. PICK log, who, at : Dispatch(log, who, at)
    BY <1>4 DEF Proceed, Approve
  <2>2. transfer = "idle"
    BY <1>4 DEF Proceed, Approve
  <2>3. CASE DispatchFails(log) \/ DispatchOffline
    BY <2>1, <2>2, <2>3, QuietDriver DEF Dispatch, DispatchFails, DispatchOffline
  <2>4. CASE DispatchRadio /\ Dispatched(log, who, at)
    <3>1. CASE cmd.action = "transmit_iq"
      BY <1>4, <2>1, <2>4, <3>1 DEF Dispatch, Dispatched, DispatchRadio, KeysUp, KeyUp
    <3>2. CASE cmd.action # "transmit_iq"
      BY <2>1, <2>2, <2>4, <3>2, QuietDriver DEF Dispatch, DispatchRadio, BeginRx
    <3> QED BY <3>1, <3>2
  <2> QED BY <2>1, <2>3, <2>4 DEF Dispatch
<1>5. CASE TxReturns
  <2>1. transfer = "tx_stopping" /\ transfer' = "idle" /\ UNCHANGED <<in_flight, left, on_air, stop_event>>
    BY <1>5 DEF TxReturns, TxDone
  <2>2. ~in_flight
    BY <2>1 DEF SentInv
  <2> QED BY <2>1, <2>2 DEF Silences, InFlight
<1>6. CASE RxKilled \/ RxReturns \/ NextSweep
  BY <1>6, QuietDriver DEF RxKilled, RxReturns, NextSweep, BeginRx, RxDone
<1>7. CASE IsAborted \/ IsCancelled
  <2>1. CASE \E late \in {{}, {"set_up"}, {"start"}, {"stop"}} :
               Unwind(late) /\ UNCHANGED <<execVars, killVars>>
    BY <2>1, Unwound DEF Unwind
  <2>2. CASE \E late \in {{}, {"set_up"}, {"start"}, {"stop"}} :
               Abandon(late, cmd.length) /\ UNCHANGED killVars
    BY <2>2, Abandoned
  <2>3. CASE UNCHANGED <<driverVars, killVars>> /\ transfer = "idle"
    BY <2>3, QuietDriver
  <2> QED
    BY <1>7, <2>1, <2>2, <2>3
       DEF IsAborted, OfflineEscapes, TransferEscapes, Escapes, IsCancelled, TransferCancelled,
           Dropped
<1>8. CASE RadioRuns
  <2>1. UNCHANGED <<cmd, killVars>>
    BY <1>8, RadioSteps DEF LeftoversRun
  <2>2. CASE TxCheck \/ TxHandOver(cmd.length) \/ LateBuffer
    BY <2>1, <2>2 DEF HandsOver
  <2>3. CASE StartTx
    BY <2>1, <2>3 DEF StartTx, Rests, Turning, InFlight
  <2>9. CASE StartRx \/ RxCallback \/ RxDrain(cmd.length) \/ RxStopped(cmd.length)
    <3>1. ~Transmitting /\ ~Transmitting' /\ UNCHANGED <<in_flight, left, on_air>>
      BY <2>9 DEF StartRx, RxCallback, RxDrain, RxStopped
    <3> QED BY <2>1, <3>1, QuietDriver
  <2>4. CASE TxEnd(cmd.length)
    <3>0. sent \in Nat
      BY DEF HostTypes, TypeDriver
    <3>1. /\ transfer = "transmitting" /\ transfer' = "tx_flushing"
          /\ ~in_flight \/ sent >= cmd.length
          /\ ~in_flight' /\ "buffer" \notin left
          /\ UNCHANGED <<sent, on_air, left>>
      BY <2>4 DEF TxEnd, TxCallback, SentInv
    <3>2. cmd.length \in Nat
      BY <3>1, LengthIsNat
    <3>3. ~InFlight /\ ~InFlight'
      BY <2>1, <3>0, <3>1, <3>2 DEF InFlight
    <3> QED BY <2>1, <3>1, <3>3 DEF GivesUp, Turning
  <2>10. CASE TxRaises
    BY <2>1, <2>10 DEF TxRaises, GivesUp, Turning, InFlight, SentInv
  <2>5. CASE TxFlush
    BY <2>1, <2>5 DEF TxFlush, GivesUp, Turning, InFlight
  <2>6. CASE Unwind({})
    BY <2>1, <2>6, Unwound
  <2>7. CASE LateCallReturns
    BY <2>1, <2>7 DEF LateCallReturns, LateCalls, Rests, Turning, InFlight
  <2>8. CASE CutOff
    BY <2>1, <2>8 DEF CutOff, Rests, GivesUp, Turning, InFlight
  <2> QED
    BY <1>8, <2>2, <2>3, <2>4, <2>5, <2>6, <2>7, <2>8, <2>9, <2>10, RadioSteps
       DEF DeviceMoves, LateMoves
<1>9. CASE UNCHANGED hostVars
  BY <1>9 DEF hostVars, Rests, Turning, InFlight
<1> QED
  BY <1>1, <1>2, <1>3, <1>4, <1>5, <1>6, <1>7, <1>8, <1>9 DEF HostNext, Handles

(* With the stop event set no transfer is set up, and no buffer goes out   *)
(* but the one that its callback was filling already: the check at the     *)
(* head of each driver call and the callbacks' own look at the event leave *)
(* no window for another.                                                  *)
LEMMA StopSilences ==
  ASSUME HostTypes, CommandInv, SentInv, [HostNext]_hostVars, stop_event
  PROVE  FallsSilent
<1>1. OnlyInFlight
  <2>1. ~KeysUp
    BY DEF KeysUp, KeyUp, DispatchRadio
  <2>2. CASE HandsOver
    BY <2>2 DEF HandsOver, TxCheck, TxHandOver, LateBuffer, OnlyInFlight, InFlight, SentInv
  <2>3. CASE Silences \/ GivesUp \/ Rests
    BY <2>3 DEF Silences, GivesUp, Rests, OnlyInFlight
  <2> QED BY <2>1, <2>2, <2>3, RadioMoves
<1>2. transfer' \in SetUp => transfer' = transfer
  <2> USE DEF driverVars, txVars, rxVars, TxDone, RxDone, SetUp
  <2>1. CASE Receives \/ HostMoves
    BY <2>1 DEF Receives, Receive, HostMoves
  <2>2. CASE Proceed \/ Approve
    BY <2>2 DEF Proceed, Approve, Dispatch, DispatchFails, DispatchOffline, DispatchRadio
  <2>3. CASE ListActive \/ Refuse \/ AskOperator \/ Deny \/ OfflineDone
    BY <2>3 DEF ListActive, Refuse, AskOperator, Deny, OfflineDone
  <2>4. CASE TxReturns \/ RxKilled \/ NextSweep \/ RxReturns
    BY <2>4 DEF TxReturns, RxKilled, NextSweep, RxReturns
  <2>5. CASE IsAborted \/ IsCancelled
    BY <2>5, EndSteps DEF EndMoves, Unwind, Abandon
  <2>6. CASE RadioRuns
    <3>1. CASE LateMoves
      BY <3>1 DEF LateMoves, LateCallReturns, CutOff, LateBuffer
    <3>2. CASE DeviceMoves
      BY <3>2 DEF DeviceMoves, StartTx, TxCheck, TxHandOver, TxEnd, TxRaises, TxFlush,
                  StartRx, RxCallback
    <3>3. CASE RxDrain(cmd.length) \/ RxStopped(cmd.length) \/ Unwind({})
      BY <3>3 DEF RxDrain, RxStopped, Unwind
    <3> QED BY <2>6, <3>1, <3>2, <3>3, RadioSteps
  <2>7. CASE UNCHANGED hostVars
    BY <2>7 DEF hostVars
  <2> QED
    BY <2>1, <2>2, <2>3, <2>4, <2>5, <2>6, <2>7 DEF HostNext, Handles
<1> QED BY <1>1, <1>2 DEF FallsSilent

(* What does not transmit sends nothing, but the buffer that a cancelled   *)
(* transmission's callback was filling already.                            *)
LEMMA OnlyTransmittersTransmit ==
  ASSUME HostTypes, CommandInv, SentInv, [HostNext]_hostVars, ~Transmitting
  PROVE  OnlyInFlight
<1>1. ~in_flight
  BY DEF SentInv, Transmitting, TxStates
<1>2. CASE KeysUp
  BY <1>1, <1>2 DEF KeysUp, BeginTx, txVars, OnlyInFlight, InFlight
<1>3. CASE HandsOver
  BY <1>1, <1>3 DEF HandsOver, TxCheck, TxCallback, TxHandOver, LateBuffer, OnlyInFlight, InFlight,
                    Transmitting, TxStates
<1>4. CASE Silences \/ GivesUp \/ Rests
  BY <1>4 DEF Silences, GivesUp, Rests, OnlyInFlight
<1> QED BY <1>2, <1>3, <1>4, RadioMoves
-----------------------------------------------------------------------------
(* Every step of a host keys the radio, turns to a buffer, emits it,       *)
(* silences the radio, gives up what it was keyed for, raises or lowers    *)
(* the flag as the promise allows, or leaves them all alone.               *)
LEMMA PromiseStep == HostInv /\ [HostNext]_hostVars => [Promise!Next]_(Promise!vars)
<1> SUFFICES ASSUME HostInv, [HostNext]_hostVars
             PROVE  \/ Promise!Next
                    \/ UNCHANGED <<Transmitting, Allowance, InFlight, on_air, stop_event>>
  BY Zenon DEF Promise!vars
<1>1. HostTypes /\ CommandInv /\ SentInv /\ sent \in Nat /\ on_air \in Nat
  BY DEF HostInv, AirtimeInv, HostTypes, TypeDriver
<1>2. /\ stop_event \in BOOLEAN /\ stop_event' \in BOOLEAN
      /\ Transmitting \in BOOLEAN /\ InFlight \in BOOLEAN /\ InFlight' \in BOOLEAN
  <2>1. TypeKillSwitch /\ TypeKillSwitch'
    BY KillSwitchType DEF HostInv, HostTypes
  <2>2. Transmitting \in BOOLEAN /\ InFlight \in BOOLEAN /\ InFlight' \in BOOLEAN
    BY SMT DEF Transmitting, InFlight
  <2> QED BY <2>1, <2>2, Zenon DEF TypeKillSwitch
<1>3. CASE KeysUp
  <2>1. /\ ~Transmitting /\ ~stop_event /\ cmd \in Commands /\ cmd.valid
        /\ transfer = "idle" /\ transfer' = "tx_setup"
        /\ UNCHANGED <<cmd, sent, in_flight, left, on_air, stop_event>>
    BY <1>1, <1>3 DEF KeysUp, KeyUp, DispatchRadio, BeginTx, txVars, Transmitting, TxStates, Proceed,
                      Approve, CommandInv
  <2>2. cmd.length \in Nat /\ cmd.length > 0
    BY <2>1, CommandsAreCommands, LengthIsNat
  <2>3. sent = 0 /\ ~in_flight
    BY <1>1, <2>1 DEF SentInv
  <2>4. Allowance' \in Nat \ {0}
    BY <2>1, <2>2, <2>3 DEF Allowance
  <2>5. UNCHANGED InFlight
    BY <2>1, SMT DEF InFlight
  <2>6. Transmitting' = TRUE
    BY <2>1, SMT DEF Transmitting, TxStates
  <2> QED BY <2>1, <2>4, <2>5, <2>6, Zenon DEF Promise!Next, Promise!KeyUp
<1>4. CASE HandsOver /\ TxCheck
  <2>1. /\ transfer = "transmitting" /\ transfer' = transfer
        /\ ~in_flight /\ in_flight' /\ "buffer" \notin left /\ ~stop_event
        /\ UNCHANGED <<cmd, sent, left, on_air, stop_event>>
    BY <1>4 DEF HandsOver, TxCheck, TxCallback
  <2>2. cmd.length \in Nat
    BY <1>1, <2>1, LengthIsNat DEF CommandInv
  <2>3. UNCHANGED Transmitting /\ Transmitting
    BY <2>1, SMT DEF Transmitting, TxStates
  <2>4. CASE sent < cmd.length
    <3>1. Allowance > 0 /\ Allowance' = Allowance - 1
      BY <1>1, <2>1, <2>2, <2>4 DEF Allowance
    <3>2. ~InFlight /\ InFlight'
      BY <2>1, <2>4 DEF InFlight
    <3>3. InFlight' = TRUE
      BY <1>2, <3>2, Zenon
    <3> QED BY <2>1, <2>3, <3>1, <3>2, <3>3, Zenon DEF Promise!Next, Promise!Turn
  <2>5. CASE ~(sent < cmd.length)
    <3>1. UNCHANGED Allowance
      BY <2>1, <2>5 DEF Allowance
    <3>2. UNCHANGED InFlight
      BY <2>1, <2>5, SMT DEF InFlight
    <3> QED BY <2>1, <2>3, <3>1, <3>2, Zenon
  <2> QED BY <2>4, <2>5
<1>5. CASE HandsOver /\ TxHandOver(cmd.length)
  <2>1. /\ transfer \in {"transmitting", "tx_unwinding"} /\ transfer' = transfer
        /\ in_flight /\ ~in_flight' /\ "buffer" \notin left /\ sent < cmd.length
        /\ sent' = sent + 1 /\ on_air' = on_air + 1
        /\ UNCHANGED <<cmd, left, stop_event>>
    BY <1>1, <1>5 DEF HandsOver, TxHandOver, SentInv
  <2>2. cmd.length \in Nat
    BY <1>1, <2>1, LengthIsNat DEF CommandInv
  <2>3. UNCHANGED Transmitting
    BY <2>1, SMT DEF Transmitting, TxStates
  <2>4. UNCHANGED Allowance
    BY <1>1, <2>1, <2>2 DEF Allowance
  <2>5. InFlight /\ ~InFlight'
    BY <2>1 DEF InFlight
  <2>6. InFlight' = FALSE
    BY <1>2, <2>5, Zenon
  <2> QED BY <2>1, <2>3, <2>4, <2>5, <2>6, Zenon DEF Promise!Next, Promise!Emit
<1>6. CASE HandsOver /\ LateBuffer
  <2>1. /\ "buffer" \in left /\ "buffer" \notin left' /\ ~in_flight
        /\ on_air' \in {on_air, on_air + 1}
        /\ UNCHANGED <<cmd, transfer, sent, in_flight, stop_event>>
    BY <1>1, <1>6 DEF HandsOver, LateBuffer, SentInv
  <2>2. UNCHANGED Transmitting
    BY <2>1, SMT DEF Transmitting
  <2>3. UNCHANGED Allowance
    BY <2>1 DEF Allowance
  <2>4. InFlight /\ ~InFlight'
    BY <2>1 DEF InFlight
  <2>5. InFlight' = FALSE
    BY <1>2, <2>4, Zenon
  <2>6. CASE on_air' = on_air
    BY <2>1, <2>2, <2>3, <2>4, <2>5, <2>6, Zenon DEF Promise!Next, Promise!GiveUp
  <2>7. CASE on_air' = on_air + 1
    BY <2>1, <2>2, <2>3, <2>4, <2>5, <2>7, Zenon DEF Promise!Next, Promise!Emit
  <2> QED BY <2>1, <2>6, <2>7
<1>7. CASE Silences
  <2>1. Allowance' = 0
    BY <1>7 DEF Silences, Allowance
  <2>2. Transmitting' = FALSE
    BY <1>7, SMT DEF Silences, Transmitting, TxStates
  <2>3. UNCHANGED <<InFlight, on_air, stop_event>>
    BY <1>2, <1>7, Zenon DEF Silences
  <2>4. Transmitting
    BY <1>7 DEF Silences
  <2> QED BY <2>1, <2>2, <2>3, <2>4, Zenon DEF Promise!Next, Promise!KeyDown
<1>8. CASE GivesUp
  <2>1. Allowance' = 0
    BY <1>8 DEF GivesUp, Turning, Allowance
  <2>2. UNCHANGED Transmitting
    BY <1>8, SMT DEF GivesUp, Transmitting
  <2>3. UNCHANGED <<on_air, stop_event>>
    BY <1>8 DEF GivesUp
  <2>4. CASE InFlight' <=> InFlight
    <3>1. UNCHANGED InFlight
      BY <1>2, <2>4, Zenon
    <3> QED BY <2>1, <2>2, <2>3, <3>1, Zenon DEF Promise!Next, Promise!GiveUp
  <2>5. CASE ~Turning /\ ~InFlight' /\ InFlight
    <3>1. UNCHANGED Allowance
      BY <2>1, <2>5 DEF Turning, Allowance
    <3>2. InFlight' = FALSE
      BY <1>2, <2>5, Zenon
    <3> QED BY <2>2, <2>3, <2>5, <3>1, <3>2, Zenon DEF Promise!Next, Promise!GiveUp
  <2> QED BY <1>8, <2>4, <2>5, Zenon DEF GivesUp
<1>9. CASE Rests
  <2>1. UNCHANGED Allowance
    BY <1>9 DEF Rests, Turning, Allowance, Transmitting, TxStates
  <2>2. UNCHANGED Transmitting
    BY <1>9, SMT DEF Rests, Transmitting
  <2>3. UNCHANGED <<InFlight, on_air>>
    BY <1>2, <1>9, Zenon DEF Rests
  <2>4. CASE UNCHANGED stop_event
    BY <2>1, <2>2, <2>3, <2>4, Zenon
  <2>5. CASE ~stop_event /\ stop_event'
    <3>1. stop_event' = TRUE
      BY <1>2, <2>5, Zenon
    <3> QED BY <2>1, <2>2, <2>3, <2>5, <3>1, Zenon DEF Promise!Next, Promise!Stop
  <2>6. CASE stop_event /\ ~stop_event'
    <3>1. stop_event' = FALSE /\ ~Transmitting
      BY <1>2, <1>9, <2>6, Zenon DEF Rests, FlagMoves
    <3> QED BY <2>1, <2>2, <2>3, <2>6, <3>1, Zenon DEF Promise!Next, Promise!Resume
  <2>7. UNCHANGED stop_event \/ (~stop_event /\ stop_event') \/ (stop_event /\ ~stop_event')
    BY <1>2, Zenon
  <2> QED BY <2>4, <2>5, <2>6, <2>7, Zenon
<1>10. KeysUp \/ HandsOver \/ Silences \/ GivesUp \/ Rests
  BY <1>1, RadioMoves
<1> QED BY <1>3, <1>4, <1>5, <1>6, <1>7, <1>8, <1>9, <1>10 DEF HandsOver

LEMMA PromiseInitially == HostInit => Promise!Init
<1>1. HostInit => (Transmitting = FALSE) /\ Allowance = 0 /\ (InFlight = FALSE) /\ on_air = 0
  BY SMT DEF HostInit, InitDriver, Transmitting, TxStates, Allowance, InFlight
<1>2. HostInit => stop_event = FALSE
  BY Zenon DEF HostInit, InitKillSwitch
<1> QED BY <1>1, <1>2, Zenon DEF Promise!Init

(* Every host implements the safety part of the operator's promise: the    *)
(* radio is keyed, and turns to a buffer, only while the flag is down, and *)
(* only to what it was keyed for; at most the one buffer that its callback *)
(* was filling goes out after that, also when the transfer is cancelled    *)
(* twice over; the flag comes down only over a silent radio.               *)
THEOREM HostsKeepThePromise == HostSpec => TransmitSteps
  BY PromiseInitially, PromiseStep, HostInvariant, PTL DEF HostSpec, TransmitSteps

(* Every host transmits only off the blocked bands and only with the       *)
(* operator's approval, under auto_approve_medium, or on a grant whose     *)
(* stored row covered it: executor.py's funnel from list_active to the     *)
(* handler, against a table that changes between any two of its steps.     *)
THEOREM HostsAreAuthorised == HostSpec => []Authorised
<1>1. HostInv => Authorised
  BY DEF HostInv
<1> QED
  BY <1>1, HostInvariant, PTL

(* The accounts of tx_budget.py and capture_budget.py bound the session of *)
(* every host, though they are settled only after the fact.                *)
THEOREM HostsKeepBudgets == HostSpec => []SessionBudgetsHold
  BY AccountsBound, HostInvariant, PTL
=============================================================================
