----------------------------- MODULE GrantsTable -----------------------------
(***************************************************************************)
(* The permission service on its own: any sequence of grants, revocations  *)
(* and sweeps, as time passes.  swept is auxiliary: revoke_all_tx has run  *)
(* and nothing was granted since.                                          *)
(***************************************************************************)
EXTENDS PermissionService

VARIABLE swept
tableVars == <<grants, clock, swept>>

TableInit == InitPermissions /\ swept = FALSE

TableNext ==
  \/ /\ \E i \in GrantIds, t \in GrantTemplates : GrantTx(i, t)
     /\ swept' = FALSE
  \/ (\E g \in grants : Revoke(g)) /\ UNCHANGED swept
  \/ RevokeAllTx /\ swept' = TRUE
  \/ Tick /\ UNCHANGED swept

TableSpec == TableInit /\ [][TableNext]_tableVars

TableTypeOK == TypePermissions /\ swept \in BOOLEAN

(* "Idempotent - a second call after the first returns 0": once the kill   *)
(* switch has swept the table nothing is active until the next grant,      *)
(* whatever else happens to the table and however time passes.             *)
SweptMeansNothingActive == swept => ActiveAt(clock) = {}

(* A grant that has stopped being active, by expiry or revocation, never   *)
(* comes back, and no row is ever changed but to stamp revoked_at once.    *)
NothingRevives ==
  [][ \A g \in grants :
        \E h \in grants' :
          /\ h.id = g.id
          /\ KeptOrStamped(g, h)
          /\ IsActive(h, clock') => IsActive(g, clock) ]_tableVars
=============================================================================
