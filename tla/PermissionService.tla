------------------------- MODULE PermissionService -------------------------
(***************************************************************************)
(* domain/permission_service.py: the grants table of agent.db, written by  *)
(* the operator's terminal (grant, revoke) and by the kill switch          *)
(* (revoke_all_tx), read by every executor.  Rows are never deleted; the   *)
(* TTL is enforced only when the table is read, against the wall clock.    *)
(*                                                                         *)
(* Every method opens its own connection, so each is one transaction.  All *)
(* grants have kind "tx", the only kind the Grant model admits.            *)
(***************************************************************************)
EXTENDS Models

CONSTANTS GrantTemplates, \* the [band_start_hz, band_stop_hz, max_gain_db,
                          \* ttl_seconds] an operator may ask for
          GrantIds,       \* the uuid4 values drawn; bounds the rows
          MaxClock,       \* bound: clock ticks
          MaxLag          \* bound: ticks from reading the clock to the commit

ASSUME TemplatesAreArguments ==
  GrantTemplates \subseteq [band_start_hz : Nat, band_stop_hz : Nat,
                            max_gain_db : Int, ttl_seconds : Int]
ASSUME GrantIdsAreNumbers == GrantIds \subseteq Nat
ASSUME MaxClockIsNumber == MaxClock \in Nat
ASSUME MaxLagIsNumber == MaxLag \in Nat

VARIABLES grants, clock
permVars == <<grants, clock>>

TypePermissions ==
  /\ grants \subseteq Grant
  /\ clock \in Nat

InitPermissions == grants = {} /\ clock = 0

(* The clock is read first, then the connection is opened and the row      *)
(* written: what is committed now may be stamped with an earlier time.     *)
Stamps == {t \in 0..clock : clock - t <= MaxLag}

NewRow(i, t, now) ==
  [id |-> i, band_start_hz |-> t.band_start_hz,
   band_stop_hz |-> t.band_stop_hz, max_gain_db |-> t.max_gain_db,
   granted_at |-> now, expires_at |-> now + t.ttl_seconds, revoked_at |-> None]

(* grant(): a ValueError leaves the table alone.  The band is not compared *)
(* with the blocked bands.                                                 *)
GrantTx(i, t) ==
  /\ \A g \in grants : g.id # i
  /\ t.band_start_hz < t.band_stop_hz
  /\ t.max_gain_db >= 0
  /\ t.ttl_seconds > 0
  /\ \E now \in Stamps : grants' = grants \cup {NewRow(i, t, now)}
  /\ UNCHANGED clock

(* The rows that the WHERE clause of list_active selects at time now.      *)
ActiveAt(now) == {g \in grants : g.revoked_at = None /\ g.expires_at > now}

(* A mutant: revoking again moves revoked_at forward (no IS NULL guard). *)
Revoke_Again(g) ==
  /\ g \in grants
  /\ \E now \in Stamps : grants' = (grants \ {g}) \cup {[g EXCEPT !.revoked_at = now]}
  /\ UNCHANGED clock

(* revoke(): updates a row at most once, returns whether it did.           *)
Revoke(g) ==
  /\ g \in grants
  /\ g.revoked_at = None
  /\ \E now \in Stamps : grants' = (grants \ {g}) \cup {[g EXCEPT !.revoked_at = now]}
  /\ UNCHANGED clock

(* A mutant: the grants issued after the clock was read are left alone. *)
RevokeAllTx_Missing ==
  /\ \E now \in Stamps :
       grants' = {IF g \in ActiveAt(now) /\ g.granted_at <= now
                  THEN [g EXCEPT !.revoked_at = now] ELSE g : g \in grants}
  /\ UNCHANGED clock

(* revoke_all_tx(): the kill switch's update of every row that was active  *)
(* when the clock was read, or was granted since.                          *)
RevokeAllTx ==
  /\ \E now \in Stamps :
       grants' = {IF g \in ActiveAt(now) THEN [g EXCEPT !.revoked_at = now] ELSE g
                  : g \in grants}
  /\ UNCHANGED clock

Tick ==
  /\ clock < MaxClock
  /\ clock' = clock + 1
  /\ UNCHANGED grants

(* What one step may do to a row: nothing, or stamp it as revoked, once.   *)
KeptOrStamped(g, h) ==
  h = g \/ (g.revoked_at = None /\ \E now \in Stamps : h = [g EXCEPT !.revoked_at = now])

RowsPersist == \A g \in grants : \E h \in grants' : KeptOrStamped(g, h)
=============================================================================
