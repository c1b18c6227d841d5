--------------------------- MODULE GrantsTableMC ---------------------------
EXTENDS GrantsTable

Template(start, stop, max, ttl) ==
  [band_start_hz |-> start, band_stop_hz |-> stop, max_gain_db |-> max, ttl_seconds |-> ttl]

(* Two grants with different lifetimes, and one of each kind of request    *)
(* that grant() rejects.                                                   *)
MCTemplates == { Template(10, 20, 30, 1), Template(15, 30, 47, 2),
                 Template(20, 20, 30, 1), Template(10, 20, -1, 1),
                 Template(10, 20, 30, 0) }
=============================================================================
