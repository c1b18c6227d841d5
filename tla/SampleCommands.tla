--------------------------- MODULE SampleCommands ---------------------------
(***************************************************************************)
(* Commands and grants for TLC: one command of each kind that the funnel   *)
(* treats differently.                                                     *)
(***************************************************************************)
EXTENDS CommandExecutor

Keyfob == 4339200        \* 433.92 MHz, in the ISM table
Ham    == 4450000        \* 445 MHz, amateur
ADSB   == 10900000       \* 1090 MHz, blocked

Proposal(action) ==
  [action |-> action, center |-> None, target |-> None, gain |-> None, duration |-> None,
   start |-> None, end |-> None, dwell |-> None, ranges |-> None,
   length |-> 1, estimate |-> None, valid |-> TRUE]

Tx(freq, gain, length) ==
  [Proposal("transmit_iq") EXCEPT !.center = freq, !.gain = gain,
                                  !.length = length, !.estimate = length]

(* MEDIUM by the ISM table; HIGH, and with a sample rate that the estimate *)
(* does not understand; blocked; rejected by its handler.                  *)
KeyfobTx == Tx(Keyfob, 20, 2)
CoercedTx == [Tx(Ham, 40, 1) EXCEPT !.estimate = None]
BlockedTx == Tx(ADSB, 0, 1)
BadPathTx == [Tx(Keyfob, 20, 0) EXCEPT !.valid = FALSE]

Capture(duration, length) ==
  [Proposal("capture_iq") EXCEPT !.center = ADSB, !.duration = duration, !.length = length]

TwoSweeps ==
  [Proposal("sweep_spectrum_bulk") EXCEPT
     !.ranges = <<[start |-> 10, end |-> 20, booleans |-> {}],
                  [start |-> 30, end |-> 40, booleans |-> {}]>>]

Template(start, stop, max, ttl) ==
  [band_start_hz |-> start, band_stop_hz |-> stop, max_gain_db |-> max, ttl_seconds |-> ttl]

(* As wide as the radio, blocked bands included, and good for one tick.    *)
MCTemplates == { Template(10000, 60000000, 30, 1) }
=============================================================================
