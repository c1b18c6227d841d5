---------------------------- MODULE HackrfDriver ----------------------------
(***************************************************************************)
(* hw/hackrf_driver.py: one transfer at a time between the event loop and  *)
(* libhackrf's USB thread, which calls back once per buffer.  Each step is *)
(* what happens between two suspensions of the coroutine, or one callback; *)
(* IQ is counted in buffers.  The callbacks' side (start, stop, flush) is  *)
(* modelled from how this driver uses python_hackrf.                       *)
(***************************************************************************)
EXTENDS KillSwitch

CONSTANT MaxQueued        \* bound: IQ chunks waiting in the RX queue

ASSUME MaxQueuedIsPositive == MaxQueued \in Nat \ {0}

VARIABLES transfer,       \* where the coroutine, or its stream, is
          sent,           \* buffers the TX callback has filled and handed over
          in_flight,      \* a TX callback has passed its check of the stop event
          received,       \* buffers drained from the RX queue
          queued,         \* buffers waiting in it
          sentinel,       \* the RX callback's None waits behind them
          left,           \* what cancelled transfers have left behind on threads
          on_air          \* auxiliary: buffers ever handed over
txVars == <<sent, in_flight, on_air>>
rxVars == <<received, queued, sentinel>>
driverVars == <<transfer, txVars, rxVars, left>>

(* "stalled": the stream is cut off, and no callback will come;            *)
(* "unwinding": the finally clause awaits its stop.                        *)
TxStates == {"tx_setup", "transmitting", "tx_stalled", "tx_flushing", "tx_stopping",
             "tx_unwinding"}
RxStates == {"rx_setup", "receiving", "rx_stalled", "rx_stopping", "rx_unwinding",
             "storing"}
SetUp == {"tx_setup", "rx_setup"}
Streaming == {"transmitting", "tx_stalled", "tx_flushing", "receiving", "rx_stalled"}
Stopping == {"tx_stopping", "rx_stopping", "tx_unwinding", "rx_unwinding"}
Unwinding == {"tx_unwinding", "rx_unwinding"}

(* Device calls that go on with nobody waiting for them, and a buffer that *)
(* its callback is still filling.                                          *)
LateCalls == {"set_up", "start", "stop"}
Leftovers == LateCalls \cup {"buffer"}

TypeDriver ==
  /\ transfer \in {"idle"} \cup TxStates \cup RxStates
  /\ sent \in Nat
  /\ in_flight \in BOOLEAN
  /\ received \in Nat
  /\ queued \in Nat
  /\ sentinel \in BOOLEAN
  /\ left \subseteq Leftovers
  /\ on_air \in Nat

InitDriver ==
  /\ transfer = "idle"
  /\ sent = 0 /\ in_flight = FALSE
  /\ received = 0 /\ queued = 0 /\ sentinel = FALSE
  /\ left = {}
  /\ on_air = 0

(* _tx_from_file: open, configure and register, all on worker threads; the *)
(* event is not consulted again until the first callback.                  *)
BeginTx ==
  /\ transfer = "idle"
  /\ transfer' = "tx_setup"
  /\ UNCHANGED <<txVars, rxVars, left>>

(* The stream is on; start_tx has still to come back.                      *)
StartTx ==
  /\ transfer = "tx_setup"
  /\ transfer' = "transmitting"
  /\ UNCHANGED <<txVars, rxVars, left>>

(* The USB thread is one: a callback comes when the last has returned.     *)
TxCallback == transfer = "transmitting" /\ ~in_flight /\ "buffer" \notin left

(* A mutant: the callback does not look at the stop event. *)
TxCheck_Deaf ==
  /\ TxCallback
  /\ in_flight' = TRUE
  /\ UNCHANGED <<transfer, sent, on_air, rxVars, left>>

(* tx_callback finds the event down, and goes on to read the file.         *)
TxCheck ==
  /\ TxCallback
  /\ ~stop_event
  /\ in_flight' = TRUE
  /\ UNCHANGED <<transfer, sent, on_air, rxVars, left>>

(* It returns 0: a buffer goes out, whatever has happened to the event.    *)
TxHandOver(length) ==
  /\ in_flight
  /\ sent < length
  /\ sent' = sent + 1
  /\ on_air' = on_air + 1
  /\ in_flight' = FALSE
  /\ UNCHANGED <<transfer, rxVars, left>>

(* A mutant: the callback never reports the end of the file. *)
TxEnd_NoEOF(length) ==
  /\ TxCallback /\ stop_event
  /\ transfer' = "tx_flushing"
  /\ UNCHANGED <<txVars, rxVars, left>>

(* It returns -1: the event is up at the check, or the read finds the end. *)
TxEnd(length) ==
  /\ \/ TxCallback /\ stop_event
     \/ transfer = "transmitting" /\ in_flight /\ sent >= length
  /\ transfer' = "tx_flushing"
  /\ in_flight' = FALSE
  /\ UNCHANGED <<sent, on_air, rxVars, left>>

(* It raises: the file was closed under it.                                *)
TxRaises ==
  /\ transfer = "tx_unwinding" /\ in_flight
  /\ in_flight' = FALSE
  /\ UNCHANGED <<transfer, sent, on_air, rxVars, left>>

(* tx_flush_callback: done_event is set, and the finally clause runs,      *)
(* whether or not the flush reports that everything went out.              *)
TxFlush ==
  /\ transfer = "tx_flushing"
  /\ transfer' = "tx_stopping"
  /\ UNCHANGED <<txVars, rxVars, left>>

(* stop_tx has returned.                                                   *)
TxDone ==
  /\ transfer = "tx_stopping"
  /\ transfer' = "idle"
  /\ sent' = 0
  /\ UNCHANGED <<in_flight, on_air, rxVars, left>>

BeginRx ==
  /\ transfer \in {"idle", "storing"}
  /\ transfer' = "rx_setup"
  /\ received' = 0 /\ queued' = 0 /\ sentinel' = FALSE
  /\ UNCHANGED <<txVars, left>>

StartRx ==
  /\ transfer = "rx_setup"
  /\ transfer' = "receiving"
  /\ UNCHANGED <<txVars, rxVars, left>>

(* rx_callback: a copy of the buffer, or None once the stop event is set.  *)
RxCallback ==
  /\ transfer \in {"receiving", "rx_unwinding"}
  /\ ~sentinel
  /\ \/ /\ stop_event
        /\ sentinel' = TRUE
        /\ UNCHANGED queued
     \/ /\ ~stop_event
        /\ queued < MaxQueued
        /\ queued' = queued + 1
        /\ UNCHANGED sentinel
  /\ UNCHANGED <<transfer, received, txVars, left>>

(* A mutant: the drain waits on when it should see the sentinel. *)
RxDrain_NoSentinel(length) ==
  /\ transfer \in {"receiving", "rx_stalled"}
  /\ queued > 0
  /\ queued' = queued - 1
  /\ received' = received + 1
  /\ transfer' = IF received + 1 >= length THEN "rx_stopping" ELSE transfer
  /\ UNCHANGED <<sentinel, txVars, left>>

(* One chunk taken from the queue; None ends the drain with an exception,  *)
(* which only a capture that is still short of IQ ever gets to see.        *)
RxDrain(length) ==
  /\ transfer \in {"receiving", "rx_stalled"}
  /\ IF queued > 0
     THEN /\ queued' = queued - 1
          /\ received' = received + 1
          /\ transfer' = IF received + 1 >= length THEN "rx_stopping" ELSE transfer
     ELSE /\ sentinel
          /\ transfer' = "rx_stopping"
          /\ UNCHANGED <<queued, received>>
  /\ UNCHANGED <<sentinel, txVars, left>>

(* stop_rx with all the IQ in hand: on to the file or the FFT, on a thread. *)
RxStopped(length) ==
  /\ transfer = "rx_stopping"
  /\ received >= length
  /\ transfer' = "storing"
  /\ UNCHANGED <<txVars, rxVars, left>>

RxDone ==
  /\ transfer \in {"rx_stopping", "storing"}
  /\ transfer' = "idle"
  /\ received' = 0 /\ queued' = 0 /\ sentinel' = FALSE
  /\ UNCHANGED <<txVars, left>>
-----------------------------------------------------------------------------
(* An exception, or a cancellation, inside the try: the file is closed and *)
(* the stop awaited.  A cancellation does not stop the call it interrupts, *)
(* unless no thread has taken it up: late is what goes on.                 *)
Unwind(late) ==
  /\ \/ transfer = "tx_setup" /\ late \in {{}, {"set_up"}, {"start"}}
     \/ transfer = "rx_setup" /\ late \in {{}, {"start"}}
     \/ transfer \in Streaming /\ late = {}
  /\ transfer' = IF transfer \in TxStates THEN "tx_unwinding" ELSE "rx_unwinding"
  /\ left' = left \cup late
  /\ UNCHANGED <<txVars, rxVars>>

(* The coroutine is gone: it was outside of the try, its stop has come     *)
(* back, or a cancellation at that await goes past the "except Exception"  *)
(* and leaves the stop, and the callback, to their threads.                *)
Abandon(late, length) ==
  /\ \/ transfer \in {"tx_setup", "storing"} /\ late = {}
     \/ transfer = "rx_setup" /\ late \in {{}, {"set_up"}}
     \/ transfer \in Stopping /\ late \in {{}, {"stop"}}
  /\ transfer' = "idle"
  /\ left' = left \cup late \cup (IF in_flight /\ sent < length THEN {"buffer"} ELSE {})
  /\ in_flight' = FALSE
  /\ sent' = 0
  /\ received' = 0 /\ queued' = 0 /\ sentinel' = FALSE
  /\ UNCHANGED on_air

LateCallReturns ==
  /\ \E c \in left \cap LateCalls : left' = left \ {c}
  /\ UNCHANGED <<transfer, txVars, rxVars>>

(* A stop that was left behind meets the stream of another transfer, which *)
(* may or may not be told by a flush; a set-up takes its callbacks away.   *)
CutOff ==
  /\ left \cap {"stop", "set_up"} # {} /\ ~in_flight
  /\ \/ transfer \in {"transmitting", "tx_flushing"}
        /\ transfer' \in {"tx_flushing", "tx_stalled"}
     \/ transfer = "receiving" /\ transfer' = "rx_stalled"
  /\ UNCHANGED <<txVars, rxVars, left>>

(* A mutant: the file is still open, and the callbacks go on with it. *)
LateBuffer_OpenFile ==
  /\ "buffer" \in left
  /\ on_air' = on_air + 1
  /\ UNCHANGED <<transfer, sent, in_flight, rxVars, left>>

(* The callback that was left behind hands its buffer over, or finds the   *)
(* file closed.                                                            *)
LateBuffer ==
  /\ "buffer" \in left
  /\ left' = left \ {"buffer"}
  /\ on_air' \in {on_air, on_air + 1}
  /\ UNCHANGED <<transfer, sent, in_flight, rxVars>>
=============================================================================
