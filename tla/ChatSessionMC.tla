--------------------------- MODULE ChatSessionMC ---------------------------
(***************************************************************************)
(* Small chat sessions for TLC.                                            *)
(***************************************************************************)
EXTENDS ChatSession, SampleCommands

MCTxCommands == {KeyfobTx, CoercedTx, BlockedTx}
MCMixedCommands == {Capture(60, 2), TwoSweeps, KeyfobTx, BadPathTx,
                    Proposal("grant_list")}

MCKeyfobOnly == {KeyfobTx}
-----------------------------------------------------------------------------
(***************************************************************************)
(* What the documents say and the code does not do.                        *)
(***************************************************************************)
(* docs/safety.md:259: "Cumulative transmit_iq on-air time in this session *)
(* is capped".  A transmission that is killed is never charged.            *)
OnAirWithinCap == MAX_TX_SECONDS # None => on_air <= MAX_TX_SECONDS
=============================================================================
