------------------------------- MODULE Models -------------------------------
(***************************************************************************)
(* The data the safety funnel passes around (domain/models.py): actions,   *)
(* risk levels, the RiskAssessment verdict and the Grant row.              *)
(*                                                                         *)
(* Frequencies are natural numbers in units of 100 Hz (TLC's integers have *)
(* 32 bits; every band edge of the policy tables is a multiple of 100 Hz), *)
(* durations are in tenths of a second, gains in dB, times in clock ticks. *)
(***************************************************************************)
EXTENDS Integers, FiniteSets

CONSTANT None        \* Python's None: an absent argument or a NULL column

ASSUME NoneIsNoNumber == None \notin Int

(* Ordered from harmless to refused; Rank is the position in that order.   *)
RiskLevels == {"LOW", "MEDIUM", "HIGH", "BLOCKED"}

Rank(level) ==
  CASE level = "LOW"    -> 0
    [] level = "MEDIUM" -> 1
    [] level = "HIGH"   -> 2
    [] OTHER            -> 3

(* The actions that never reach the radio, by the lists of the assessor.   *)
AdminActions == {"get_device_info", "grant_list", "audit_query",
                 "read_iq_summary", "play_sequence"}

KnowledgeActions ==
  {"knowledge_list_topics", "knowledge_read", "knowledge_search",
   "knowledge_lookup_band", "knowledge_lookup_modulation",
   "knowledge_lookup_protocol", "knowledge_lookup_keyfob",
   "knowledge_lookup_decoder", "knowledge_bibliography", "knowledge_random",
   "knowledge_explain_signal", "knowledge_cross_reference",
   "knowledge_verify_claim"}

AnalysisActions ==
  {"analyze_iq_modulation", "analyze_iq_symbols", "analyze_iq_spectrogram",
   "analyze_iq_carrier_frequency", "decode_manchester", "decode_pwm",
   "decode_ppm", "decode_nrz", "decode_pocsag", "decode_ads_b",
   "decode_rtty", "decode_ax25", "decode_aprs"}

RadioActions == {"sweep_spectrum", "sweep_spectrum_bulk", "capture_iq",
                 "transmit_iq"}

CommandAction ==
  AdminActions \cup KnowledgeActions \cup AnalysisActions \cup RadioActions

(* RiskAssessment: a tier, and whether the operator must be asked.         *)
Verdict(level, confirm) == [level |-> level, requires_confirmation |-> confirm]

RiskAssessment == [level : RiskLevels, requires_confirmation : BOOLEAN]

(* A row of the grants table; revoked_at is NULL until it is revoked.      *)
Grant == [id : Nat, band_start_hz : Nat, band_stop_hz : Nat, max_gain_db : Nat,
          granted_at : Nat, expires_at : Nat, revoked_at : Nat \cup {None}]

IsActive(g, now) == g.revoked_at = None /\ now < g.expires_at

CoversFrequency(g, freq) == g.band_start_hz <= freq /\ freq <= g.band_stop_hz

(* A mutant: the rows that were read are taken to be active still. *)
CoversTransmission_Unchecked(g, freq, gain, now) ==
  /\ CoversFrequency(g, freq)
  /\ gain <= g.max_gain_db

CoversTransmission(g, freq, gain, now) ==
  /\ IsActive(g, now)
  /\ CoversFrequency(g, freq)
  /\ gain <= g.max_gain_db
=============================================================================
