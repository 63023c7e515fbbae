------------------------------- MODULE MCCourse -------------------------------
(***************************************************************************)
(* An instance of CaseCourse for TLC: a case that opens on Friday 10 July  *)
(* 2026.  The Saturday is the second of its month, so debits wait until    *)
(* Monday.  Policy and limits are those of config/policy.yaml and          *)
(* config/authority.yaml, but for the two amounts, in units of the bill.   *)
(***************************************************************************)
EXTENDS CaseCourse

July(day, hour) == fromIst(2026, 7, day, hour, 0)

MCHolidays == {[year |-> 2026, month |-> 9, day |-> 8]}

MCFestivals == {}

MCPolicy ==
  [start_hour |-> 9, end_hour |-> 20, min_prior_cases |-> 3, min_recovery_rate |-> 80,
   grace_days |-> 3, call_start_hour |-> 8, call_end_hour |-> 19, promo_start_hour |-> 10,
   promo_end_hour |-> 19, session_hours |-> 24, max_per_channel_24h |-> 1,
   max_per_case_7d |-> 3, max_per_customer_7d |-> 4, min_gap_hours |-> 24,
   notice_hours |-> 24, mandate_methods |-> {"card", "upi", "emandate", "nach"},
   max_attempts_30d |-> 12]

MCAuthority ==
  [dwell |-> <<0, 1, 3, 3, 5, 7>>, max_pct |-> 10, max_paise |-> 200000, max_days |-> 14,
   human_approval_required_above_paise |-> 10, auto_write_off_below_paise |-> 2,
   max_retries_per_case |-> 4, max_touches_per_case |-> 6, max_ptp_per_case |-> 2,
   grace_hours |-> 24, case_age_limit_days |-> 90, after_execute_hours |-> 6,
   after_wait_hours |-> 24]

Payer(arm) ==
  [arm |-> arm, isInvoice |-> FALSE, dnd |-> FALSE, deceased |-> FALSE,
   riskFlagged |-> FALSE, languagePref |-> "en", erasureRequestedAt |-> None,
   priorBillsSettled |-> 0, priorBillsPaid |-> 0, method |-> "upi", mandateCapPaise |-> 5]

\* One who asks on the second morning to be erased.
Leaving == [Payer("TREATMENT") EXCEPT !.erasureRequestedAt = July(11, 9)]

Course(person, class, failures, billed, ticks, n) ==
  [person |-> person, class |-> class, failures |-> failures, billed |-> billed,
   ticks |-> ticks, events |-> n]

MCCourses ==
  {Course(Payer("TREATMENT"), "FUNDS_TIMING", 1, 3,
          {July(10, 10), July(10, 20), July(11, 10), July(12, 10), July(13, 10), July(14, 10)}, 1),
   Course(Payer("TREATMENT"), "FUNDS_TIMING", 1, 3,
          {July(10, 10), July(11, 10), July(12, 10), July(13, 10)}, 2),
   Course(Payer("TREATMENT"), "FUNDS_TIMING", 3, 3,
          {July(10, 10), July(11, 10), July(12, 10), July(19, 10), July(20, 10), July(23, 10)}, 0),
   Course(Payer("TREATMENT"), "FUNDS_TIMING", 3, 11,
          {July(10, 10), July(11, 10), July(12, 10), July(19, 10), July(20, 10), July(23, 10)}, 1),
   Course(Leaving, "AUTH_DROPOFF", 1, 3, {July(10, 10), July(10, 20), July(11, 10)}, 1),
   Course(Payer("CONTROL"), "TRANSIENT_INFRA", 0, 3,
          {July(10, 10), July(11, 10), July(12, 10), July(13, 10)}, 1),
   Course(Payer("TREATMENT"), "INSTRUMENT_INVALID", 1, 11, {July(10, 10), July(10, 20), July(11, 10)}, 1)}

Consented(channel) ==
  [channel |-> channel, granted |-> TRUE, purpose |-> "payment_recovery", revokedAt |-> None,
   capturedAt |-> July(1, 10)]

MCConsents == {Consented(channel) : channel \in Channel}

Say(intent) == [intent |-> intent, days |-> None]

MCReplies == {Say("DISTRESS"), Say("DISPUTE"), Say("OTHER"), [intent |-> "PROMISE_TO_PAY", days |-> 2]}

=============================================================================
