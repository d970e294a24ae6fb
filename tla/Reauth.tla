------------------------------- MODULE Reauth -------------------------------
(***************************************************************************)
(* The re-auth window, daemon/src/reauth.rs: pure u64 arithmetic that      *)
(* saturates.  DAY_MS is 86_400_000 in the code.                           *)
(***************************************************************************)
EXTENDS Naturals

CONSTANTS DAY_MS, U64_MAX

ASSUME ReauthAssumption == DAY_MS \in Nat \ {0} /\ U64_MAX \in Nat

Saturate(n) == IF n > U64_MAX THEN U64_MAX ELSE n

Interval == {"Off", "OneDay", "SevenDays", "ThirtyDays"}

interval_to_days(interval) ==
    CASE interval = "Off" -> 0
      [] interval = "OneDay" -> 1
      [] interval = "SevenDays" -> 7
      [] interval = "ThirtyDays" -> 30

expires_at(last_auth, days) ==
    IF days = 0 THEN U64_MAX
    ELSE Saturate(last_auth + Saturate(days * DAY_MS))

\* Off by one: the window still counts as open when it expires.
evaluate_Late(now_ms, last_auth, days) ==
    IF days = 0 \/ now_ms <= expires_at(last_auth, days)
    THEN "Active" ELSE "NeedsReauth"

evaluate(now_ms, last_auth, days) ==
    IF days = 0 \/ now_ms < expires_at(last_auth, days)
    THEN "Active" ELSE "NeedsReauth"

block_state_change(state) == state = "NeedsReauth"
=============================================================================
