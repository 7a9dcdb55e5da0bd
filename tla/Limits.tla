------------------------------- MODULE Limits -------------------------------
(***************************************************************************)
(* How long a user has to wait before the API accepts the next request for *)
(* a mail or a code: the limiters of jibrel/core/limits.py.                *)
(*                                                                         *)
(* Times are instants of one clock.  A limiter reads the instants at which *)
(* earlier requests were recorded and says when the next one is welcome.   *)
(***************************************************************************)
EXTENDS Integers, FiniteSetsExt, Functions

(* The instant of something that has not happened.                         *)
Never == -1

(* is_throttled(): whether left_seconds, which is never negative, is       *)
(* positive.                                                               *)
LeftSeconds(next, now) == Max({next - now, 0})
IsThrottled(next, now) == LeftSeconds(next, now) > 0

(* The records of a table that lie in the window that ends now.            *)
InWindow(times, window, now) == {i \in DOMAIN times : times[i] >= now - window}
LastCall(times) == IF DOMAIN times = {} THEN Never ELSE Max(Range(times))

(* Variant: the limit is for the call after the last one allowed.          *)
NextEmailLate(times, now, count, window, pause) ==
  IF LastCall(times) = Never THEN now
  ELSE IF Cardinality(InWindow(times, window, now)) > count THEN LastCall(times) + window
  ELSE LastCall(times) + pause

(* ResendVerificationEmailLimiter.get_limit(): times are the tokens mailed. *)
NextEmail(times, now, count, window, pause) ==
  IF LastCall(times) = Never THEN now
  ELSE IF Cardinality(InWindow(times, window, now)) >= count THEN LastCall(times) + window
  ELSE LastCall(times) + pause

(* ResetPasswordLimiter.get_limit() counts over the lifetime of a token,   *)
(* but waits for another limit.                                            *)
NextReset(times, now, count, lifetime, window, pause) ==
  IF LastCall(times) = Never THEN now
  ELSE IF Cardinality(InWindow(times, lifetime, now)) >= count THEN LastCall(times) + window
  ELSE LastCall(times) + pause
=============================================================================
