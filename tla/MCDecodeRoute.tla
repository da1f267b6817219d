---------------------------- MODULE MCDecodeRoute ----------------------------
(* DecodeRoute with a history of the guided route.                          *)
EXTENDS DecodeRoute

VARIABLE quiet   \* guided misses without a full scan since the last one; as many as
                 \* it takes when none is held against the next call

HInit == Init /\ quiet = Cooldown

HNext ==
  /\ Next
  /\ quiet' =
       IF profile'.fallback > profile.fallback THEN 0
       ELSE IF profile'.skipped > profile.skipped THEN quiet + 1
       ELSE IF profile'.guidedPass > profile.guidedPass \/ Deinit \/ (~ready /\ ready')
         THEN Cooldown
       ELSE quiet

HSpec == HInit /\ [][HNext]_<<vars, quiet>>

\* "One full scan on the first miss, then at most once per six calls until the guided
\* route recovers" (qr_decode.c): the full scan waits for Cooldown misses after the
\* last one, and no longer.
Throttled ==
  [][/\ profile'.fallback > profile.fallback => quiet = Cooldown
     /\ profile'.skipped > profile.skipped => quiet < Cooldown]_<<vars, quiet>>
=============================================================================
