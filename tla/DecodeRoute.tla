----------------------------- MODULE DecodeRoute -----------------------------
(***************************************************************************)
(* qr_decode.c: which scans of a frame are made, in which order, and what  *)
(* becomes of their outcome.  A call is either the guided route (proposals *)
(* from the candidates of the frame, then a throttled full scan) or the    *)
(* threshold route (two scans, three more after several misses).  quirc is *)
(* the environment here: it records any grids, and reading a grid yields   *)
(* any code.  What quirc does to its one image buffer is kept, because     *)
(* image and pixels are the same memory.                                   *)
(***************************************************************************)
EXTENDS Naturals, Sequences

CONSTANTS
  Frames,          \* contents of the image handed over
  MaxGrids,        \* grids a full scan records at most
  GuidedEarly,     \* QR_GUIDED_EARLY_DECODE
  FallbackEarly,   \* QR_FALLBACK_EARLY_DECODE
  RetryAfterMisses,\* QR_RETRY_AFTER_MISSES
  Cooldown         \* calls without a full scan after one

ASSUME DecodeRouteAssumption ==
  /\ Frames # {} /\ "none" \notin Frames /\ MaxGrids \in Nat /\ Cooldown \in Nat /\ RetryAfterMisses \in Nat \ {0}
  /\ GuidedEarly \in BOOLEAN /\ FallbackEarly \in BOOLEAN

VARIABLES
  ready,             \* g_quirc_initialized
  misses, cooldown,  \* g_qr_consecutive_miss, g_fallback_cooldown
  image, grids,      \* quirc: what its image buffer holds, the grids recorded
  route, frame,      \* the call under way
  plan, refined,     \* its scans, the current one first; already refined?
  pc, status, sawGrid, result, box,
  profile            \* g_profile

quircVars == <<image, grids>>
callVars == <<route, frame>>
vars == <<ready, misses, cooldown, quircVars, callVars, plan, refined,
          pc, status, sawGrid, result, box, profile>>

\* What quirc_decode makes of a grid: a payload at once, a payload when mirrored
\* after an ECC error, an ECC error both ways, an error that is not retried.
Code == {"payload", "mirrored", "damaged", "malformed"}
Decodable == {"payload", "mirrored"}

Primary == <<"original", "160">>
Robust == <<"96", "128", "192">>
NoImage == [of |-> "none", scan |-> "none", labelled |-> FALSE]
NoProfile == [scans |-> 0, guided |-> 0, guidedPass |-> 0, fallback |-> 0,
              fallbackPass |-> 0, skipped |-> 0]

Init ==
  /\ ready = FALSE /\ misses = 0 /\ cooldown = 0
  /\ image = NoImage /\ grids = <<>>
  /\ route = "none" /\ frame = "none" /\ plan = <<>> /\ refined = FALSE
  /\ pc = "idle" /\ status = "NOT_FOUND" /\ sawGrid = FALSE
  /\ result = "none" /\ box = "none" /\ profile = NoProfile
-----------------------------------------------------------------------------
(* qr_decode_init, quirc_new, quirc_resize, quirc_destroy.                  *)

Fresh == misses' = 0 /\ cooldown' = 0 /\ image' = NoImage /\ grids' = <<>>

\* There is nothing to do, or an allocation fails and what was allocated before is
\* given back, or the decoder is ready from now on.
Create ==
  \/ UNCHANGED <<ready, misses, cooldown, quircVars>>
  \/ ~ready /\ ready' = TRUE /\ Fresh

InitDecoder ==
  /\ pc = "idle" /\ Create
  /\ UNCHANGED <<callVars, plan, refined, pc, status, sawGrid, result, box, profile>>

Deinit ==
  /\ pc = "idle" /\ ready' = FALSE /\ Fresh /\ profile' = NoProfile
  /\ UNCHANGED <<callVars, plan, refined, pc, status, sawGrid, result, box>>

\* Mutant of Emptied: the caller's buffer keeps what the last frame left in it.
KeptResult == result
Emptied == "none"

\* Both routes start with an empty result, and fail when there is no decoder.
Call(r, f, scans) ==
  /\ pc = "idle" /\ Create
  /\ route' = r /\ frame' = f /\ profile' = NoProfile
  /\ result' = Emptied /\ sawGrid' = FALSE /\ refined' = FALSE
  /\ IF ready' THEN plan' = scans /\ pc' = "scan" /\ status' = "NOT_FOUND"
               ELSE plan' = <<>> /\ pc' = "idle" /\ status' = "FAIL"

\* qr_decode_frame leaves the caller's box alone.
CallFrame == \E f \in Frames : Call("frame", f, Primary) /\ UNCHANGED box

\* qr_decode_guided_frame: the geometry makes at most two proposals.
CallGuided ==
  \E f \in Frames, n \in 0..2 : Call("guided", f, [i \in 1..n |-> "roi"]) /\ box' = "none"
-----------------------------------------------------------------------------
(* One scan.                                                                *)

Full(scan) == scan # "roi"
Deferred(scan) ==   \* identification leaves the refinement for later
  route = "guided" /\ IF Full(scan) THEN FallbackEarly ELSE GuidedEarly

\* Mutant of Filled: the image is taken to be in the buffer still.
FilledOnce == IF image.of = frame THEN image
              ELSE [of |-> frame, scan |-> Head(plan), labelled |-> FALSE]
Filled == [of |-> frame, scan |-> Head(plan), labelled |-> FALSE]

\* quirc_begin and qr_fill_quirc_image.
Scan ==
  /\ pc = "scan" /\ plan # <<>>
  /\ image' = Filled /\ grids' = <<>>
  /\ profile' = [profile EXCEPT !.scans = @ + 1,
                                !.guided = IF Full(Head(plan)) THEN @ ELSE @ + 1]
  /\ refined' = ~Deferred(Head(plan)) /\ pc' = "identify"
  /\ UNCHANGED <<ready, misses, cooldown, callVars, plan, status, sawGrid, result, box>>

\* quirc_end_unseeded or quirc_end_seeded: the buffer now holds region codes.  A
\* seeded search records one grid at most.
Identify ==
  /\ pc = "identify"
  /\ \E n \in 0..(IF Full(Head(plan)) THEN MaxGrids ELSE 1) : grids' \in [1..n -> Code]
  /\ image' = [image EXCEPT !.labelled = TRUE]
  /\ pc' = "detect"
  /\ UNCHANGED <<ready, misses, cooldown, callVars, plan, refined, status, sawGrid,
                 result, box, profile>>

Detected ==
  IF grids = <<>> THEN "NOT_FOUND"
  ELSE IF \E i \in DOMAIN grids : grids[i] \in Decodable THEN "OK" ELSE "FAIL"

MustRefine == Detected # "OK" /\ ~refined /\ grids # <<>>

\* qr_decode_detected, qr_store_result.
Detect ==
  /\ pc = "detect" /\ status' = Detected
  /\ IF Detected = "OK" THEN result' = image.of /\ box' = image.of
                        ELSE UNCHANGED <<result, box>>
  /\ pc' = IF MustRefine THEN "refine" ELSE "scanned"
  /\ UNCHANGED <<ready, misses, cooldown, quircVars, callVars, plan, refined, sawGrid,
                 profile>>

\* quirc_refine_grid on every grid, then they are read once more.
Refine ==
  /\ pc = "refine" /\ refined' = TRUE /\ pc' = "detect"
  /\ grids' \in [DOMAIN grids -> Code]
  /\ UNCHANGED <<ready, misses, cooldown, image, callVars, plan, status, sawGrid,
                 result, box, profile>>
-----------------------------------------------------------------------------
(* Between the scans.                                                       *)

Saw == sawGrid \/ status = "FAIL"
Miss == IF Saw THEN "FAIL" ELSE "NOT_FOUND"

Return(st) == pc' = "idle" /\ status' = st /\ plan' = <<>>

\* A full scan that passes does not end the throttle.  Mutant: it does.
AnyRecovers(scan) == TRUE
Recovers(scan) == ~Full(scan)

PassOf(scan) == IF Full(scan) THEN "fallbackPass" ELSE "guidedPass"

Passed ==
  /\ pc = "scanned" /\ status = "OK" /\ Return("OK")
  /\ misses' = IF route = "frame" THEN 0 ELSE misses
  /\ cooldown' = IF route = "guided" /\ Recovers(Head(plan)) THEN 0 ELSE cooldown
  /\ profile' = IF route = "frame" THEN profile
                ELSE [profile EXCEPT ![PassOf(Head(plan))] = 1]
  /\ UNCHANGED <<ready, quircVars, callVars, refined, sawGrid, result, box>>

NextScan ==
  /\ pc = "scanned" /\ status # "OK" /\ Len(plan) > 1
  /\ plan' = Tail(plan) /\ pc' = "scan" /\ sawGrid' = Saw
  /\ UNCHANGED <<ready, misses, cooldown, quircVars, callVars, refined, status, result,
                 box, profile>>

\* Mutant of MissesAfter: the count goes on after the robust scans.
MissesOn(scan) == IF scan = "160" THEN misses + 1 ELSE misses
MissesAfter(scan) == IF scan = "160" THEN misses + 1 ELSE 0

\* The primary scans of a frame have missed; the robust ones follow when enough
\* frames in a row have, and start a new count when they miss as well.
FrameMissed ==
  /\ pc = "scanned" /\ status # "OK" /\ route = "frame" /\ Len(plan) = 1
  /\ sawGrid' = Saw
  /\ misses' = MissesAfter(Head(plan))
  /\ IF Head(plan) = "160" /\ misses' >= RetryAfterMisses
       THEN plan' = Robust /\ pc' = "scan" /\ UNCHANGED status
       ELSE Return(Miss)
  /\ UNCHANGED <<ready, cooldown, quircVars, callVars, refined, result, box, profile>>

\* The proposals are used up: one full scan, or none while the throttle counts.
GuidedMissed ==
  /\ route = "guided"
  /\ \/ pc = "scan" /\ plan = <<>>
     \/ pc = "scanned" /\ status # "OK" /\ Len(plan) = 1 /\ ~Full(Head(plan))
  /\ sawGrid' = Saw
  /\ IF cooldown > 0
       THEN /\ cooldown' = cooldown - 1 /\ Return(Miss)
            /\ profile' = [profile EXCEPT !.skipped = 1]
       ELSE /\ cooldown' = Cooldown /\ plan' = <<"original">> /\ pc' = "scan"
            /\ profile' = [profile EXCEPT !.fallback = 1] /\ UNCHANGED status
  /\ UNCHANGED <<ready, misses, quircVars, callVars, refined, result, box>>

FallbackMissed ==
  /\ pc = "scanned" /\ status # "OK" /\ route = "guided" /\ Full(Head(plan))
  /\ Return(Miss) /\ sawGrid' = Saw
  /\ UNCHANGED <<ready, misses, cooldown, quircVars, callVars, refined, result, box,
                 profile>>

Step ==
  \/ Scan \/ Identify \/ Detect \/ Refine
  \/ Passed \/ NextScan \/ FrameMissed \/ GuidedMissed \/ FallbackMissed

Next ==
  \/ InitDecoder \/ Deinit \/ CallFrame \/ CallGuided \/ Step

RouteSpec == Init /\ [][Next]_vars
-----------------------------------------------------------------------------
\* The types of the decoder's variables, of the library's and of the call's.
ScanName == {"original", "160", "96", "128", "192", "roi"}
ProfileType == [scans : Nat, guided : Nat, guidedPass : Nat, fallback : Nat,
                fallbackPass : Nat, skipped : Nat]
RouteTypeOK ==
  /\ ready \in BOOLEAN /\ misses \in 0..RetryAfterMisses /\ cooldown \in 0..Cooldown
  /\ image \in [of : Frames \cup {"none"}, scan : ScanName \cup {"none"}, labelled : BOOLEAN]
  /\ grids \in Seq(Code)
  /\ route \in {"none", "frame", "guided"} /\ frame \in Frames \cup {"none"}
  /\ refined \in BOOLEAN /\ sawGrid \in BOOLEAN
  /\ pc \in {"idle", "scan", "identify", "detect", "refine", "scanned"}
  /\ status \in {"OK", "NOT_FOUND", "FAIL"}
  /\ result \in Frames \cup {"none"} /\ box \in Frames \cup {"none"}
  /\ profile \in ProfileType

\* quirc works in place: whatever is identified, refined or read belongs to the image
\* of this call, filled anew for this very scan.
FreshImage ==
  /\ pc = "identify" => image = [of |-> frame, scan |-> Head(plan), labelled |-> FALSE]
  /\ pc \in {"detect", "refine", "scanned"} =>
       image = [of |-> frame, scan |-> Head(plan), labelled |-> TRUE]

\* A call returns OK with the payload and the corners of its own frame, or it does
\* not return OK and leaves the result empty; nothing of an earlier frame is left.
ResultOfFrame ==
  pc = "idle" =>
    /\ (status = "OK") = (result # "none")
    /\ status = "OK" => result = frame /\ box = frame
    /\ status # "OK" /\ route = "guided" => box = "none"

\* The work of one call is bounded, and the costly scans are not made for every
\* frame that misses.
WorkBounded ==
  /\ profile.scans <= IF route = "frame" THEN 5 ELSE 3
  /\ pc = "idle" => misses < RetryAfterMisses

\* The profile that the window statistics add up tells what happened in the call: each
\* scan has its reason, each pass its scan, and a guided miss either searched the
\* full image or says that it did not.
ProfileTruthful ==
  pc = "idle" /\ route = "guided" /\ profile # NoProfile =>
    /\ profile.scans = profile.guided + profile.fallback
    /\ (status = "OK") = (profile.guidedPass + profile.fallbackPass = 1)
    /\ profile.fallbackPass <= profile.fallback
    /\ profile.guidedPass + profile.fallback + profile.skipped = 1
=============================================================================
