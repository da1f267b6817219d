------------------------- MODULE DecodeRouteProofs -------------------------
(***************************************************************************)
(* The routing of the decoder for any images, any number of grids and any  *)
(* thresholds.  RouteInv follows a call through its scans: what is left of *)
(* the plan says which scans have been made (Progress), and until a scan   *)
(* succeeds there is no result (Outcome).  The throttle of the full scans  *)
(* is proved with the history "quiet" of MCDecodeRoute: CountInv relates   *)
(* it to the decoder's cooldown.                                           *)
(***************************************************************************)
EXTENDS MCDecodeRoute, TLAPS

USE DecodeRouteAssumption

\* The plans of the two routes: what is left of a list of scans.
FramePlan == {Primary, <<"160">>, Robust, <<"128", "192">>, <<"192">>}
GuidedPlan == {<<>>, <<"roi">>, <<"roi", "roi">>, <<"original">>}

\* The scans of a frame call that come before the first of "p".
ScansBefore(p) == CASE p = Primary -> 0 [] p = <<"160">> -> 1 [] p = Robust -> 2
                    [] p = <<"128", "192">> -> 3 [] OTHER -> 4

\* The scan the plan begins with has been made, and counted.
Scanning == pc \in {"identify", "detect", "refine", "scanned"}

\* The plan left belongs to the route and tells how far the call has come.
Progress ==
  /\ misses = RetryAfterMisses => pc # "idle" /\ plan \notin {Primary, <<"160">>}
                                  /\ route = "frame"
  /\ pc # "idle" /\ route = "frame" =>
       /\ plan \in FramePlan
       /\ profile.scans = ScansBefore(plan) + (IF Scanning THEN 1 ELSE 0)
  /\ pc # "idle" /\ route # "frame" =>
       /\ route = "guided" /\ plan \in GuidedPlan
       /\ profile.scans <= (IF plan = <<"roi", "roi">> THEN 0
                            ELSE IF plan = <<"original">> THEN 2 ELSE 1)
                           + (IF Scanning THEN 1 ELSE 0)
       /\ profile.scans = profile.guided + (IF plan = <<"original">> /\ Scanning THEN 1 ELSE 0)
       /\ profile.fallback = (IF plan = <<"original">> THEN 1 ELSE 0)
       /\ profile.guidedPass = 0 /\ profile.fallbackPass = 0 /\ profile.skipped = 0
  /\ Scanning => plan # <<>>
  /\ pc = "idle" => profile.scans <= IF route = "frame" THEN 5 ELSE 3

\* There is a result if and only if the scan looked at last succeeded.
Found == pc \in {"scanned", "idle"} /\ status = "OK"
Outcome ==
  /\ pc # "idle" => frame \in Frames
  /\ Found => result = frame /\ box = frame /\ frame \in Frames
  /\ ~Found => result = "none" /\ (route = "guided" => box = "none")

RouteInv == RouteTypeOK /\ Progress /\ FreshImage /\ Outcome /\ ProfileTruthful

-----------------------------------------------------------------------------
\* The plans of a frame, scan by scan.
LEMMA FramePlans ==
  /\ Primary \in FramePlan /\ <<"160">> \in FramePlan /\ Robust \in FramePlan
  /\ <<"128", "192">> \in FramePlan /\ <<"192">> \in FramePlan
  /\ ScansBefore(Primary) = 0 /\ ScansBefore(<<"160">>) = 1 /\ ScansBefore(Robust) = 2
  /\ ScansBefore(<<"128", "192">>) = 3 /\ ScansBefore(<<"192">>) = 4
  /\ Primary # <<>> /\ Head(Primary) = "original" /\ Len(Primary) = 2 /\ Tail(Primary) = <<"160">>
  /\ <<"160">> # <<>> /\ Head(<<"160">>) = "160" /\ Len(<<"160">>) = 1
  /\ Robust # <<>> /\ Head(Robust) = "96" /\ Len(Robust) = 3 /\ Tail(Robust) = <<"128", "192">>
  /\ <<"128", "192">> # <<>> /\ Head(<<"128", "192">>) = "128" /\ Len(<<"128", "192">>) = 2
  /\ Tail(<<"128", "192">>) = <<"192">>
  /\ <<"192">> # <<>> /\ Head(<<"192">>) = "192" /\ Len(<<"192">>) = 1
BY DEF Primary, Robust, FramePlan, ScansBefore

\* The plans of the guided route.
LEMMA GuidedPlans ==
  /\ \A n \in 0..2 : [i \in 1..n |-> "roi"] \in GuidedPlan \ {<<"original">>}
  /\ <<"roi">> # <<>> /\ Head(<<"roi">>) = "roi" /\ Len(<<"roi">>) = 1
  /\ <<"roi", "roi">> # <<>> /\ Head(<<"roi", "roi">>) = "roi" /\ Len(<<"roi", "roi">>) = 2
  /\ Tail(<<"roi", "roi">>) = <<"roi">>
  /\ <<"original">> # <<>> /\ Head(<<"original">>) = "original" /\ Len(<<"original">>) = 1
  /\ <<"original">> # <<"roi">> /\ <<"original">> # <<"roi", "roi">> /\ <<"roi">> # <<"roi", "roi">>
<1>1. ASSUME NEW n \in 0..2 PROVE [i \in 1..n |-> "roi"] \in GuidedPlan \ {<<"original">>}
  <2>1. CASE n = 0
    BY <2>1 DEF GuidedPlan
  <2>2. CASE n = 1
    BY <2>2 DEF GuidedPlan
  <2>3. CASE n = 2
    BY <2>3 DEF GuidedPlan
  <2>4. QED
    BY <2>1, <2>2, <2>3
<1>2. QED
  BY <1>1

\* The types of the initial values.
LEMMA InitialTypes ==
  /\ NoImage \in [of : Frames \cup {"none"}, scan : ScanName \cup {"none"}, labelled : BOOLEAN]
  /\ NoProfile \in ProfileType /\ <<>> \in Seq(Code)
BY DEF NoImage, NoProfile, ProfileType

LEMMA RouteInvInit == Init => RouteInv
<1> SUFFICES ASSUME Init PROVE RouteInv
  OBVIOUS
<1>1. RouteTypeOK
  <2>1. ready \in BOOLEAN /\ refined \in BOOLEAN /\ sawGrid \in BOOLEAN
    BY DEF Init
  <2>2. misses \in 0..RetryAfterMisses /\ cooldown \in 0..Cooldown
    BY DEF Init
  <2>3. QED
    BY <2>1, <2>2, InitialTypes DEF Init, RouteTypeOK
<1>2. Progress
  BY DEF Init, Progress, Scanning, NoProfile
<1>3. FreshImage /\ Outcome /\ ProfileTruthful
  BY DEF Init, FreshImage, Outcome, Found, ProfileTruthful
<1>4. QED
  BY <1>1, <1>2, <1>3 DEF RouteInv

\* What a call starts from.
LEMMA CallStep ==
  ASSUME RouteInv, NEW r \in {"frame", "guided"}, NEW f \in Frames, NEW scans,
         r = "frame" => scans = Primary, r = "guided" => scans \in GuidedPlan \ {<<"original">>},
         Call(r, f, scans), r = "frame" => UNCHANGED box, r = "guided" => box' = "none"
  PROVE  RouteInv'
<1> USE DEF RouteInv, RouteTypeOK
<1>0. ready' \in BOOLEAN
  BY DEF Call, Create
<1>1. /\ misses' \in {misses, 0} /\ cooldown' \in {cooldown, 0}
      /\ image' \in {image, NoImage} /\ grids' \in {grids, <<>>}
  BY InitialTypes DEF Call, Create, Fresh, quircVars
<1>2. /\ route' = r /\ frame' = f /\ profile' = NoProfile /\ result' = "none"
      /\ sawGrid' = FALSE /\ refined' = FALSE
      /\ \/ plan' = scans /\ pc' = "scan" /\ status' = "NOT_FOUND"
         \/ pc' = "idle" /\ status' = "FAIL"
  BY DEF Call, Emptied
<1>3. pc = "idle" /\ misses < RetryAfterMisses
  BY DEF Call, Progress
<1>4. RouteTypeOK'
  <2>1. refined' \in BOOLEAN /\ sawGrid' \in BOOLEAN
    BY <1>1, <1>2
  <2>2. misses' \in 0..RetryAfterMisses /\ cooldown' \in 0..Cooldown
    BY <1>1, <1>2
  <2>3. image' \in [of : Frames \cup {"none"}, scan : ScanName \cup {"none"}, labelled : BOOLEAN]
    BY <1>1, <1>2, InitialTypes
  <2>4. grids' \in Seq(Code) /\ profile' \in ProfileType
    BY <1>1, <1>2, InitialTypes
  <2>5. QED
    BY <1>0, <1>1, <1>2, <2>1, <2>2, <2>3, <2>4
<1>5. Progress'
  BY <1>1, <1>2, <1>3, FramePlans, GuidedPlans DEF Progress, Scanning, NoProfile
<1>6. FreshImage' /\ ProfileTruthful'
  BY <1>2 DEF FreshImage, ProfileTruthful
<1>7. Outcome'
  BY <1>2 DEF Outcome, Found
<1>8. QED
  BY <1>4, <1>5, <1>6, <1>7

\* Initialization and deinitialization between the calls.
LEMMA IdleStep ==
  ASSUME RouteInv, InitDecoder \/ Deinit
  PROVE  RouteInv'
<1> USE DEF RouteInv, RouteTypeOK
<1>0. ready' \in BOOLEAN
  BY DEF InitDecoder, Deinit, Create
<1>1. /\ misses' \in {misses, 0} /\ cooldown' \in {cooldown, 0}
      /\ image' \in {image, NoImage} /\ grids' \in {grids, <<>>}
      /\ profile' \in {profile, NoProfile} /\ pc = "idle"
      /\ UNCHANGED <<callVars, plan, refined, pc, status, sawGrid, result, box>>
  BY InitialTypes DEF InitDecoder, Deinit, Create, Fresh, quircVars
<1>2. RouteTypeOK'
  <2>1. refined' \in BOOLEAN /\ sawGrid' \in BOOLEAN
    BY <1>1
  <2>2. misses' \in 0..RetryAfterMisses /\ cooldown' \in 0..Cooldown
    BY <1>1
  <2>3. image' \in [of : Frames \cup {"none"}, scan : ScanName \cup {"none"}, labelled : BOOLEAN]
    BY <1>1, InitialTypes
  <2>4. grids' \in Seq(Code) /\ profile' \in ProfileType
    BY <1>1, InitialTypes
  <2>5. QED
    BY <1>0, <1>1, <2>1, <2>2, <2>3, <2>4 DEF callVars
<1>3. Progress'
  BY <1>1 DEF Progress, Scanning, NoProfile, callVars
<1>4. FreshImage' /\ ProfileTruthful' /\ Outcome'
  BY <1>1 DEF FreshImage, ProfileTruthful, Outcome, Found, callVars
<1>5. QED
  BY <1>2, <1>3, <1>4

-----------------------------------------------------------------------------
\* The current scan of a call.
LEMMA CurrentScan ==
  ASSUME RouteInv, pc # "idle", plan # <<>>
  PROVE  Head(plan) \in ScanName /\ route \in {"frame", "guided"} /\ frame \in Frames
<1>1. plan \in FramePlan \cup GuidedPlan
  BY DEF RouteInv, Progress
<1>2. Head(plan) \in ScanName
  BY <1>1, FramePlans, GuidedPlans DEF FramePlan, GuidedPlan, ScanName
<1>3. QED
  BY <1>2 DEF RouteInv, Progress, Outcome

\* What is full and what is not.
LEMMA FullPlans ==
  ASSUME RouteInv, pc # "idle", plan # <<>>, route = "guided"
  PROVE  Full(Head(plan)) <=> plan = <<"original">>
BY GuidedPlans DEF RouteInv, Progress, GuidedPlan, Full

\* What a scan adds to the profile.
LEMMA ScanCounted ==
  ASSUME NEW p \in ProfileType, NEW q,
         \E g \in Nat : q = [p EXCEPT !.scans = p.scans + 1, !.guided = g]
  PROVE  /\ q \in ProfileType /\ q.scans = p.scans + 1
         /\ q.fallback = p.fallback /\ q.guidedPass = p.guidedPass
         /\ q.fallbackPass = p.fallbackPass /\ q.skipped = p.skipped
<1>1. PICK g \in Nat : q = [p EXCEPT !.scans = p.scans + 1, !.guided = g]
  OBVIOUS
<1>2. p.scans + 1 \in Nat
  BY DEF ProfileType
<1>3. q \in ProfileType
  BY <1>1, <1>2 DEF ProfileType
<1>4. q.scans = p.scans + 1
  BY <1>1 DEF ProfileType
<1>5. /\ q.fallback = p.fallback /\ q.guidedPass = p.guidedPass
      /\ q.fallbackPass = p.fallbackPass /\ q.skipped = p.skipped
  BY <1>1 DEF ProfileType
<1>6. QED
  BY <1>3, <1>4, <1>5

LEMMA ScanStep ==
  ASSUME RouteInv, Scan
  PROVE  RouteInv'
<1> USE DEF RouteInv
<1>1. /\ pc = "scan" /\ plan # <<>> /\ image' = Filled /\ grids' = <<>> /\ pc' = "identify"
      /\ UNCHANGED <<ready, misses, cooldown, route, frame, plan, status, sawGrid, result, box>>
  BY DEF Scan, callVars
<1>2. Head(plan) \in ScanName /\ route \in {"frame", "guided"} /\ frame \in Frames
  BY <1>1, CurrentScan
<1>3. /\ profile' \in ProfileType /\ profile'.scans = profile.scans + 1
      /\ profile'.guided = IF Full(Head(plan)) THEN profile.guided ELSE profile.guided + 1
      /\ profile'.fallback = profile.fallback /\ profile'.guidedPass = profile.guidedPass
      /\ profile'.fallbackPass = profile.fallbackPass /\ profile'.skipped = profile.skipped
  <2>1. PICK g : g = IF Full(Head(plan)) THEN profile.guided ELSE profile.guided + 1
    OBVIOUS
  <2>2. profile \in ProfileType /\ g \in Nat
    BY <2>1 DEF RouteTypeOK, ProfileType
  <2>3. PICK q : q = [profile EXCEPT !.scans = profile.scans + 1, !.guided = g]
    OBVIOUS
  <2>4. q \in ProfileType /\ q.guided = g
    BY <2>2, <2>3, ScanCounted DEF ProfileType
  <2>5. \E h \in Nat : q = [profile EXCEPT !.scans = profile.scans + 1, !.guided = h]
    BY <2>2, <2>3
  <2>6. profile' = q
    BY <2>1, <2>3 DEF Scan
  <2>7. QED
    BY <2>1, <2>2, <2>4, <2>5, <2>6, ScanCounted
<1>4. RouteTypeOK'
  <2>1. refined' \in BOOLEAN
    BY DEF Scan, Deferred
  <2>2. image' \in [of : Frames \cup {"none"}, scan : ScanName \cup {"none"}, labelled : BOOLEAN]
    BY <1>1, <1>2 DEF Filled
  <2>3. grids' \in Seq(Code)
    BY <1>1
  <2>4. QED
    BY <1>1, <1>3, <2>1, <2>2, <2>3 DEF RouteTypeOK
<1>5. Progress'
  <2>1. CASE route = "frame"
    <3>1. plan \in FramePlan /\ profile.scans = ScansBefore(plan) + 0
      BY <1>1, <2>1 DEF Progress, Scanning
    <3>2. ScansBefore(plan) \in 0..4
      BY <3>1, FramePlans DEF FramePlan
    <3>3. profile'.scans = ScansBefore(plan') + 1
      BY <1>1, <1>3, <3>1, <3>2
    <3>4. QED
      BY <1>1, <2>1, <3>1, <3>3 DEF Progress, Scanning
  <2>2. CASE route = "guided"
    <3>1. /\ misses' < RetryAfterMisses /\ plan' \in GuidedPlan /\ plan' # <<>>
          /\ pc' = "identify" /\ route' = "guided"
      BY <1>1, <2>2 DEF Progress, RouteTypeOK
    <3>2. /\ profile.scans \in Nat /\ profile.guided \in Nat
          /\ profile'.scans \in Nat /\ profile'.guided \in Nat
      BY <1>3 DEF RouteTypeOK, ProfileType
    <3>3. /\ profile'.fallback = (IF plan' = <<"original">> THEN 1 ELSE 0)
          /\ profile'.guidedPass = 0 /\ profile'.fallbackPass = 0 /\ profile'.skipped = 0
      BY <1>1, <1>3, <2>2 DEF Progress
    <3>4. /\ profile.scans <= (IF plan = <<"roi", "roi">> THEN 0
                               ELSE IF plan = <<"original">> THEN 2 ELSE 1)
          /\ profile.scans = profile.guided
      BY <1>1, <2>2, <3>2 DEF Progress, Scanning
    <3>5. /\ profile'.scans <= (IF plan' = <<"roi", "roi">> THEN 0
                                ELSE IF plan' = <<"original">> THEN 2 ELSE 1) + 1
          /\ profile'.scans = profile'.guided + (IF plan' = <<"original">> THEN 1 ELSE 0)
      BY <1>1, <1>3, <2>2, <3>2, <3>4, FullPlans
    <3>6. QED
      BY <3>1, <3>3, <3>5 DEF Progress, Scanning
  <2>3. QED
    BY <1>2, <2>1, <2>2
<1>6. FreshImage' /\ ProfileTruthful'
  BY <1>1 DEF FreshImage, ProfileTruthful, Filled
<1>7. Outcome'
  BY <1>1, <1>2 DEF Outcome, Found
<1>8. QED
  BY <1>4, <1>5, <1>6, <1>7

LEMMA IdentifyStep ==
  ASSUME RouteInv, Identify
  PROVE  RouteInv'
<1> USE DEF RouteInv
<1>1. /\ pc = "identify" /\ pc' = "detect" /\ image' = [image EXCEPT !.labelled = TRUE]
      /\ UNCHANGED <<ready, misses, cooldown, route, frame, plan, refined, status, sawGrid,
                     result, box, profile>>
  BY DEF Identify, callVars
<1>2. RouteTypeOK'
  <2>1. image' \in [of : Frames \cup {"none"}, scan : ScanName \cup {"none"}, labelled : BOOLEAN]
    BY <1>1 DEF RouteTypeOK
  <2>2. grids' \in Seq(Code)
    <3>1. PICK n \in 0..(IF Full(Head(plan)) THEN MaxGrids ELSE 1) : grids' \in [1..n -> Code]
      BY DEF Identify
    <3>2. n \in Nat
      BY <3>1
    <3>3. QED
      BY <3>1, <3>2
  <2>3. QED
    BY <1>1, <2>1, <2>2 DEF RouteTypeOK
<1>3. Progress'
  BY <1>1 DEF Progress, Scanning
<1>4. FreshImage' /\ ProfileTruthful'
  <2>1. image = [of |-> frame, scan |-> Head(plan), labelled |-> FALSE]
    BY <1>1 DEF FreshImage
  <2>2. image' = [of |-> frame, scan |-> Head(plan), labelled |-> TRUE]
    BY <1>1, <2>1
  <2>3. QED
    BY <1>1, <2>2 DEF FreshImage, ProfileTruthful
<1>5. Outcome'
  BY <1>1 DEF Outcome, Found
<1>6. QED
  BY <1>2, <1>3, <1>4, <1>5

LEMMA DetectStep ==
  ASSUME RouteInv, Detect
  PROVE  RouteInv'
<1> USE DEF RouteInv
<1>1. /\ pc = "detect" /\ pc' \in {"refine", "scanned"} /\ status' = Detected
      /\ pc' = "refine" => Detected # "OK"
      /\ UNCHANGED <<ready, misses, cooldown, image, grids, route, frame, plan, refined,
                     sawGrid, profile>>
  BY DEF Detect, MustRefine, quircVars, callVars
<1>2. IF Detected = "OK" THEN result' = image.of /\ box' = image.of ELSE UNCHANGED <<result, box>>
  BY DEF Detect
<1>3. image.of = frame /\ Detected \in {"OK", "NOT_FOUND", "FAIL"} /\ frame \in Frames
  BY <1>1 DEF FreshImage, Detected, Outcome
<1>4. RouteTypeOK'
  BY <1>1, <1>2, <1>3 DEF RouteTypeOK
<1>5. Progress'
  BY <1>1 DEF Progress, Scanning
<1>6. FreshImage' /\ ProfileTruthful'
  BY <1>1 DEF FreshImage, ProfileTruthful
<1>7. Outcome'
  BY <1>1, <1>2, <1>3 DEF Outcome, Found
<1>8. QED
  BY <1>4, <1>5, <1>6, <1>7

LEMMA RefineStep ==
  ASSUME RouteInv, Refine
  PROVE  RouteInv'
<1> USE DEF RouteInv
<1>1. /\ pc = "refine" /\ pc' = "detect" /\ refined' = TRUE
      /\ UNCHANGED <<ready, misses, cooldown, image, route, frame, plan, status, sawGrid,
                     result, box, profile>>
  BY DEF Refine, callVars
<1>2. grids' \in Seq(Code)
  <2>1. DOMAIN grids = 1..Len(grids) /\ Len(grids) \in Nat
    BY DEF RouteTypeOK
  <2>2. QED
    BY <2>1 DEF Refine
<1>3. RouteTypeOK'
  BY <1>1, <1>2 DEF RouteTypeOK
<1>4. Progress' /\ FreshImage' /\ ProfileTruthful' /\ Outcome'
  BY <1>1 DEF Progress, Scanning, FreshImage, ProfileTruthful, Outcome, Found
<1>5. QED
  BY <1>3, <1>4

LEMMA PassedStep ==
  ASSUME RouteInv, Passed
  PROVE  RouteInv'
<1> USE DEF RouteInv
<1>1. /\ pc = "scanned" /\ status = "OK" /\ pc' = "idle" /\ status' = "OK" /\ plan' = <<>>
      /\ misses' = IF route = "frame" THEN 0 ELSE misses
      /\ cooldown' \in {0, cooldown}
      /\ UNCHANGED <<ready, image, grids, route, frame, refined, sawGrid, result, box>>
  BY DEF Passed, Return, quircVars, callVars
<1>2. plan # <<>>
  BY <1>1 DEF Progress, Scanning
<1>3. route \in {"frame", "guided"}
  BY <1>1, <1>2, CurrentScan
<1>4. CASE route = "frame"
  <2>1. profile' = profile
    BY <1>4 DEF Passed
  <2>2. profile.scans <= 5
    <3>1. plan \in FramePlan /\ profile.scans = ScansBefore(plan) + 1
      BY <1>1, <1>4 DEF Progress, Scanning
    <3>2. ScansBefore(plan) \in 0..4
      BY <3>1, FramePlans DEF FramePlan
    <3>3. QED
      BY <3>1, <3>2
  <2>3. RouteTypeOK'
    BY <1>1, <1>4, <2>1 DEF RouteTypeOK
  <2>4. Progress'
    BY <1>1, <1>4, <2>1, <2>2 DEF Progress, Scanning
  <2>5. QED
    BY <1>1, <1>4, <2>3, <2>4 DEF FreshImage, ProfileTruthful, Outcome, Found
<1>5. CASE route = "guided"
  <2>1. profile' = IF plan = <<"original">> THEN [profile EXCEPT !.fallbackPass = 1]
                   ELSE [profile EXCEPT !.guidedPass = 1]
    BY <1>1, <1>2, <1>5, FullPlans DEF Passed, PassOf
  <2>2. /\ profile' \in ProfileType /\ profile'.scans = profile.scans
        /\ profile'.guided = profile.guided /\ profile'.fallback = profile.fallback
        /\ profile'.skipped = 0
        /\ profile'.guidedPass = (IF plan = <<"original">> THEN 0 ELSE 1)
        /\ profile'.fallbackPass = (IF plan = <<"original">> THEN 1 ELSE 0)
    BY <1>1, <1>5, <2>1 DEF RouteTypeOK, ProfileType, Progress
  <2>3. RouteTypeOK'
    BY <1>1, <1>5, <2>2 DEF RouteTypeOK
  <2>4. Progress'
    BY <1>1, <1>5, <2>2, GuidedPlans DEF Progress, Scanning, RouteTypeOK, ProfileType
  <2>5. ProfileTruthful'
    BY <1>1, <1>5, <2>2 DEF Progress, Scanning, ProfileTruthful, RouteTypeOK, ProfileType
  <2>6. QED
    BY <1>1, <1>5, <2>3, <2>4, <2>5 DEF FreshImage, Outcome, Found
<1>6. QED
  BY <1>3, <1>4, <1>5

LEMMA NextScanStep ==
  ASSUME RouteInv, NextScan
  PROVE  RouteInv'
<1> USE DEF RouteInv
<1>1. /\ pc = "scanned" /\ status # "OK" /\ Len(plan) > 1 /\ plan' = Tail(plan) /\ pc' = "scan"
      /\ UNCHANGED <<ready, misses, cooldown, image, grids, route, frame, refined, status,
                     result, box, profile>>
  BY DEF NextScan, quircVars, callVars
<1>2. sawGrid' \in BOOLEAN
  BY DEF NextScan, Saw, RouteTypeOK
<1>3. RouteTypeOK'
  BY <1>1, <1>2 DEF RouteTypeOK
<1>4. plan # <<>>
  BY <1>1 DEF Progress, Scanning
<1>5. route \in {"frame", "guided"} /\ frame \in Frames
  BY <1>1, <1>4, CurrentScan
<1>6. Progress'
  <2>1. CASE route = "frame"
    <3>1. plan \in FramePlan /\ profile.scans = ScansBefore(plan) + 1
      BY <1>1, <2>1 DEF Progress, Scanning
    <3>2. plan \in {Primary, Robust, <<"128", "192">>}
      <4>1. plan # <<"160">> /\ plan # <<"192">>
        BY <1>1, FramePlans
      <4>2. QED
        BY <3>1, <4>1 DEF FramePlan
    <3>3. plan' \in FramePlan /\ ScansBefore(plan') = ScansBefore(plan) + 1
      <4>1. CASE plan = Primary
        <5>1. plan' = <<"160">>
          BY <1>1, <4>1, FramePlans
        <5>2. plan' \in FramePlan /\ ScansBefore(plan') = 1 /\ ScansBefore(plan) = 0
          BY <4>1, <5>1, FramePlans, Zenon
        <5>3. QED
          BY <5>2
      <4>2. CASE plan = Robust
        <5>1. plan' = <<"128", "192">>
          BY <1>1, <4>2, FramePlans
        <5>2. plan' \in FramePlan /\ ScansBefore(plan') = 3 /\ ScansBefore(plan) = 2
          BY <4>2, <5>1, FramePlans, Zenon
        <5>3. QED
          BY <5>2
      <4>3. CASE plan = <<"128", "192">>
        <5>1. plan' = <<"192">>
          BY <1>1, <4>3, FramePlans
        <5>2. plan' \in FramePlan /\ ScansBefore(plan') = 4 /\ ScansBefore(plan) = 3
          BY <4>3, <5>1, FramePlans, Zenon
        <5>3. QED
          BY <5>2
      <4>4. QED
        BY <3>2, <4>1, <4>2, <4>3
    <3>4. misses = RetryAfterMisses => plan' \notin {Primary, <<"160">>}
      <4>1. misses = RetryAfterMisses => ScansBefore(plan) \in {2, 3}
        BY <1>1, <3>2, FramePlans DEF Progress
      <4>2. QED
        BY <3>3, <4>1, FramePlans
    <3>5. profile.scans = ScansBefore(plan') + 0
      <4>1. ScansBefore(plan) \in 0..4
        BY <3>1, FramePlans DEF FramePlan
      <4>2. QED
        BY <3>1, <3>3, <4>1
    <3>6. QED
      BY <1>1, <2>1, <3>3, <3>4, <3>5 DEF Progress, Scanning
  <2>2. CASE route = "guided"
    <3>1. plan = <<"roi", "roi">> /\ plan' = <<"roi">>
      <4>1. plan # <<"roi">> /\ plan # <<"original">>
        BY <1>1, GuidedPlans
      <4>2. plan \in GuidedPlan
        BY <1>1, <2>2 DEF Progress
      <4>3. QED
        BY <1>1, <1>4, <4>1, <4>2, GuidedPlans DEF GuidedPlan
    <3>2. profile.scans \in Nat
      BY DEF RouteTypeOK, ProfileType
    <3>3. /\ profile.scans <= 1 /\ profile.scans = profile.guided /\ profile.fallback = 0
          /\ profile.guidedPass = 0 /\ profile.fallbackPass = 0 /\ profile.skipped = 0
      BY <1>1, <2>2, <3>1, <3>2, GuidedPlans DEF Progress, Scanning, RouteTypeOK, ProfileType
    <3>4. profile.guided \in Nat /\ misses < RetryAfterMisses
      BY <2>2 DEF RouteTypeOK, ProfileType, Progress
    <3>5. QED
      BY <1>1, <2>2, <3>1, <3>2, <3>3, <3>4, GuidedPlans DEF Progress, Scanning, GuidedPlan
  <2>3. QED
    BY <1>5, <2>1, <2>2
<1>7. FreshImage' /\ ProfileTruthful' /\ Outcome'
  BY <1>1 DEF FreshImage, ProfileTruthful, Outcome, Found
<1>8. QED
  BY <1>3, <1>6, <1>7

LEMMA FrameMissedStep ==
  ASSUME RouteInv, FrameMissed
  PROVE  RouteInv'
<1> USE DEF RouteInv
<1>1. /\ pc = "scanned" /\ status # "OK" /\ route = "frame" /\ Len(plan) = 1
      /\ misses' = MissesAfter(Head(plan))
      /\ UNCHANGED <<ready, cooldown, image, grids, route, frame, refined, result, box, profile>>
  BY DEF FrameMissed, quircVars, callVars
<1>2. \/ /\ Head(plan) = "160" /\ misses' >= RetryAfterMisses
         /\ plan' = Robust /\ pc' = "scan" /\ UNCHANGED status
      \/ /\ ~(Head(plan) = "160" /\ misses' >= RetryAfterMisses)
         /\ pc' = "idle" /\ status' = Miss
  BY DEF FrameMissed, Return
<1>3. sawGrid' \in BOOLEAN
  BY DEF FrameMissed, Saw, RouteTypeOK
<1>4. plan \in FramePlan /\ profile.scans = ScansBefore(plan) + 1
  BY <1>1 DEF Progress, Scanning
<1>5. plan \in {<<"160">>, <<"192">>}
  BY <1>1, <1>4, FramePlans DEF FramePlan
<1>6. Miss \in {"FAIL", "NOT_FOUND"}
  BY DEF Miss
<1>7. CASE plan = <<"160">>
  <2>1. /\ misses < RetryAfterMisses /\ misses' = misses + 1 /\ profile.scans = 2
        /\ Head(plan) = "160"
    BY <1>1, <1>4, <1>7, FramePlans DEF Progress, MissesAfter, RouteTypeOK
  <2>2. misses' \in 0..RetryAfterMisses
    BY <2>1 DEF RouteTypeOK
  <2>3. RouteTypeOK'
    BY <1>1, <1>2, <1>3, <1>6, <2>2 DEF RouteTypeOK
  <2>4. Progress'
    <3>1. CASE pc' = "scan"
      BY <1>1, <1>2, <2>1, <2>2, <3>1, FramePlans DEF Progress, Scanning
    <3>2. CASE pc' = "idle"
      BY <1>1, <1>2, <2>1, <2>2, <3>2 DEF Progress, Scanning
    <3>3. QED
      BY <1>2, <3>1, <3>2
  <2>5. FreshImage' /\ ProfileTruthful' /\ Outcome'
    BY <1>1, <1>2, <1>6 DEF FreshImage, ProfileTruthful, Outcome, Found
  <2>6. QED
    BY <2>3, <2>4, <2>5
<1>8. CASE plan = <<"192">>
  <2>1. misses' = 0 /\ profile.scans = 5 /\ Head(plan) # "160"
    BY <1>1, <1>4, <1>8, FramePlans DEF MissesAfter
  <2>2. pc' = "idle" /\ status' = Miss
    BY <1>2, <2>1
  <2>3. RouteTypeOK'
    BY <1>1, <1>3, <1>6, <2>1, <2>2 DEF RouteTypeOK
  <2>4. Progress'
    BY <1>1, <2>1, <2>2 DEF Progress, Scanning
  <2>5. FreshImage' /\ ProfileTruthful' /\ Outcome'
    BY <1>1, <1>6, <2>2 DEF FreshImage, ProfileTruthful, Outcome, Found
  <2>6. QED
    BY <2>3, <2>4, <2>5
<1>9. QED
  BY <1>5, <1>7, <1>8

LEMMA GuidedMissedStep ==
  ASSUME RouteInv, GuidedMissed
  PROVE  RouteInv'
<1> USE DEF RouteInv
<1>1. /\ route = "guided"
      /\ \/ pc = "scan" /\ plan = <<>>
         \/ pc = "scanned" /\ status # "OK" /\ Len(plan) = 1 /\ ~Full(Head(plan))
      /\ UNCHANGED <<ready, misses, image, grids, route, frame, refined, result, box>>
  BY DEF GuidedMissed, quircVars, callVars
<1>2. \/ /\ cooldown > 0 /\ cooldown' = cooldown - 1 /\ pc' = "idle" /\ status' = Miss
         /\ profile' = [profile EXCEPT !.skipped = 1]
      \/ /\ cooldown' = Cooldown /\ plan' = <<"original">> /\ pc' = "scan" /\ UNCHANGED status
         /\ profile' = [profile EXCEPT !.fallback = 1]
  BY DEF GuidedMissed, Return
<1>3. sawGrid' \in BOOLEAN
  BY DEF GuidedMissed, Saw, RouteTypeOK
<1>4. cooldown' \in 0..Cooldown
  BY <1>2 DEF RouteTypeOK
<1>5. Miss \in {"FAIL", "NOT_FOUND"}
  BY DEF Miss
<1>6. plan # <<"original">> /\ misses < RetryAfterMisses /\ plan \in GuidedPlan
  BY <1>1, GuidedPlans DEF Progress, Full, RouteTypeOK
<1>7. profile.scans \in Nat /\ profile.guided \in Nat
  BY DEF RouteTypeOK, ProfileType
<1>8. /\ profile.scans <= 2 /\ profile.scans = profile.guided /\ profile.fallback = 0
      /\ profile.guidedPass = 0 /\ profile.fallbackPass = 0 /\ profile.skipped = 0
  <2>1. CASE pc = "scan" /\ plan = <<>>
    BY <1>1, <1>6, <1>7, <2>1 DEF Progress, Scanning
  <2>2. CASE pc = "scanned" /\ Len(plan) = 1
    BY <1>1, <1>6, <1>7, <2>2, GuidedPlans DEF Progress, Scanning
  <2>3. QED
    BY <1>1, <2>1, <2>2
<1>9. FreshImage'
  BY <1>2 DEF FreshImage
<1>10. frame \in Frames /\ result = "none" /\ box = "none"
  BY <1>1 DEF Outcome, Found
<1>11. Outcome'
  BY <1>1, <1>2, <1>5, <1>10 DEF Outcome, Found
<1>12. CASE pc' = "idle"
  <2>1. profile' = [profile EXCEPT !.skipped = 1] /\ status' = Miss
    BY <1>2, <1>12
  <2>2. /\ profile' \in ProfileType /\ profile'.scans = profile.scans
        /\ profile'.guided = profile.guided /\ profile'.fallback = 0 /\ profile'.skipped = 1
        /\ profile'.guidedPass = 0 /\ profile'.fallbackPass = 0
    BY <1>8, <2>1 DEF RouteTypeOK, ProfileType
  <2>3. RouteTypeOK'
    BY <1>1, <1>3, <1>4, <1>5, <1>12, <2>1, <2>2 DEF RouteTypeOK
  <2>4. Progress'
    BY <1>1, <1>6, <1>7, <1>8, <1>12, <2>2 DEF Progress, Scanning
  <2>5. ProfileTruthful'
    BY <1>1, <1>5, <1>7, <1>8, <1>12, <2>1, <2>2 DEF ProfileTruthful
  <2>6. QED
    BY <1>9, <1>11, <2>3, <2>4, <2>5
<1>13. CASE pc' = "scan"
  <2>1. plan' = <<"original">> /\ UNCHANGED status /\ profile' = [profile EXCEPT !.fallback = 1]
    BY <1>2, <1>13
  <2>2. /\ profile' \in ProfileType /\ profile'.scans = profile.scans
        /\ profile'.guided = profile.guided /\ profile'.fallback = 1 /\ profile'.skipped = 0
        /\ profile'.guidedPass = 0 /\ profile'.fallbackPass = 0
    BY <1>8, <2>1 DEF RouteTypeOK, ProfileType
  <2>3. RouteTypeOK'
    BY <1>1, <1>3, <1>4, <1>13, <2>1, <2>2 DEF RouteTypeOK
  <2>4. Progress'
    BY <1>1, <1>6, <1>7, <1>8, <1>13, <2>1, <2>2, GuidedPlans DEF Progress, Scanning, GuidedPlan
  <2>5. ProfileTruthful'
    BY <1>13 DEF ProfileTruthful
  <2>6. QED
    BY <1>9, <1>11, <2>3, <2>4, <2>5
<1>14. QED
  BY <1>2, <1>12, <1>13

LEMMA FallbackMissedStep ==
  ASSUME RouteInv, FallbackMissed
  PROVE  RouteInv'
<1> USE DEF RouteInv
<1>1. /\ pc = "scanned" /\ status # "OK" /\ route = "guided" /\ Full(Head(plan))
      /\ pc' = "idle" /\ status' = Miss
      /\ UNCHANGED <<ready, misses, cooldown, image, grids, route, frame, refined, result, box,
                     profile>>
  BY DEF FallbackMissed, Return, quircVars, callVars
<1>2. sawGrid' \in BOOLEAN
  BY DEF FallbackMissed, Saw, RouteTypeOK
<1>3. Miss \in {"FAIL", "NOT_FOUND"}
  BY DEF Miss
<1>4. RouteTypeOK'
  BY <1>1, <1>2, <1>3 DEF RouteTypeOK
<1>5. plan # <<>>
  BY <1>1 DEF Progress, Scanning
<1>6. plan = <<"original">>
  BY <1>1, <1>5, FullPlans
<1>7. profile.scans \in Nat /\ profile.guided \in Nat
  BY DEF RouteTypeOK, ProfileType
<1>8. /\ profile.scans <= 3 /\ profile.scans = profile.guided + 1 /\ profile.fallback = 1
      /\ profile.guidedPass = 0 /\ profile.fallbackPass = 0 /\ profile.skipped = 0
      /\ misses < RetryAfterMisses
  BY <1>1, <1>6, <1>7, GuidedPlans DEF Progress, Scanning, RouteTypeOK
<1>9. Progress'
  BY <1>1, <1>7, <1>8 DEF Progress, Scanning
<1>10. FreshImage' /\ ProfileTruthful'
  BY <1>1, <1>3, <1>7, <1>8 DEF FreshImage, ProfileTruthful
<1>11. Outcome'
  BY <1>1, <1>3 DEF Outcome, Found
<1>12. QED
  BY <1>4, <1>9, <1>10, <1>11

LEMMA RouteInvNext == RouteInv /\ [Next]_vars => RouteInv'
<1> SUFFICES ASSUME RouteInv, [Next]_vars PROVE RouteInv'
  OBVIOUS
<1>1. CASE UNCHANGED vars
  BY <1>1 DEF vars, quircVars, callVars, RouteInv, RouteTypeOK, Progress, Scanning, FreshImage,
              Outcome, Found, ProfileTruthful
<1>2. CASE InitDecoder \/ Deinit
  BY <1>2, IdleStep
<1>3. CASE CallFrame
  <2>1. PICK f \in Frames : Call("frame", f, Primary) /\ UNCHANGED box
    BY <1>3 DEF CallFrame
  <2>2. QED
    BY <2>1, CallStep
<1>4. CASE CallGuided
  <2>1. PICK f \in Frames, n \in 0..2 :
          Call("guided", f, [i \in 1..n |-> "roi"]) /\ box' = "none"
    BY <1>4 DEF CallGuided
  <2>2. PICK scans : scans = [i \in 1..n |-> "roi"]
    OBVIOUS
  <2>3. scans \in GuidedPlan \ {<<"original">>} /\ Call("guided", f, scans)
    BY <2>1, <2>2, GuidedPlans
  <2>4. QED
    BY <2>1, <2>3, CallStep
<1>5. CASE Step
  BY <1>5, ScanStep, IdentifyStep, DetectStep, RefineStep, PassedStep, NextScanStep,
     FrameMissedStep, GuidedMissedStep, FallbackMissedStep DEF Step
<1>6. QED
  BY <1>1, <1>2, <1>3, <1>4, <1>5 DEF Next

\* The inductive invariant holds in every state.
LEMMA RouteInvariant == RouteSpec => []RouteInv
BY RouteInvInit, RouteInvNext, PTL DEF RouteSpec

-----------------------------------------------------------------------------
\* The variables of the decoder and of a call keep their types.
THEOREM RouteTypes == RouteSpec => []RouteTypeOK
<1>1. RouteInv => RouteTypeOK
  BY DEF RouteInv
<1>2. QED
  BY <1>1, RouteInvariant, PTL

\* Whatever is identified, refined or read belongs to the image of this call and scan.
THEOREM ImageIsFresh == RouteSpec => []FreshImage
<1>1. RouteInv => FreshImage
  BY DEF RouteInv
<1>2. QED
  BY <1>1, RouteInvariant, PTL

\* A call returns the payload of its own frame or none, and nothing of an earlier one.
THEOREM ResultIsOfFrame == RouteSpec => []ResultOfFrame
<1>1. RouteInv => ResultOfFrame
  BY DEF RouteInv, Outcome, Found, ResultOfFrame
<1>2. QED
  BY <1>1, RouteInvariant, PTL

\* A call makes at most five scans, a guided one at most three.
THEOREM WorkIsBounded == RouteSpec => []WorkBounded
<1>1. ASSUME RouteInv PROVE profile.scans <= IF route = "frame" THEN 5 ELSE 3
  <2>1. CASE pc = "idle"
    BY <1>1, <2>1 DEF RouteInv, Progress
  <2>2. CASE pc # "idle" /\ route = "frame"
    <3>1. plan \in FramePlan /\ profile.scans = ScansBefore(plan) + (IF Scanning THEN 1 ELSE 0)
      BY <1>1, <2>2 DEF RouteInv, Progress
    <3>2. ScansBefore(plan) \in 0..4
      BY <3>1, FramePlans DEF FramePlan
    <3>3. QED
      BY <2>2, <3>1, <3>2
  <2>3. CASE pc # "idle" /\ route # "frame"
    <3>1. profile.scans \in Nat
      BY <1>1 DEF RouteInv, RouteTypeOK, ProfileType
    <3>2. profile.scans <= (IF plan = <<"roi", "roi">> THEN 0
                            ELSE IF plan = <<"original">> THEN 2 ELSE 1)
                           + (IF Scanning THEN 1 ELSE 0)
      BY <1>1, <2>3 DEF RouteInv, Progress
    <3>3. QED
      BY <2>3, <3>1, <3>2
  <2>4. QED
    BY <2>1, <2>2, <2>3
<1>2. ASSUME RouteInv PROVE pc = "idle" => misses < RetryAfterMisses
  BY <1>2 DEF RouteInv, RouteTypeOK, Progress
<1>3. RouteInv => WorkBounded
  BY <1>1, <1>2 DEF WorkBounded
<1>4. QED
  BY <1>3, RouteInvariant, PTL

\* The profile of a guided call gives each scan its reason and each pass its scan.
THEOREM ProfileIsTruthful == RouteSpec => []ProfileTruthful
<1>1. RouteInv => ProfileTruthful
  BY DEF RouteInv
<1>2. QED
  BY <1>1, RouteInvariant, PTL

-----------------------------------------------------------------------------
\* The throttle counts down what the guided misses since the last full scan count up.
CountInv == quiet \in 0..Cooldown /\ quiet + cooldown = Cooldown

\* No counter of the profile grows that tells of the throttle.
Unnoticed == /\ ~(profile'.fallback > profile.fallback) /\ ~(profile'.skipped > profile.skipped)
             /\ ~(profile'.guidedPass > profile.guidedPass)

\* A step of which the profile tells nothing leaves the throttle alone, but for a decoder
\* that begins or ends.
LEMMA UnnoticedCounts ==
  ASSUME RouteInv, CountInv, HNext, Unnoticed,
         (Deinit \/ (~ready /\ ready')) => cooldown' = 0,
         ~(Deinit \/ (~ready /\ ready')) => cooldown' = cooldown
  PROVE  CountInv'
<1>1. CASE Deinit \/ (~ready /\ ready')
  <2>1. quiet' = Cooldown
    BY <1>1 DEF HNext, Unnoticed
  <2>2. QED
    BY <1>1, <2>1 DEF CountInv
<1>2. CASE ~(Deinit \/ (~ready /\ ready'))
  <2>1. quiet' = quiet
    BY <1>2 DEF HNext, Unnoticed
  <2>2. QED
    BY <1>2, <2>1 DEF CountInv
<1>3. QED
  BY <1>1, <1>2

\* An empty profile tells nothing.
LEMMA NothingNoticed ==
  ASSUME RouteInv, profile' = NoProfile \/ profile' = profile
  PROVE  Unnoticed
<1>1. profile.fallback \in Nat /\ profile.skipped \in Nat /\ profile.guidedPass \in Nat
  BY DEF RouteInv, RouteTypeOK, ProfileType
<1>2. NoProfile.fallback = 0 /\ NoProfile.skipped = 0 /\ NoProfile.guidedPass = 0
  BY DEF NoProfile
<1>3. QED
  BY <1>1, <1>2 DEF Unnoticed

\* The full scan of a guided miss is made when the throttle has counted down, and only then.
LEMMA GuidedMissedCounts ==
  ASSUME RouteInv, CountInv, HNext, GuidedMissed
  PROVE  /\ CountInv'
         /\ profile'.fallback > profile.fallback => quiet = Cooldown
         /\ profile'.skipped > profile.skipped => quiet < Cooldown
<1>1. cooldown \in 0..Cooldown /\ profile \in ProfileType
  BY DEF RouteInv, RouteTypeOK
<1>2. profile.fallback = 0 /\ profile.skipped = 0
  <2>1. route = "guided" /\ pc # "idle" /\ plan # <<"original">>
    <3>1. /\ route = "guided" /\ pc \in {"scan", "scanned"}
          /\ plan = <<>> \/ ~Full(Head(plan))
      BY DEF GuidedMissed
    <3>2. QED
      BY <3>1, GuidedPlans DEF Full
  <2>2. QED
    BY <2>1 DEF RouteInv, Progress
<1>3. CASE cooldown > 0
  <2>1. cooldown' = cooldown - 1 /\ profile' = [profile EXCEPT !.skipped = 1]
    BY <1>3 DEF GuidedMissed
  <2>2. profile'.skipped = 1 /\ profile'.fallback = 0
    BY <1>1, <1>2, <2>1 DEF ProfileType
  <2>3. quiet' = quiet + 1
    BY <1>2, <2>2 DEF HNext
  <2>4. QED
    BY <1>1, <1>2, <1>3, <2>1, <2>2, <2>3 DEF CountInv
<1>4. CASE ~(cooldown > 0)
  <2>1. cooldown' = Cooldown /\ profile' = [profile EXCEPT !.fallback = 1]
    BY <1>4 DEF GuidedMissed
  <2>2. profile'.fallback = 1 /\ profile'.skipped = 0
    BY <1>1, <1>2, <2>1 DEF ProfileType
  <2>3. quiet' = 0
    BY <1>2, <2>2 DEF HNext
  <2>4. cooldown = 0 /\ quiet = Cooldown
    BY <1>1, <1>4 DEF CountInv
  <2>5. QED
    BY <1>2, <2>1, <2>2, <2>3, <2>4 DEF CountInv
<1>5. QED
  BY <1>3, <1>4

\* A pass ends the throttle when a proposal led to it, and no other pass does.
LEMMA PassedCounts ==
  ASSUME RouteInv, CountInv, HNext, Passed
  PROVE  /\ CountInv'
         /\ ~(profile'.fallback > profile.fallback)
         /\ ~(profile'.skipped > profile.skipped)
<1>1. /\ cooldown \in 0..Cooldown /\ profile \in ProfileType /\ pc = "scanned" /\ plan # <<>>
      /\ ready' = ready /\ pc' = "idle" /\ plan' = <<>>
  BY DEF RouteInv, RouteTypeOK, Progress, Scanning, Passed, Return
<1>2. ~Deinit
  BY <1>1 DEF Deinit
<1>3. CASE route = "guided" /\ ~Full(Head(plan))
  <2>1. profile.guidedPass = 0
    BY <1>1, <1>3 DEF RouteInv, Progress
  <2>2. cooldown' = 0 /\ profile' = [profile EXCEPT !.guidedPass = 1]
    BY <1>3 DEF Passed, Recovers, PassOf
  <2>3. /\ profile'.guidedPass = 1 /\ profile'.fallback = profile.fallback
        /\ profile'.skipped = profile.skipped
    BY <1>1, <2>2 DEF ProfileType
  <2>4. profile.fallback \in Nat /\ profile.skipped \in Nat
    BY <1>1 DEF ProfileType
  <2>5. quiet' = Cooldown
    BY <2>1, <2>3, <2>4 DEF HNext
  <2>6. QED
    BY <2>2, <2>3, <2>4, <2>5 DEF CountInv
<1>4. CASE ~(route = "guided" /\ ~Full(Head(plan)))
  <2>1. cooldown' = cooldown
    BY <1>4 DEF Passed, Recovers
  <2>2. profile' = profile \/ profile' = [profile EXCEPT !.fallbackPass = 1]
    BY <1>4, CurrentScan, <1>1 DEF Passed, PassOf
  <2>3. /\ profile'.guidedPass = profile.guidedPass /\ profile'.fallback = profile.fallback
        /\ profile'.skipped = profile.skipped
    BY <1>1, <2>2 DEF ProfileType
  <2>4. profile.fallback \in Nat /\ profile.skipped \in Nat /\ profile.guidedPass \in Nat
    BY <1>1 DEF ProfileType
  <2>5. Unnoticed
    BY <2>3, <2>4 DEF Unnoticed
  <2>6. QED
    BY <1>1, <1>2, <2>1, <2>5, UnnoticedCounts DEF Unnoticed
<1>5. QED
  BY <1>3, <1>4

\* Each step keeps the counts together, and obeys the throttle.
LEMMA CountStep ==
  ASSUME RouteInv, CountInv, HNext
  PROVE  /\ CountInv'
         /\ profile'.fallback > profile.fallback => quiet = Cooldown
         /\ profile'.skipped > profile.skipped => quiet < Cooldown
<1>1. CASE GuidedMissed
  BY <1>1, GuidedMissedCounts
<1>2. CASE Passed
  BY <1>2, PassedCounts
<1>3. ASSUME Unnoticed,
             (Deinit \/ (~ready /\ ready')) => cooldown' = 0,
             ~(Deinit \/ (~ready /\ ready')) => cooldown' = cooldown
      PROVE  /\ CountInv'
             /\ profile'.fallback > profile.fallback => quiet = Cooldown
             /\ profile'.skipped > profile.skipped => quiet < Cooldown
  BY <1>3, UnnoticedCounts DEF Unnoticed
<1>4. CASE Deinit
  BY <1>3, <1>4, NothingNoticed DEF Deinit, Fresh
<1>5. ASSUME ~Deinit, Create, profile' = NoProfile \/ profile' = profile
      PROVE  /\ CountInv'
             /\ profile'.fallback > profile.fallback => quiet = Cooldown
             /\ profile'.skipped > profile.skipped => quiet < Cooldown
  <2>1. (~ready /\ ready') => cooldown' = 0
    BY <1>5 DEF Create, Fresh
  <2>2. ~(~ready /\ ready') => cooldown' = cooldown
    BY <1>5 DEF Create
  <2>3. QED
    BY <1>3, <1>5, <2>1, <2>2, NothingNoticed
<1>6. CASE InitDecoder
  BY <1>4, <1>5, <1>6 DEF InitDecoder
<1>7. CASE CallFrame \/ CallGuided
  BY <1>4, <1>5, <1>7 DEF CallFrame, CallGuided, Call
<1>8. ASSUME pc # "idle", UNCHANGED <<ready, cooldown>>, Unnoticed
      PROVE  /\ CountInv'
             /\ profile'.fallback > profile.fallback => quiet = Cooldown
             /\ profile'.skipped > profile.skipped => quiet < Cooldown
  BY <1>3, <1>8 DEF Deinit
<1>9. CASE Scan
  <2>1. pc = "scan" /\ UNCHANGED <<ready, cooldown>>
    BY <1>9 DEF Scan
  <2>2. profile \in ProfileType
    BY DEF RouteInv, RouteTypeOK
  <2>3. PICK g : g = IF Full(Head(plan)) THEN profile.guided ELSE profile.guided + 1
    OBVIOUS
  <2>4. g \in Nat /\ profile' = [profile EXCEPT !.scans = profile.scans + 1, !.guided = g]
    BY <1>9, <2>2, <2>3 DEF Scan, ProfileType
  <2>5. /\ profile'.guidedPass = profile.guidedPass /\ profile'.fallback = profile.fallback
        /\ profile'.skipped = profile.skipped
    BY <2>2, <2>4, ScanCounted
  <2>6. Unnoticed
    BY <2>2, <2>5 DEF Unnoticed, ProfileType
  <2>7. QED
    BY <1>8, <2>1, <2>6
<1>10. CASE Identify \/ Detect \/ Refine \/ NextScan \/ FrameMissed \/ FallbackMissed
  <2>1. pc # "idle" /\ UNCHANGED <<ready, cooldown, profile>>
    BY <1>10 DEF Identify, Detect, Refine, NextScan, FrameMissed, FallbackMissed
  <2>2. QED
    BY <1>8, <2>1, NothingNoticed
<1>11. QED
  BY <1>1, <1>2, <1>4, <1>6, <1>7, <1>9, <1>10 DEF HNext, Next, Step

\* For any limits and any calls: a guided miss costs a full scan when Cooldown misses have
\* gone without since the last one, or when none is held against it, and else none.
THEOREM ThrottledHolds == HSpec => Throttled
<1>1. HInit => RouteInv /\ CountInv
  <2>1. HInit => RouteInv
    BY RouteInvInit DEF HInit
  <2>2. HInit => CountInv
    BY DEF HInit, Init, CountInv
  <2>3. QED
    BY <2>1, <2>2
<1>2. RouteInv /\ CountInv /\ [HNext]_<<vars, quiet>> => (RouteInv /\ CountInv)'
  <2>1. RouteInv /\ [HNext]_<<vars, quiet>> => RouteInv'
    BY RouteInvNext DEF HNext
  <2>2. CASE UNCHANGED <<vars, quiet>>
    BY <2>1, <2>2 DEF CountInv, vars
  <2>3. QED
    BY <2>1, <2>2, CountStep
<1>3. RouteInv /\ CountInv /\ [HNext]_<<vars, quiet>> =>
        [/\ profile'.fallback > profile.fallback => quiet = Cooldown
         /\ profile'.skipped > profile.skipped => quiet < Cooldown]_<<vars, quiet>>
  BY CountStep
<1>4. QED
  BY <1>1, <1>2, <1>3, PTL DEF HSpec, Throttled
=============================================================================
