---------------------------- MODULE VideoOverlay ----------------------------
(***************************************************************************)
(* The HUD: a bitmap in two banks that the PL lays over the scanned-out    *)
(* picture (video_preview_overlay.v), drawn and published by the preview   *)
(* service of the application (vision_runtime.c, video_overlay.c).  The    *)
(* scan-out runs at its own pace between any two register accesses.  A     *)
(* bitmap word holds the name of the drawing it was written for.           *)
(***************************************************************************)
EXTENDS Integers, FiniteSets

CONSTANTS Words,      \* words of a bank, 640*64/32
          Drawings    \* bound of the model: names of the drawings alive

ASSUME OverlayAssumption ==
  Words \in Nat \ {0} /\ IsFiniteSet(Drawings) /\ Cardinality(Drawings) > 2 * Words

VARIABLES
  bitmap, active, pending, next, young, rejected,  \* the PL's registers: active and
                                                   \* next (config_pending) are
                                                   \* [hud, bank], young is hud_age
  column, freshHud, shown,         \* the frame scanned out: its next word, and
                                   \* history: the drawings it has shown
  initialized, hpc, bank, word, drawing  \* the application

plOverlay == <<bitmap, active, pending, next, young, rejected, column, freshHud, shown>>
psOverlay == <<initialized, hpc, bank, word, drawing>>
overlayVars == <<plOverlay, psOverlay>>

Blank == CHOOSE d \in Drawings : TRUE
NoHud == [hud |-> FALSE, bank |-> 0]

OverlayReset ==
  /\ active' = NoHud /\ next' = NoHud /\ pending' = FALSE /\ young' = FALSE
  /\ rejected' = FALSE /\ column' = Words + 1 /\ freshHud' = FALSE /\ shown' = {}
  /\ UNCHANGED bitmap

OverlayStart ==
  /\ bitmap = [b \in {0, 1} |-> [w \in 1..Words |-> Blank]]
  /\ active = NoHud /\ next = NoHud /\ pending = FALSE /\ young = FALSE
  /\ rejected = FALSE /\ column = Words + 1 /\ freshHud = FALSE /\ shown = {}
  /\ initialized = FALSE /\ hpc = "idle" /\ bank = 0 /\ word = 1 /\ drawing = Blank
-----------------------------------------------------------------------------
(* video_preview_overlay *)

\* Mutant of PixelConfig: a published bank is shown at once.
PixelConfigAtOnce(sof) == IF pending THEN next ELSE active
PixelConfig(sof) == IF sof /\ pending THEN next ELSE active

\* One word of the HUD's rows; the first comes with the start of the frame.
ScanWord(sof) ==
  LET w == IF sof THEN 1 ELSE column
      config == PixelConfig(sof)
      fresh == IF sof THEN pending \/ young ELSE freshHud
  IN /\ w <= Words
     /\ column' = w + 1
     /\ shown' = (IF sof THEN {} ELSE shown)
                 \cup (IF config.hud /\ fresh THEN {bitmap[config.bank][w]} ELSE {})
     /\ IF sof
        THEN /\ freshHud' = fresh
             /\ active' = config /\ pending' = FALSE /\ young' = (pending \/ young)
        ELSE UNCHANGED <<freshHud, active, pending, young>>
     /\ UNCHANGED <<bitmap, next, rejected>>

\* A drawing that is not replaced for HUD_TIMEOUT_CYCLES is hidden from the next frame on.
HudAges ==
  /\ young
  /\ young' = FALSE
  /\ UNCHANGED <<bitmap, active, pending, next, rejected, column, freshHud, shown>>

Scan == ((\E sof \in BOOLEAN : ScanWord(sof)) \/ HudAges) /\ UNCHANGED psOverlay

\* A write of a bitmap word: refused for the bank shown and for the bank published.
BitmapOk(b) == ~(active.hud /\ b = active.bank) /\ ~(pending /\ b = next.bank)
WriteWord(b, w, d) ==
  /\ IF BitmapOk(b) THEN bitmap' = [bitmap EXCEPT ![b][w] = d] /\ UNCHANGED rejected
     ELSE rejected' = TRUE /\ UNCHANGED bitmap
  /\ UNCHANGED <<active, pending, next, young, column, freshHud, shown>>

\* A write of register 8: one publication at a time.
PublishBank(b) ==
  /\ IF pending THEN rejected' = TRUE /\ UNCHANGED <<next, pending>>
     ELSE next' = [hud |-> TRUE, bank |-> b] /\ pending' = TRUE /\ UNCHANGED rejected
  /\ UNCHANGED <<bitmap, active, young, column, freshHud, shown>>
-----------------------------------------------------------------------------
(* The application *)

Alive == {bitmap[b][w] : b \in {0, 1}, w \in 1..Words}

\* runtime_preview_service: at most every 100 ms; not while the video DMA is in
\* error; and only when the overlay has taken the previous drawing.
PreviewService(videoError) ==
  /\ hpc = "idle"
  /\ ~videoError
  /\ initialized /\ ~pending
  /\ drawing' = CHOOSE d \in Drawings : d \notin Alive
  /\ hpc' = "submit"
  /\ UNCHANGED <<plOverlay, initialized, bank, word>>

FreeBank == 1 - active.bank

\* video_overlay_submit reads the status again.
Submit ==
  /\ hpc = "submit"
  /\ IF pending THEN hpc' = "idle" /\ UNCHANGED <<bank, word>>
     ELSE hpc' = "write" /\ bank' = FreeBank /\ word' = 1
  /\ UNCHANGED <<plOverlay, initialized, drawing>>

SubmitWord ==
  /\ hpc = "write"
  /\ IF word <= Words
     THEN WriteWord(bank, word, drawing) /\ word' = word + 1 /\ UNCHANGED hpc
     ELSE PublishBank(bank) /\ hpc' = "idle" /\ UNCHANGED word
  /\ UNCHANGED <<initialized, bank, drawing>>

\* An ARM reset, between any two accesses.
OverlayRestart ==
  /\ initialized' = FALSE /\ hpc' = "idle" /\ bank' = 0 /\ word' = 1 /\ drawing' = Blank
-----------------------------------------------------------------------------
(* A scanned-out frame shows one drawing, whole: never two halves, never a *)
(* bank that is being written, not even when the processor was reset half  *)
(* way through a submission.  The PL's refusals are a safety net that the  *)
(* application never falls into.                                           *)
HudWhole == Cardinality(shown) <= 1 /\ ~rejected
=============================================================================
