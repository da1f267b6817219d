--------------------------- MODULE MCFrameSystem ---------------------------
EXTENDS FrameSystem

FullTables == {{"overfull"}}

\* No faults; what can happen to an image; what can happen to a result; a slow memory
\* together with full tables.
Worlds ==
  {{},
   {"truncate", "dmaError", "slowDma", "stall"},
   {"overfull", "watchdog"},
   {"truncate", "slowDma", "overfull"}}
=============================================================================
