----------------------------- MODULE MCPollable -----------------------------
\* Two client labels (one before and one after the sockets in label order), two
\* connections and the listener; four objects, so that labels are replaced.
EXTENDS Pollable, TLC

CONSTANTS f1, f2

MCFdLabel == f1 :> 3 @@ f2 :> 4
=============================================================================
