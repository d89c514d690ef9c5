------------------------------ MODULE DataParts ------------------------------
(***************************************************************************)
(* The sequential parts of both programs, side by side: block assembly of  *)
(* a plugin, the data path of a device, a radio's stream and its rate, and *)
(* the command-line host.  They share nothing; a behaviour runs one of     *)
(* them, and the others rest in some initial state.                        *)
(***************************************************************************)
EXTENDS PluginRunner

CONSTANTS   \* of a device, see DevMinder
    RawLabel, NumChans, HwRate, DevRate, Requested, ShortMax, Garbage, DevAvail,
    DevFrame

CONSTANTS   \* of a radio and of the search for its rate, see RTLSDRMinder, RadioRate
    HeaderLen, DataLens, MaxSamples, Lo1, Hi1, Lo2, Hi2, Rates

CONSTANTS   \* of the command-line host, see BatchHost
    MaxArgs, MaxFrames, Preferred

VARIABLE runs       \* which part this behaviour is about

VARIABLES
    numChan, rawListeners, live, plugged, demodFMForRaw, downSampleFactor,
    downSampleCount, taken, deviceGot, left, counted, fed

VARIABLES
    sent, wire, segi, header, bytesAvail, buf, stampSum, numTSest, radioPc, radioGot, odd

VARIABLES rate, hwRate, ratePc, tries

VARIABLES
    argv, request, sndfile, out, plugin, frames, blockSize, stepSize, i, batchPc,
    returnValue, batchBlock, batchBlocks, failed

Device == INSTANCE DevMinder WITH
    Label <- RawLabel, Rate <- DevRate, MaxAvail <- DevAvail, MaxFrame <- DevFrame,
    got <- deviceGot

Radio == INSTANCE RTLSDRMinder WITH
    frameTimestamp <- stampSum, pc <- radioPc, got <- radioGot

Rate == INSTANCE RadioRate WITH pc <- ratePc

Batch == INSTANCE BatchHost WITH
    pc <- batchPc, block <- batchBlock, blocks <- batchBlocks

ASSUME PartAssumptions ==
    /\ Device!DeviceAssumption /\ Radio!RadioAssumption
    /\ Rate!RateAssumption /\ Batch!BatchAssumption

deviceVars == <<numChan, rawListeners, live, plugged, demodFMForRaw, downSampleFactor,
                downSampleCount, taken, deviceGot, left, counted, fed>>
radioVars == <<sent, wire, segi, header, bytesAvail, buf, stampSum, numTSest, radioPc,
               radioGot, odd>>
rateVars == <<rate, hwRate, ratePc, tries>>
batchVars == <<argv, request, sndfile, out, plugin, frames, blockSize, stepSize, i, batchPc,
               returnValue, batchBlock, batchBlocks, failed>>
allVars == <<runs, vars, deviceVars, radioVars, rateVars, batchVars>>

DataInit ==
    /\ runs \in {"plugin", "device", "radio", "rate", "batch"}
    /\ IF runs = "device" THEN TRUE ELSE numChan = CHOOSE c \in NumChans : TRUE
    /\ IF runs = "rate" THEN TRUE ELSE rate = CHOOSE r \in Rates : TRUE
    /\ IF runs = "batch" THEN TRUE ELSE argv = <<>>
    /\ Init /\ Device!Init /\ Radio!Init /\ Rate!Init /\ Batch!Init

RunPlugin ==
    /\ runs = "plugin" /\ Next
    /\ UNCHANGED <<runs, deviceVars, radioVars, rateVars, batchVars>>

RunDevice ==
    /\ runs = "device" /\ Device!Next
    /\ UNCHANGED <<runs, vars, radioVars, rateVars, batchVars>>

RunRadio ==
    /\ runs = "radio" /\ Radio!Next
    /\ UNCHANGED <<runs, vars, deviceVars, rateVars, batchVars>>

RunRate ==
    /\ runs = "rate" /\ Rate!Next
    /\ UNCHANGED <<runs, vars, deviceVars, radioVars, batchVars>>

RunBatch ==
    /\ runs = "batch" /\ Batch!Next
    /\ UNCHANGED <<runs, vars, deviceVars, radioVars, rateVars>>

DataNext == RunPlugin \/ RunDevice \/ RunRadio \/ RunRate \/ RunBatch

DataSpec == DataInit /\ [][DataNext]_allVars

-----------------------------------------------------------------------------
(* What the parts promise; a property of the plugin's block assembly has the   *)
(* name it has there.                                                          *)

\* Each part's state has its type; a plugin's buffer is never full between iterations.
PartTypesOK == TypeOK /\ Device!TypeOK /\ Radio!TypeOK /\ Batch!TypeOK

\* A raw listener is given every downSampleFactor-th frame, with the samples of one frame
\* on all channels together; so are a plugin's, once the counts have been assigned and
\* as long as nothing is demodulated.
RawIsWhole == Device!RawIsWhole

\* As long as no read ends between the samples of a pair, the radio's samples are put
\* together without loss, swapped channels or bytes of headers, wherever else the reads
\* end, and the time of the first one is estimated right.
StreamIsWhole == Radio!StreamIsWhole

\* The radio's rate is the least supported multiple of the one asked for.
RateIsLeast == Rate!RateIsLeast

\* The command-line host gives the plugin the whole file.
FileIsCovered == Batch!FileIsCovered

\* The command-line host ends with nothing held and tells of failures, those of reading
\* and of opening the output file aside.
EndsCleanly == Batch!EndsCleanly

\* The command line means what the usage message says, -a with -s aside.
ArgumentsFollowUsage == Batch!ArgumentsFollowUsage
=============================================================================
