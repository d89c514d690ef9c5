----------------------------- MODULE BatchHost -----------------------------
(***************************************************************************)
(* vamp-host, the command-line host: main takes its command line apart,    *)
(* and runPlugin reads a sound file block by block, gives each block to a  *)
(* plugin and releases what it holds.                                      *)
(*                                                                         *)
(* Arguments are tokens, one for each kind that main tells apart.  Frames  *)
(* of the file are numbered from 0; a place of a block that is filled up   *)
(* with zeros holds Silence.  A frame stands for its sample on every       *)
(* channel.  Features and their layout are left out.                       *)
(***************************************************************************)
EXTENDS Integers, Sequences, FiniteSetsExt

CONSTANTS
    MaxArgs,        \* most arguments on a command line
    MaxFrames,      \* of a sound file
    Preferred       \* block and step sizes that plugins prefer, 0 for no preference

\* A plugin of the frequency domain that prefers blocks of one frame would be given
\* a step of 0.
BatchAssumption ==
    /\ MaxArgs \in Nat /\ MaxFrames \in Nat
    /\ Preferred \subseteq Nat \ {1}

DefaultBlock == 3   \* stands for 1024
Silence == -1

VARIABLES
    argv,
    request,            \* what runPlugin is called with, until it has looked at it
    sndfile, out, plugin,       \* what is held: "none", "open", "closed"; an output file
                                \* that is yet to be opened is "wanted"
    frames,             \* sfinfo.frames
    blockSize, stepSize,
    i,                  \* first frame of the next block
    pc,
    returnValue

\* History: the block that the plugin was given last, the number of blocks, and the
\* call that has failed.
VARIABLES block, blocks, failed

held == <<sndfile, out, plugin>>
sizes == <<frames, blockSize, stepSize>>
fed == <<i, block, blocks>>
vars == <<argv, request, held, sizes, fed, pc, returnValue, failed>>

-----------------------------------------------------------------------------
(* The command line *)

Listing == "-l"         \* -l, --list, -p, -v and their like
Assignment == "a=1"
Plugins == {"lib:plugin", "lib:plugin:output"}
OutputNo == "0"
Token == {"-a", Assignment, "-s", "-o", Listing, OutputNo, "name"} \cup Plugins

StandardOutput == ""

Requests(params) ==
    [params : params, frames : BOOLEAN, plugin : Plugins, infile : Token,
     numbered : BOOLEAN, outfile : Token \cup {StandardOutput}]
NoRequest == [params |-> 0, frames |-> FALSE, plugin |-> "lib:plugin",
              infile |-> "name", numbered |-> FALSE, outfile |-> StandardOutput]

\* The number of assignments that the command line begins with, and the first
\* argument after them.
Assignments == Max({k \in 0..(Len(argv) \div 2) :
                      \A j \in 1..k : argv[2 * j - 1] = "-a" /\ argv[2 * j] = Assignment})
AfterAssignments == 2 * Assignments + 1

useFrames == AfterAssignments <= Len(argv) /\ argv[AfterAssignments] = "-s"

\* Mutant: -s is not stepped over.
baseStays == AfterAssignments

\* The plugin's place, which is 2 whenever -s is given.
base == IF useFrames THEN 2 ELSE AfterAssignments

numbered == base + 2 <= Len(argv) /\ argv[base + 2] = OutputNo
Rest == SubSeq(argv, IF numbered THEN base + 3 ELSE base + 2, Len(argv))

\* The library and the file are taken from argv without a look at argc.
Misses == Len(argv) >= 2 /\ base + 1 > Len(argv)

\* usage(), the exit with status 2, in the order of the tests.
Misused ==
    \/ Len(argv) < 2 /\ argv # <<Listing>>
    \/ AfterAssignments <= Len(argv) /\ argv[AfterAssignments] = "-a"
    \/ ~Misses /\ Len(argv) >= 2 /\
       \/ Rest # <<>> /\ (Len(Rest) # 2 \/ Rest[1] # "-o")
       \/ argv[base] \notin Plugins
       \/ argv[base] = "lib:plugin:output" /\ numbered

Init ==
    /\ \E n \in 0..MaxArgs : argv \in [1..n -> Token]
    /\ request = NoRequest
    /\ sndfile = "none" /\ out = "none" /\ plugin = "none"
    /\ frames = 0 /\ blockSize = 0 /\ stepSize = 0
    /\ i = 0 /\ block = <<>> /\ blocks = 0
    /\ pc = "main" /\ returnValue = 0 /\ failed = "nothing"

\* A program that ends without runPlugin: after a list, after usage(), or for want
\* of an argument.
Exit ==
    /\ pc = "main"
    /\ \/ argv = <<Listing>> /\ returnValue' = 0 /\ pc' = "exit"
       \/ Misused /\ returnValue' = 2 /\ pc' = "exit"
       \/ Misses /\ ~Misused /\ pc' = "crash" /\ UNCHANGED returnValue
    /\ UNCHANGED <<argv, request, held, sizes, fed, failed>>

CallRunPlugin ==
    /\ pc = "main"
    /\ argv # <<Listing>> /\ ~Misused /\ ~Misses
    /\ request' = [params |-> Assignments, frames |-> useFrames, plugin |-> argv[base],
                   infile |-> argv[base + 1], numbered |-> numbered,
                   outfile |-> IF Rest = <<>> THEN StandardOutput ELSE Rest[2]]
    /\ argv' = <<>>
    /\ pc' = "open"
    /\ UNCHANGED <<held, sizes, fed, returnValue, failed>>

-----------------------------------------------------------------------------
(* runPlugin *)

\* A return before the label done.
ReturnEarly(what) ==
    /\ failed' = what
    /\ returnValue' = 1 /\ pc' = "exit"
    /\ UNCHANGED <<argv, sizes, fed>>

\* sf_open
OpenInput ==
    /\ pc = "open"
    /\ \/ /\ ReturnEarly("input")
          /\ UNCHANGED <<request, held>>
       \/ /\ sndfile' = "open" /\ frames' \in 0..MaxFrames
          /\ out' = IF request.outfile = StandardOutput THEN "none" ELSE "wanted"
          /\ request' = NoRequest
          /\ pc' = "output"
          /\ UNCHANGED <<argv, plugin, blockSize, stepSize, fed, returnValue, failed>>

\* The output file, if one is asked for.  The sound file stays open if that fails.
OpenOutput ==
    /\ pc = "output"
    /\ \/ /\ out = "wanted" /\ out' = "none"
          /\ ReturnEarly("output")
          /\ UNCHANGED <<request, sndfile, plugin>>
       \/ /\ out' = IF out = "wanted" THEN "open" ELSE out
          /\ pc' = "load"
          /\ UNCHANGED <<argv, request, sndfile, plugin, sizes, fed, returnValue, failed>>

\* Mutant: no sanity check.
SizesAsPreferred(b, s, frequency) ==
    [block |-> IF b = 0 THEN DefaultBlock ELSE b, step |-> IF s = 0 THEN b ELSE s]

\* The sizes in effect for those that a plugin prefers.
Sizes(b, s, frequency) ==
    LET blk == IF b = 0 THEN DefaultBlock ELSE b
    IN  CASE s = 0 -> [block |-> blk, step |-> IF frequency THEN blk \div 2 ELSE blk]
          [] s > blk -> [block |-> IF frequency THEN 2 * s ELSE s, step |-> s]
          [] OTHER -> [block |-> blk, step |-> s]

\* loadPlugin, and the sizes of blocks and steps.
LoadPlugin ==
    /\ pc = "load"
    /\ \/ /\ ReturnEarly("load")
          /\ sndfile' = "closed" /\ out' = (IF out = "open" THEN "closed" ELSE out)
          /\ UNCHANGED <<request, plugin>>
       \/ \E b, s \in Preferred, frequency \in BOOLEAN :
            /\ plugin' = "open"
            /\ blockSize' = Sizes(b, s, frequency).block
            /\ stepSize' = Sizes(b, s, frequency).step
            /\ returnValue' = 1
            /\ pc' = "initialise"
            /\ UNCHANGED <<argv, request, sndfile, out, frames, fed, failed>>

\* The plugin lacks the output that is asked for, or is not initialised; else the
\* loop begins.
Initialise ==
    /\ pc = "initialise"
    /\ \/ failed' = "plugin" /\ pc' = "done"
       \/ pc' = "loop" /\ UNCHANGED failed
    /\ UNCHANGED <<argv, request, held, sizes, fed, returnValue>>

\* The block that starts at frame i, filled up with zeros past the end.
BlockAt == [j \in 1..blockSize |-> IF i + j - 1 < frames THEN i + j - 1 ELSE Silence]

\* One iteration.
ProcessBlock ==
    /\ pc = "loop" /\ i < frames
    /\ block' = BlockAt /\ blocks' = blocks + 1
    /\ i' = i + stepSize
    /\ UNCHANGED <<argv, request, held, sizes, pc, returnValue, failed>>

\* sf_seek or sf_readf_float fails: the loop is left, but what follows it is done as
\* if the file had ended.
ReadFails ==
    /\ pc = "loop" /\ i < frames
    /\ failed' = "read"
    /\ pc' = "remaining"
    /\ UNCHANGED <<argv, request, held, sizes, fed, returnValue>>

LoopEnds ==
    /\ pc = "loop" /\ i >= frames
    /\ pc' = "remaining"
    /\ UNCHANGED <<argv, request, held, sizes, fed, returnValue, failed>>

\* getRemainingFeatures
Remaining ==
    /\ pc = "remaining"
    /\ returnValue' = 0
    /\ pc' = "done"
    /\ UNCHANGED <<argv, request, held, sizes, fed, failed>>

\* Mutant: the sound file is forgotten.
DoneNoClose ==
    /\ pc = "done"
    /\ plugin' = "closed" /\ out' = (IF out = "open" THEN "closed" ELSE out)
    /\ pc' = "exit"
    /\ UNCHANGED <<argv, request, sndfile, sizes, fed, returnValue, failed>>

\* The label done.
Done ==
    /\ pc = "done"
    /\ plugin' = "closed" /\ out' = (IF out = "open" THEN "closed" ELSE out)
    /\ sndfile' = "closed"
    /\ pc' = "exit"
    /\ UNCHANGED <<argv, request, sizes, fed, returnValue, failed>>

Next ==
    \/ Exit \/ CallRunPlugin
    \/ OpenInput \/ OpenOutput \/ LoadPlugin \/ Initialise
    \/ ProcessBlock \/ ReadFails \/ LoopEnds \/ Remaining \/ Done

Spec == Init /\ [][Next]_vars

-----------------------------------------------------------------------------
(* Properties *)

TypeOK ==
    /\ argv \in Seq(Token)
    /\ request \in Requests(Nat)
    /\ {sndfile, out, plugin} \subseteq {"none", "wanted", "open", "closed"}
    /\ frames \in 0..MaxFrames /\ {blockSize, stepSize, i, blocks} \subseteq Nat
    /\ pc \in {"main", "open", "output", "load", "initialise", "loop", "remaining", "done",
              "exit", "crash"}
    /\ returnValue \in 0..2
    /\ failed \in {"nothing", "input", "output", "load", "plugin", "read"}

\* The command line of a request, as the usage message describes it.
CommandLine(r) ==
    [n \in 1..(2 * r.params) |-> IF n % 2 = 1 THEN "-a" ELSE Assignment]
    \o (IF r.frames THEN <<"-s">> ELSE <<>>)
    \o <<r.plugin, r.infile>>
    \o (IF r.numbered THEN <<OutputNo>> ELSE <<>>)
    \o (IF r.outfile = StandardOutput THEN <<>> ELSE <<"-o", r.outfile>>)

\* The numbers of assignments and of options that command lines of this length have.
Shapes ==
    {x \in [params : 0..MaxArgs, frames : 0..1, numbered : 0..1, redirected : 0..1] :
        2 * x.params + x.frames + 2 + x.numbered + 2 * x.redirected = Len(argv)}

\* The request that the command line stands for if it has this shape.
Reading(x) ==
    [params |-> x.params, frames |-> x.frames = 1,
     plugin |-> argv[2 * x.params + x.frames + 1],
     infile |-> argv[2 * x.params + x.frames + 2],
     numbered |-> x.numbered = 1,
     outfile |-> IF x.redirected = 1 THEN argv[Len(argv)] ELSE StandardOutput]

\* The requests that the command line may stand for by the usage message: it has to be
\* one of so many assignments and options in the order given there.
Allowed ==
    {r \in {Reading(x) : x \in Shapes} :
        /\ r.plugin \in Plugins
        /\ ~(r.plugin = "lib:plugin:output" /\ r.numbered)
        /\ CommandLine(r) = argv}

\* Those of them that do not give both -a and -s, a combination that main refuses.
Meanings == {r \in Allowed : ~(r.frames /\ r.params > 0)}

\* Command lines with both -a and -s aside, runPlugin is called for just those that the
\* usage message allows, with what it says they mean: whatever the options, nothing is
\* taken for another thing.  No command line with both gets through under a false
\* meaning either.
ArgumentsFollowUsage ==
    [][pc = "main" => IF pc' = "open" THEN Meanings = {request'} ELSE Meanings = {}]_vars

\* Only command lines that the usage message does not allow are answered with it.  The
\* code breaks this for -a followed by -s.
UsageIsAccepted == pc = "exit" /\ returnValue = 2 => Allowed = {}

\* The plugin is given the whole file: the k-th block starts k steps from the first
\* frame, holds the file's frames in order and then zeros, no frame falls between two
\* blocks whatever sizes the plugin prefers, and the file's end is reached unless a
\* read fails.
FileIsCovered ==
    /\ i = blocks * stepSize
    /\ blocks > 0 =>
         \A j \in 1..blockSize :
            LET f == (blocks - 1) * stepSize + j - 1
            IN  block[j] = IF f < frames THEN f ELSE Silence
    /\ plugin = "open" => stepSize \in 1..blockSize
    /\ pc = "remaining" /\ failed = "nothing" => blocks * stepSize >= frames

\* Whatever fails on the way, the program ends with nothing held, and with a status
\* that tells of the failure; but it keeps the sound file if the output file cannot
\* be opened, and takes an error of reading for the end of the file.
EndsCleanly ==
    pc = "exit" =>
        /\ out # "open" /\ plugin # "open"
        /\ sndfile = "open" => failed = "output"
        /\ returnValue = 0 => failed \in {"nothing", "read"}
=============================================================================
