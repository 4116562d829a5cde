---------------------------- MODULE MCAlgorithms ----------------------------
(* The limiters, the chunker and the search, which share nothing: a        *)
(* behaviour is one of one of them, and the two others never begin.        *)
EXTENDS Limiters, Chunking, Search

VARIABLE machine
vars == <<machine, limiterVars, chunkingVars, searchVars>>

NoLimiter == /\ limiter = "login" /\ now = 0 /\ table = <<>> /\ lastSweep = 0
             /\ reading = <<>> /\ log = {} /\ calls = 0 /\ refused = NoKey
NoText == /\ text = <<>> /\ pos = 0 /\ offset = 0 /\ inFence = FALSE
          /\ path = <<>> /\ todo = <<>> /\ chunks = <<>>
          /\ buf = Unfilled(0)
NoSearch == /\ rows = <<>> /\ fresh = {} /\ changes = 0 /\ pc = "none"
            /\ level = "none" /\ lex = <<>> /\ vec = <<>> /\ all = <<>>
            /\ asked = Unasked /\ answer = NoAnswer

Init == \/ machine = "limiters" /\ LimitersInit /\ NoText /\ NoSearch
        \/ machine = "chunking" /\ ChunkingInit /\ NoLimiter /\ NoSearch
        \/ machine = "search" /\ SearchInit /\ NoLimiter /\ NoText

Next == \/ /\ machine = "limiters" /\ LimitersNext
           /\ UNCHANGED <<machine, chunkingVars, searchVars>>
        \/ /\ machine = "chunking" /\ ChunkingNext
           /\ UNCHANGED <<machine, limiterVars, searchVars>>
        \/ /\ machine = "search" /\ SearchNext
           /\ UNCHANGED <<machine, limiterVars, chunkingVars>>

Spec == Init /\ [][Next]_vars

-----------------------------------------------------------------------------
\* A blank line, a fence, headings of each level, a line, one that fills a
\* chunk, and an oversized one, with a blank between two of its sentences.
L(v, f, n, s) == [level |-> v, fence |-> f, len |-> n, segs |-> s]
Lines == {L(0, FALSE, 0, <<>>), L(0, TRUE, 1, <<1>>), L(1, FALSE, 2, <<2>>),
          L(2, FALSE, 2, <<2>>), L(3, FALSE, 1, <<1>>), L(0, FALSE, 2, <<2>>),
          L(0, FALSE, 5, <<5>>), L(0, FALSE, 10, <<3, 4, 2>>)}
AskedFor == {-1, 1, 2, 7}
Symmetry == Permutations(Key) \cup Permutations(Caller)
=============================================================================
