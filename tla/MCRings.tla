-------------------------------- MODULE MCRings --------------------------------
(***************************************************************************)
(* Instances of CondRing, SemBuffers and ThreadServer, the programs with   *)
(* threads of chapters 14 to 17, for TLC: in a behaviour one of the three  *)
(* runs, the others stay where they start.                                 *)
(***************************************************************************)
EXTENDS CondRing, SemBuffers, ThreadServer

VARIABLE running

McVars == <<vars, semVars, threadedVars, running>>

\* A module that does not run starts in one of its initial states, whichever.
McInit ==
    /\ Init /\ SemInit /\ ThreadedInit
    /\ running \in {"cond", "sem", "threaded"}
    /\ running # "sem" => scheme = "ring"
    /\ running # "threaded" => style = "turns"

McNext ==
    \/ running = "cond" /\ Next /\ UNCHANGED <<semVars, threadedVars, running>>
    \/ running = "sem" /\ SemNext /\ UNCHANGED <<vars, threadedVars, running>>
    \/ running = "threaded" /\ ThreadedNext /\ UNCHANGED <<vars, semVars, running>>

McSpec ==
    /\ McInit /\ [][McNext]_McVars
    /\ \/ running = "cond" /\ Fairness
       \/ running = "sem" /\ SemFairness
       \/ running = "threaded" /\ ThreadedFairness

\* BothEnd of CondRing, where it runs: the threads under the condition variables end.
CondBothEnd == running = "cond" => BothEnd

\* ProgramEnds of SemBuffers, where it runs: quit, or the last item, ends the program
\* unless the reader zeroes the line between main's post and its test.
SemProgramEnds == running = "sem" => ProgramEnds
=============================================================================
