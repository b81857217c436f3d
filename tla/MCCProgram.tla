------------------------------ MODULE MCCProgram ------------------------------
(***************************************************************************)
(* Instances of CServer and of EchoClient for TLC: in a behaviour one of   *)
(* the two runs, the other stays where it starts.                          *)
(***************************************************************************)
EXTENDS MCCServer, EchoClient

VARIABLE running

McVars == <<vars, echoClientVars, running>>

\* The other program stays at one of its initial states, whichever.
McInit ==
    /\ Init /\ EchoClientInit
    /\ \/ running = "server" /\ lines = <<>>
       \/ running = "client" /\ starts = <<0, 4, 6>>

McNext ==
    \/ running = "server" /\ Next /\ UNCHANGED <<echoClientVars, running>>
    \/ running = "client" /\ EchoClientNext /\ UNCHANGED <<vars, running>>

McSpec ==
    /\ McInit /\ [][McNext]_McVars
    /\ \/ running = "server" /\ Fairness
       \/ running = "client" /\ EchoClientFairness

\* Lines that are short, empty, longest, one too long for the server, and lines whose
\* length the head cannot say: all of LenMod, which announces none, and one more.
McInputs == {<<>>, <<1, 2, 1>>, <<2, 0, 1>>, <<1, 6, 1>>, <<5, 1>>, <<7, 1, 2>>, <<8, 1, 1>>}
=============================================================================
