-------------------------------- MODULE Clients --------------------------------
(***************************************************************************)
(* Clients of an echo server and their TCP connections, as the server's    *)
(* system calls see them.  SelectServer.tla and EchoLoops.tla extend it    *)
(* with the servers of chapters 19 to 21.                                  *)
(*                                                                         *)
(* A byte is the client it comes from with its position in that client's   *)
(* stream.                                                                 *)
(***************************************************************************)
EXTENDS Integers, Sequences, SequencesExt

CONSTANTS
    Conns,        \* the connections clients make
    Total,        \* the bytes each of them sends
    PeerEnds,     \* the ends each of them may make: "fin", "reset", "abort"
    SendRoom,     \* bytes a socket holds between a send and the client's read
    BufferSize    \* BUFFER_SIZE, what the server reads at once

ASSUME ClientsAssumption ==
    /\ Total \in [Conns -> Nat]
    /\ PeerEnds \in [Conns -> SUBSET {"fin", "reset", "abort"}]
    /\ SendRoom \in Nat \ {0} /\ BufferSize \in Nat \ {0}

VARIABLES
    \* Of each connection.
    conn,      \* "none", "pending" in the listening queue, "open", "refused", "closed"
    sent, got, \* bytes the client has sent, and read
    peer,      \* "up"; "fin", no more bytes; "reset"; "abort", a reset after a fin
    rd, out    \* bytes the server has received, the bytes it has sent

clientVars == <<sent, got, peer>>
netVars    == <<conn, clientVars, rd, out>>

NetInit ==
    /\ conn = [c \in Conns |-> "none"] /\ peer = [c \in Conns |-> "up"]
    /\ sent = [c \in Conns |-> 0] /\ got = [c \in Conns |-> 0]
    /\ rd = [c \in Conns |-> 0] /\ out = [c \in Conns |-> <<>>]

NetTypeOK ==
    /\ conn \in [Conns -> {"none", "pending", "open", "refused", "closed"}]
    /\ sent \in [Conns -> Nat] /\ got \in [Conns -> Nat] /\ rd \in [Conns -> Nat]
    /\ peer \in [Conns -> {"up", "fin", "reset", "abort"}]
    /\ out \in [Conns -> Seq(Conns \X Nat)]

-----------------------------------------------------------------------------
Pending   == {c \in Conns : conn[c] = "pending"}
Unread(c) == sent[c] - rd[c]
Room(c)   == SendRoom - (Len(out[c]) - got[c])

\* There is something to read, or an end to notice.
HasInput(c) == Unread(c) > 0 \/ peer[c] # "up"

\* What a read returns: all that is there, as far as it fits.
ReadLen(c)   == IF Unread(c) < BufferSize THEN Unread(c) ELSE BufferSize
ReadBytes(c) == [b \in 1 .. ReadLen(c) |-> <<c, rd[c] + b>>]

-----------------------------------------------------------------------------
(* The clients.  A connection takes bytes before it is accepted.           *)

Connect(c) ==
    /\ conn[c] = "none"
    /\ conn' = [conn EXCEPT ![c] = "pending"]
    /\ UNCHANGED <<clientVars, rd, out>>

ClientSend(c) ==
    /\ conn[c] \in {"pending", "open"} /\ peer[c] = "up" /\ sent[c] < Total[c]
    /\ sent' = [sent EXCEPT ![c] = @ + 1]
    /\ UNCHANGED <<conn, got, peer, rd, out>>

ClientRead(c) ==
    /\ conn[c] = "open" /\ peer[c] \in {"up", "fin"} /\ got[c] < Len(out[c])
    /\ got' = [got EXCEPT ![c] = @ + 1]
    /\ UNCHANGED <<conn, sent, peer, rd, out>>

ClientEnd(c) ==
    /\ conn[c] \in {"pending", "open"}
    /\ \/ peer[c] = "up" /\ \E e \in PeerEnds[c] \cap {"fin", "reset"} :
                               peer' = [peer EXCEPT ![c] = e]
       \/ /\ peer[c] = "fin" /\ got[c] < Len(out[c]) /\ "abort" \in PeerEnds[c]
          /\ peer' = [peer EXCEPT ![c] = "abort"]
    /\ UNCHANGED <<conn, sent, got, rd, out>>
=============================================================================
