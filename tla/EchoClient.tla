------------------------------ MODULE EchoClient ------------------------------
(***************************************************************************)
(* The clients of the C server, 22_Linux高并发服务器/client: client.c      *)
(* sends a line and shows the answer before it reads the next line,        *)
(* client2.c does so with ten lines of its own.  Both block in write and   *)
(* read and go by lengths of 16 bits; the length of a line has no such     *)
(* bound.                                                                  *)
(*                                                                         *)
(* The server is what the client relies on: it cuts the stream into        *)
(* messages by their heads, writes each back as it came, and closes on a   *)
(* length that it refuses (its read of an empty body is one).  A byte is   *)
(* its position in the client's stream.  What the echo consists of is the  *)
(* stream up to the last whole message, so that neither needs its bytes.   *)
(* A message is where it begins in the stream and the length of its body.  *)
(***************************************************************************)
EXTENDS Integers, Sequences, SequencesExt

CONSTANTS
    FieldLen,    \* bytes of type and of length, 2
    LenMod,      \* what a length is sent modulo, 65536
    LongestBody, \* BUFF_SIZE of the server
    Inputs       \* the sequences of line lengths that may be typed

ASSUME ClientAssumption ==
    /\ FieldLen \in Nat \ {0} /\ LenMod \in Nat \ {0}
    /\ LongestBody \in 0 .. LenMod - 1
    /\ Inputs \subseteq Seq(Nat)

VARIABLES
    \* The client.
    lines,   \* the lengths of the lines to be typed
    line,    \* lines read so far; the last is the one at hand
    at,      \* "prompt", "write"; "type", "len", "body", what read_full is reading;
             \* "closed", "noMemory", "killed", its ends
    typed,   \* the lines written, as messages
    taken,   \* bytes read
    want,    \* bytes that read_full has still to read
    from,    \* where the answer at hand begins
    rspLen,  \* rsp_len
    shown,   \* the answers shown, as messages
    \* The server.
    serving, \* the connection is open
    parsed,  \* the messages it has read whole
    due,     \* the length of the message whose head it has read, or NONE
    echoed   \* bytes it has written back

clientVars == <<lines, line, at, typed, taken, want, from, rspLen, shown>>
serverVars == <<serving, parsed, due, echoed>>
echoClientVars == <<clientVars, serverVars>>

NONE    == -1
HeadSize    == 2 * FieldLen
Reading == at \in {"type", "len", "body"}
Ended   == at \in {"closed", "noMemory", "killed"}

\* Where the first n of these messages end, and the next one begins.
After(msgs, n) == IF n = 0 THEN 0 ELSE msgs[n].from + HeadSize + msgs[n].len

Wrote  == After(typed, Len(typed))
Parsed == After(parsed, Len(parsed))

Least(a, b) == IF a < b THEN a ELSE b

EchoClientInit ==
    /\ lines \in Inputs
    /\ line = 0 /\ at = "prompt"
    /\ typed = <<>> /\ taken = 0 /\ want = 0 /\ from = 0 /\ rspLen = 0 /\ shown = <<>>
    /\ serving = TRUE /\ parsed = <<>> /\ due = NONE /\ echoed = 0

-----------------------------------------------------------------------------
(* The client's loop.                                                      *)

\* getline; or the end of the input, or of client2's rounds.
ReadLine ==
    /\ at = "prompt" /\ line < Len(lines)
    /\ line' = line + 1 /\ at' = "write"
    /\ UNCHANGED <<lines, typed, taken, want, from, rspLen, shown, serverVars>>

EndOfInput ==
    /\ at = "prompt"
    /\ at' = "closed"
    /\ UNCHANGED <<lines, line, typed, taken, want, from, rspLen, shown, serverVars>>

\* The write blocks until all is in the socket.  What goes to a server that has closed is
\* lost, if it does not fail.
WriteLine ==
    /\ at = "write"
    /\ typed' = Append(typed, [from |-> Wrote, len |-> lines[line]])
    /\ at' = "type" /\ want' = FieldLen /\ from' = taken
    /\ UNCHANGED <<lines, line, taken, rspLen, shown, serverVars>>

\* ECONNRESET, or EPIPE with its signal, which nobody ignores.
WriteFails ==
    /\ at = "write" /\ ~serving
    /\ at' \in {"closed", "killed"}
    /\ UNCHANGED <<lines, line, typed, taken, want, from, rspLen, shown, serverVars>>

\* One of the two mallocs fails: the message's, or the answer's before its body is read.
NoMemory ==
    /\ at = "write" \/ (at = "body" /\ want = rspLen)
    /\ at' = "noMemory"
    /\ UNCHANGED <<lines, line, typed, taken, want, from, rspLen, shown, serverVars>>

\* The lengths that the bytes at p of the echo may announce: any, if no head begins there.
EchoedLens(p) ==
    LET here == {i \in DOMAIN parsed : parsed[i].from = p}
    IN IF here = {} THEN 0 .. LongestBody ELSE {parsed[i].len : i \in here}

\* What read_full reads next: the length after the type, the body after the length.
NextField ==
    IF at = "type" THEN at' = "len" /\ want' = FieldLen /\ UNCHANGED rspLen
    ELSE at' = "body" /\ rspLen' \in EchoedLens(from) /\ want' = rspLen'

\* Mutant: a short read counts as a whole one.
ReadFullShort ==
    /\ Reading /\ want > 0
    /\ \E n \in 1 .. Least(want, echoed - taken) :
        /\ taken' = taken + n
        /\ IF at = "body" THEN want' = 0 /\ UNCHANGED <<at, rspLen>> ELSE NextField
    /\ UNCHANGED <<lines, line, typed, from, shown, serverVars>>

\* A read in read_full, which goes on until it has all.
ReadFull ==
    /\ Reading /\ want > 0
    /\ \E n \in 1 .. Least(want, echoed - taken) :
        /\ taken' = taken + n
        /\ IF n < want \/ at = "body" THEN want' = want - n /\ UNCHANGED <<at, rspLen>>
           ELSE NextField
    /\ UNCHANGED <<lines, line, typed, from, shown, serverVars>>

\* Mutant: the end of the stream in read_full is taken for a read to be repeated.
ReadFailsRetried ==
    /\ Reading /\ want > 0 /\ ~serving
    /\ UNCHANGED echoClientVars

\* The server has closed: the end of the stream, or an error before it.
ReadFails ==
    /\ Reading /\ want > 0 /\ ~serving
    /\ at' = "closed"
    /\ UNCHANGED <<lines, line, typed, taken, want, from, rspLen, shown, serverVars>>

Show ==
    /\ at = "body" /\ want = 0
    /\ shown' = Append(shown, [from |-> from, len |-> rspLen])
    /\ at' = "prompt"
    /\ UNCHANGED <<lines, line, typed, taken, want, from, rspLen, serverVars>>

ClientProgram ==
    \/ ReadLine \/ EndOfInput \/ WriteLine \/ WriteFails \/ NoMemory
    \/ ReadFull \/ ReadFails \/ Show

-----------------------------------------------------------------------------
(* The server.                                                             *)

\* The lengths that the client's bytes at p may announce.  A line that is longer than its
\* head says leaves text where the server looks for a head.
SentLens(p) ==
    LET here == {i \in DOMAIN typed : typed[i].from = p}
    IN IF here = {} THEN 0 .. LongestBody + 1 ELSE {typed[i].len % LenMod : i \in here}

ServerHead ==
    /\ serving /\ due = NONE /\ Parsed + HeadSize <= Wrote
    /\ \E len \in SentLens(Parsed) :
        IF len \in 1 .. LongestBody THEN due' = len /\ UNCHANGED serving
        ELSE serving' = FALSE /\ UNCHANGED due
    /\ UNCHANGED <<clientVars, parsed, echoed>>

ServerBody ==
    /\ serving /\ due # NONE /\ Parsed + HeadSize + due <= Wrote
    /\ parsed' = Append(parsed, [from |-> Parsed, len |-> due]) /\ due' = NONE
    /\ UNCHANGED <<clientVars, serving, echoed>>

ServerWrite ==
    /\ serving
    /\ echoed' \in echoed + 1 .. Parsed
    /\ UNCHANGED <<clientVars, serving, parsed, due>>

ServerOfClient == ServerHead \/ ServerBody \/ ServerWrite

EchoClientNext == ClientProgram \/ ServerOfClient

\* The client does what it can, and so does the server; memory need not run out.
EchoClientFairness ==
    /\ WF_echoClientVars(ReadLine) /\ WF_echoClientVars(WriteLine)
    /\ WF_echoClientVars(ReadFull) /\ WF_echoClientVars(ReadFails) /\ WF_echoClientVars(Show)
    /\ WF_echoClientVars(ServerOfClient)

-----------------------------------------------------------------------------
(* Properties.                                                             *)

EchoClientTypeOK ==
    /\ lines \in Inputs /\ line \in 0 .. Len(lines)
    /\ at \in {"prompt", "write", "type", "len", "body", "closed", "noMemory", "killed"}
    /\ typed \in Seq([from : Nat, len : Nat])
    /\ {taken, want, from, rspLen, echoed} \subseteq Nat
    /\ shown \in Seq([from : Nat, len : 0 .. LongestBody])
    /\ serving \in BOOLEAN
    /\ parsed \in Seq([from : Nat, len : 1 .. LongestBody]) /\ due \in 1 .. LongestBody \cup {NONE}

\* Line i and those before it have a length that their heads can say.
Sayable(i) == \A j \in DOMAIN lines : j <= i => lines[j] < LenMod

\* The client shows what the server has cut, answer by answer: both read the stream by the
\* same heads and stay in step, also behind a line whose length was cut to 16 bits.  Up to
\* the first such line the answer that is shown for a line is that line.
ShownIsTyped ==
    /\ EchoClientTypeOK
    /\ Len(shown) <= Len(parsed)
    /\ \A i \in DOMAIN shown :
        /\ shown[i] = parsed[i]
        /\ Sayable(i) => shown[i] = [from |-> typed[i].from, len |-> lines[i]]

\* The lock step of client and server does not get stuck: a line is answered.  The client
\* ends instead of waiting if the server refuses that line or one before it, or if
\* memory runs out.  A line behind one with a cut length may wait for ever.
EveryLineIsAnswered ==
    \A i \in 1 .. Max({Len(input) : input \in Inputs}) :
        line >= i /\ Sayable(i) ~>
            \/ Len(shown) >= i \/ at = "noMemory"
            \/ Ended /\ \E j \in DOMAIN lines : j <= i /\ lines[j] \notin 1 .. LongestBody
=============================================================================
