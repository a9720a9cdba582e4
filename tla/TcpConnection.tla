---------------------------- MODULE TcpConnection ----------------------------
(***************************************************************************)
(* The one TCP connection between File_transfer/file_server.cpp and        *)
(* File_transfer/file_client.cpp, as their socket calls see it.  All data  *)
(* flows from the server to the client, so one byte stream is enough.      *)
(*                                                                         *)
(* The stream starts with the HdrLen bytes of the server's int64_t         *)
(* fileSize (8 in the code) and continues with bytes of the image.  A byte *)
(* is represented by where it comes from: the byte at offset o of the      *)
(* image is the number o, and byte n (1..HdrLen) of the header is the      *)
(* negative number n-1-HdrLen.  The stream of a faultless transfer is      *)
(* therefore -HdrLen, ..., -1, 0, 1, 2, ...                                *)
(*                                                                         *)
(* The kernel's part is modelled from how the programs use it: send()      *)
(* copies bytes into a bounded buffer and blocks while that is full,       *)
(* recv() returns whatever has arrived, up to the count asked for.         *)
(***************************************************************************)
EXTENDS Integers, Sequences, FiniteSetsExt

CONSTANTS
    HdrLen,   \* sizeof(fileSize)
    Chunk,    \* chunkSize, the same 8192 in both programs
    SockBuf,  \* bytes the send and receive buffers hold together
    Cuts,     \* stream positions at which a TCP segment may end
    Resets    \* TRUE: the network may break the connection

ASSUME TcpAssumption ==
    /\ HdrLen \in Nat \ {0}
    /\ Chunk \in Nat \ {0}
    /\ SockBuf \in Nat \ {0}
    /\ Cuts \subseteq Nat
    /\ Resets \in BOOLEAN

VARIABLES
    wire,       \* every byte the server's send() calls have accepted
    arrived,    \* how many of them the client's kernel holds or has delivered
    rcvd,       \* how many of them the client's recv() calls have returned
    listening,  \* the server's socket is in the listen state
    srvEnd,     \* the server's end of the connection
    cliEnd,     \* the client's end
    broken,     \* the client's end has been reset
    errSeen,    \* recv() has already reported that reset
    fileSize    \* the value the header bytes encode: fileSize in transmit_image

sndVars  == <<wire, listening, srvEnd, fileSize>>
rcvVars  == <<rcvd, cliEnd, errSeen>>
netVars  == <<arrived, broken>>
tcpVars  == <<sndVars, rcvVars, netVars>>

Ends == {"none", "open", "closed"}

TcpInit ==
    /\ wire = << >> /\ arrived = 0 /\ rcvd = 0
    /\ listening = FALSE /\ srvEnd = "none" /\ cliEnd = "none"
    /\ broken = FALSE /\ errSeen = FALSE
    /\ fileSize = 0

\* k consecutive bytes, the first of which is b
Bytes(b, k) == [x \in 1..k |-> b + x - 1]

------------------------------------------------------------------------------
(* The sending side. *)

Room == SockBuf - (Len(wire) - rcvd)

\* The kernel takes k more bytes of a send() in progress.
PutBytes(b, k) ==
    /\ k <= Room
    /\ wire' = wire \o Bytes(b, k)

\* A send() that starts now fails: the peer has gone or the path is down.
SendFails == broken \/ cliEnd = "closed"

\* The end of the server process.  A connection it never accepted is reset, one
\* it accepted is closed after the bytes already in the buffers.
CloseServer(accepted) ==
    /\ listening' = FALSE
    /\ srvEnd' = IF srvEnd = "open" THEN "closed" ELSE srvEnd
    /\ broken' = (broken \/ (srvEnd = "open" /\ ~accepted))

------------------------------------------------------------------------------
(* The receiving side. *)

Avail == arrived - rcvd

\* What recv() with room for n bytes finds: data, the end of the stream (a
\* return of 0, now and for ever), or an error, which it reports once.
RecvCount(n) == Min({n, Avail})
RecvEof ==
    /\ Avail = 0
    /\ \/ broken /\ errSeen
       \/ ~broken /\ srvEnd = "closed" /\ arrived = Len(wire)
RecvError == Avail = 0 /\ broken /\ ~errSeen

\* The client process ends, and with it its end of the connection.
CloseClient == cliEnd' = IF cliEnd = "open" THEN "closed" ELSE cliEnd

------------------------------------------------------------------------------
(* The network. *)

\* Segments arrive in order.  One ends at a position in Cuts or, once the server
\* has closed, at the end of the stream.
Arrive ==
    /\ ~broken /\ cliEnd = "open"
    /\ \E p \in arrived + 1 .. Len(wire) :
          /\ p \in Cuts \/ (p = Len(wire) /\ srvEnd = "closed")
          /\ arrived' = p
    /\ UNCHANGED <<sndVars, rcvVars, broken>>

\* The path fails: what has not arrived is lost, both ends get errors.
Reset ==
    /\ Resets /\ ~broken /\ cliEnd = "open"
    /\ srvEnd = "open" \/ arrived < Len(wire)
    /\ broken' = TRUE
    /\ UNCHANGED <<sndVars, rcvVars, arrived>>

NetStep == Arrive \/ Reset

TcpCountsOK ==
    /\ wire \in Seq(Int)
    /\ arrived \in 0..Len(wire)
    /\ rcvd \in 0..arrived
    /\ fileSize \in Int
TcpFlagsOK ==
    /\ listening \in BOOLEAN
    /\ srvEnd \in Ends /\ cliEnd \in Ends
    /\ broken \in BOOLEAN /\ errSeen \in BOOLEAN
TcpTypeOK == TcpCountsOK /\ TcpFlagsOK
==============================================================================
