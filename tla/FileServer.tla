------------------------------ MODULE FileServer ------------------------------
(***************************************************************************)
(* File_transfer/file_server.cpp: the constructor of Server_socket and     *)
(* main's call of transmit_image(), up to the end of the process.          *)
(*                                                                         *)
(* srvPc names the call the process is in.  A blocking send() takes        *)
(* several steps: the kernel takes bytes as the buffer has room (srvTook), *)
(* then the call returns its count.  With ShortSends it may return early,  *)
(* the case the loop over j is written for.                                *)
(***************************************************************************)
EXTENDS TcpConnection

CONSTANTS
    DiskSizes,   \* lengths the image can have; Absent when it is not there
    CanGrow,     \* TRUE: the image may also get longer while the server runs
    ShortSends,  \* TRUE: send() may return less than it was asked to send
    Crashes      \* TRUE: either process may be killed at any point

Absent == -1   \* what GetFileSize returns when stat() fails

ASSUME ServerAssumption ==
    /\ DiskSizes \subseteq Nat \union {Absent}
    /\ CanGrow \in BOOLEAN /\ ShortSends \in BOOLEAN /\ Crashes \in BOOLEAN

VARIABLES
    srvPc,
    disk,        \* the length of the image now
    grew,        \* history: it has grown since its length was announced
    srvFile,     \* transmit_image's ifstream is open and good
    srvHdr,      \* what the send() of the header returned (the code drops it)
    srvI,        \* i
    srvPos,      \* how far file.read has got in the image
    srvLen,      \* ssize: how much of buffer the last read filled
    srvJ,        \* j
    srvTook,     \* bytes the kernel has taken of the send() in progress
    srvErrored   \* errored

loopVars == <<srvI, srvPos, srvLen, srvJ, srvTook, srvErrored>>
serverVars == <<srvPc, disk, grew, srvFile, srvHdr, loopVars>>

Starting == {"socket", "accept", "open"}
Ended    == {"done", "exited", "killed"}
SrvPcs   == Starting \union {"stat", "stream", "header", "read", "send", "ret"}
                     \union Ended

ServerInit ==
    /\ srvPc = "socket" /\ disk \in DiskSizes /\ grew = FALSE
    /\ srvFile = FALSE /\ srvHdr = 0
    /\ srvI = 0 /\ srvPos = 0 /\ srvLen = 0 /\ srvJ = 0 /\ srvTook = 0
    /\ srvErrored = FALSE

------------------------------------------------------------------------------
(* The constructor. *)

\* create_socket, bind_socket, set_listen_set
Listen ==
    /\ srvPc = "socket"
    /\ listening' = TRUE
    /\ srvPc' = "accept"
    /\ UNCHANGED <<disk, grew, srvFile, srvHdr, loopVars, wire, srvEnd, fileSize, netVars>>

\* accept_connection: blocks until a client has connected
Accept ==
    /\ srvPc = "accept" /\ srvEnd = "open"
    /\ srvPc' = "open"
    /\ UNCHANGED <<disk, grew, srvFile, srvHdr, loopVars, sndVars, netVars>>

\* file.open(fileLoc): the check that the image can be read
OpenImage ==
    /\ srvPc = "open" /\ disk # Absent
    /\ srvPc' = "stat"
    /\ UNCHANGED <<disk, grew, srvFile, srvHdr, loopVars, sndVars, netVars>>

\* Any of these calls fails: exit(EXIT_FAILURE)
StartFails ==
    /\ \/ srvPc \in {"socket", "accept"}
       \/ srvPc = "open" /\ disk = Absent
    /\ srvPc' = "exited"
    /\ CloseServer(srvPc = "open")
    /\ UNCHANGED <<disk, grew, srvFile, srvHdr, loopVars, wire, fileSize, arrived>>

------------------------------------------------------------------------------
(* transmit_image *)

\* const int64_t fileSize = GetFileSize(fileLoc); only a message when it is -1
StatImage ==
    /\ srvPc = "stat"
    /\ fileSize' = disk /\ srvI' = disk
    /\ srvPc' = "stream"
    /\ UNCHANGED <<disk, grew, srvFile, srvHdr, srvPos, srvLen, srvJ, srvTook, srvErrored,
                   wire, listening, srvEnd, netVars>>

\* std::ifstream file(fileLoc): only a message when it fails
OpenStream ==
    /\ srvPc = "stream"
    /\ srvFile' = (disk # Absent)
    /\ srvPc' = "header"
    /\ UNCHANGED <<disk, grew, srvHdr, loopVars, sndVars, netVars>>

\* Slip: leave the loop once no whole chunk is left
LoopTopWholeChunks(i) == IF i < Chunk THEN "ret" ELSE "read"

\* while (i != 0)
LoopTop(i) == IF i = 0 THEN "ret" ELSE "read"

\* The bytes the send() in progress still has to hand to the kernel.
Wanted == IF srvPc = "header" THEN HdrLen - srvTook
          ELSE IF srvPc = "send" THEN srvLen - srvJ - srvTook
          ELSE 0

\* Slip: &buffer[0] where &buffer[j] is meant
NextByteOfBuffer == IF srvPc = "header" THEN srvTook - HdrLen
                                        ELSE srvPos - srvLen + srvTook

\* The next of them: the header's, or those of buffer, which holds the image
\* from srvPos - srvLen on.
NextByte == IF srvPc = "header" THEN srvTook - HdrLen
                                ELSE srvPos - srvLen + srvJ + srvTook

SendTakes ==
    /\ \E k \in 1..Wanted :
          /\ PutBytes(NextByte, k)
          /\ srvTook' = srvTook + k
    /\ UNCHANGED <<srvPc, disk, grew, srvFile, srvHdr, srvI, srvPos, srvLen, srvJ, srvErrored,
                   listening, srvEnd, fileSize, netVars>>

\* send() may return what the kernel has taken so far.
SendMayReturn == srvTook > 0 /\ (Wanted = 0 \/ ShortSends \/ SendFails)

\* send(fd, &fileSize, sizeof(fileSize), 0), its result dropped
HeaderReturns ==
    /\ srvPc = "header"
    /\ \/ SendMayReturn /\ srvHdr' = srvTook
       \/ srvTook = 0 /\ SendFails /\ srvHdr' = -1
    /\ srvTook' = 0
    /\ srvPc' = LoopTop(srvI)
    /\ UNCHANGED <<disk, grew, srvFile, srvI, srvPos, srvLen, srvJ, srvErrored,
                   sndVars, netVars>>

\* Slips: read chunkSize bytes every time; go on after a failed read
ReadWholeChunk ==
    /\ srvPc = "read"
    /\ IF srvFile /\ srvPos + Chunk <= disk
       THEN /\ srvPos' = srvPos + Chunk
            /\ srvLen' = Chunk /\ srvJ' = 0
            /\ srvPc' = "send"
            /\ UNCHANGED srvErrored
       ELSE /\ srvErrored' = TRUE
            /\ srvPc' = "ret"
            /\ UNCHANGED <<srvPos, srvLen, srvJ>>
    /\ UNCHANGED <<disk, grew, srvFile, srvHdr, srvI, srvTook, sndVars, netVars>>
ReadForEver ==
    /\ srvPc = "read"
    /\ LET ssize == Min({srvI, Chunk})
       IN  IF srvFile /\ ssize > 0 /\ srvPos + ssize <= disk
           THEN /\ srvPos' = srvPos + ssize
                /\ srvLen' = ssize /\ srvJ' = 0
                /\ srvPc' = "send"
                /\ UNCHANGED srvErrored
           ELSE /\ srvErrored' = TRUE
                /\ UNCHANGED <<srvPc, srvPos, srvLen, srvJ>>
    /\ UNCHANGED <<disk, grew, srvFile, srvHdr, srvI, srvTook, sndVars, netVars>>

\* ssize = min(i, chunkSize); file.read fails when the stream is not good, and
\* when it cannot deliver all of ssize
ReadChunk ==
    /\ srvPc = "read"
    /\ LET ssize == Min({srvI, Chunk})
       IN  IF srvFile /\ ssize > 0 /\ srvPos + ssize <= disk
           THEN /\ srvPos' = srvPos + ssize
                /\ srvLen' = ssize /\ srvJ' = 0
                /\ srvPc' = "send"
                /\ UNCHANGED srvErrored
           ELSE /\ srvErrored' = TRUE
                /\ srvPc' = "ret"
                /\ UNCHANGED <<srvPos, srvLen, srvJ>>
    /\ UNCHANGED <<disk, grew, srvFile, srvHdr, srvI, srvTook, sndVars, netVars>>

\* l = send(...); j += l; and, when the chunk is through, i -= l with the l of
\* the last send() alone
ChunkSendReturns ==
    /\ srvPc = "send" /\ SendMayReturn
    /\ srvJ' = srvJ + srvTook
    /\ srvTook' = 0
    /\ IF srvJ' < srvLen
       THEN UNCHANGED <<srvPc, srvI>>
       ELSE /\ srvI' = srvI - srvTook
            /\ srvPc' = LoopTop(srvI')
    /\ UNCHANGED <<disk, grew, srvFile, srvHdr, srvPos, srvLen, srvErrored, sndVars, netVars>>

\* l < 0: leave both loops with errored set
ChunkSendFails ==
    /\ srvPc = "send" /\ srvTook = 0 /\ SendFails
    /\ srvErrored' = TRUE
    /\ srvPc' = "ret"
    /\ UNCHANGED <<disk, grew, srvFile, srvHdr, srvI, srvPos, srvLen, srvJ, srvTook,
                   sndVars, netVars>>

\* Slip: main waits with the connection still open
MainLingers ==
    /\ srvPc = "ret"
    /\ srvPc' = "done"
    /\ UNCHANGED <<disk, grew, srvFile, srvHdr, loopVars, sndVars, netVars>>

\* transmit_image returns whatever errored is, main appends the time it took to
\* sc1_time.txt, and the process ends
MainReturns ==
    /\ srvPc = "ret"
    /\ srvPc' = "done"
    /\ CloseServer(TRUE)
    /\ UNCHANGED <<disk, grew, srvFile, srvHdr, loopVars, wire, fileSize, arrived>>

------------------------------------------------------------------------------
(* What is done to the process, and to the image behind its back. *)

\* No handler is installed and MSG_NOSIGNAL is not given: instead of returning
\* -1, a send() to a connection the client has left may end the process.
SigPipe ==
    /\ srvPc \in {"header", "send"} /\ srvTook = 0 /\ SendFails
    /\ srvPc' = "killed"
    /\ CloseServer(TRUE)
    /\ UNCHANGED <<disk, grew, srvFile, srvHdr, loopVars, wire, fileSize, arrived>>

ServerKilled ==
    /\ Crashes /\ srvPc \notin Ended
    /\ srvPc' = "killed"
    /\ CloseServer(srvPc \notin {"socket", "accept"})
    /\ UNCHANGED <<disk, grew, srvFile, srvHdr, loopVars, wire, fileSize, arrived>>

\* The image is replaced, truncated or, with CanGrow, extended.  Removing it
\* no longer matters to a server whose ifstream is open.
ImageChanges ==
    /\ srvPc \notin Ended
    /\ disk' \in DiskSizes \ {disk}
    /\ CanGrow \/ disk' < disk
    /\ grew' = (grew \/ (disk' > disk /\ srvPc \notin Starting \union {"stat"}))
    /\ Absent \in {disk, disk'} => srvPc \in Starting \union {"stat", "stream"}
    /\ UNCHANGED <<srvPc, srvFile, srvHdr, loopVars, sndVars, netVars>>

ServerCall ==
    \/ Listen \/ Accept \/ OpenImage \/ StartFails
    \/ StatImage \/ OpenStream
    \/ SendTakes \/ HeaderReturns \/ ReadChunk
    \/ ChunkSendReturns \/ ChunkSendFails \/ SigPipe \/ MainReturns

ServerStep == ServerCall \/ ServerKilled \/ ImageChanges

ServerCountsOK ==
    /\ disk \in DiskSizes
    /\ srvHdr \in -1..HdrLen
    /\ srvI \in Nat \union {Absent}
    /\ srvPos \in Nat
    /\ srvLen \in 0..Chunk /\ srvLen <= srvPos
    /\ srvJ \in 0..srvLen
    /\ srvTook \in Nat /\ Wanted >= 0
ServerFlagsOK ==
    /\ srvPc \in SrvPcs
    /\ grew \in BOOLEAN /\ srvFile \in BOOLEAN /\ srvErrored \in BOOLEAN
ServerTypeOK == ServerCountsOK /\ ServerFlagsOK
==============================================================================
