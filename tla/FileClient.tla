------------------------------ MODULE FileClient ------------------------------
(***************************************************************************)
(* File_transfer/file_client.cpp: the constructor of Client_socket and     *)
(* main's call of receive_image(), up to the end of the process.           *)
(***************************************************************************)
EXTENDS TcpConnection

CONSTANTS
    Garbage,        \* values fileSize may hold when recv() leaves it (partly) unset
    DiskMayFail,    \* TRUE: opening, writing or closing the image file may fail
    StreamBuf,      \* the most bytes the ofstream holds back after a write
    ClientCrashes   \* TRUE: the process may be killed at any point

ASSUME ClientAssumption ==
    /\ Garbage \subseteq Int /\ Garbage # {}
    /\ DiskMayFail \in BOOLEAN /\ ClientCrashes \in BOOLEAN
    /\ StreamBuf \in Nat

VARIABLES
    cliPc,
    outOk,       \* receive_image's ofstream is open and good
    cliHdr,      \* what the recv() of the header returned (the code drops it)
    cliSize,     \* the client's fileSize
    cliI,        \* i
    cliLen,      \* ssize
    cliJ,        \* j
    cliL,        \* l, the result of the last recv()
    cliErrored,  \* errored
    buf,         \* buffer
    out,         \* the bytes file.write has accepted, in order
    saved        \* how many of them, from the first on, the file holds

clientVars == <<cliPc, outOk, cliHdr, cliSize, cliI, cliLen, cliJ, cliL, cliErrored,
                buf, out, saved>>

CliEnded == {"done", "exited", "killed"}
CliPcs == {"connect", "create", "stream", "header", "loop", "recv", "write"}
             \union CliEnded

ClientInit ==
    /\ cliPc = "connect"
    /\ outOk = FALSE /\ cliHdr = 0
    /\ cliSize = 0 /\ cliI = 0 /\ cliLen = 0 /\ cliJ = 0 /\ cliL = 0
    /\ cliErrored = FALSE
    /\ buf = [x \in 0..Chunk-1 |-> 0]   \* indeterminate until written, never read before
    /\ out = << >> /\ saved = 0

------------------------------------------------------------------------------
(* The constructor. *)

\* create_connection: the kernel completes the handshake for a listening socket
Connect ==
    /\ cliPc = "connect" /\ listening
    /\ cliEnd' = "open" /\ srvEnd' = "open"
    /\ cliPc' = "create"
    /\ UNCHANGED <<outOk, cliHdr, cliSize, cliI, cliLen, cliJ, cliL, cliErrored, buf, out,
                   saved, wire, listening, fileSize, rcvd, errSeen, netVars>>

ConnectRefused ==
    /\ cliPc = "connect" /\ ~listening
    /\ cliPc' = "exited"
    /\ UNCHANGED <<outOk, cliHdr, cliSize, cliI, cliLen, cliJ, cliL, cliErrored, buf, out,
                   saved, tcpVars>>

\* file.open(..., out | trunc), or exit(EXIT_FAILURE)
CreateFile ==
    /\ cliPc = "create"
    /\ \/ cliPc' = "stream" /\ UNCHANGED cliEnd
       \/ DiskMayFail /\ cliPc' = "exited" /\ CloseClient
    /\ UNCHANGED <<outOk, cliHdr, cliSize, cliI, cliLen, cliJ, cliL, cliErrored, buf, out,
                   saved, sndVars, rcvd, errSeen, netVars>>

------------------------------------------------------------------------------
(* receive_image *)

\* std::ofstream file(...): only a message when it fails
OpenOutput ==
    /\ cliPc = "stream"
    /\ outOk' \in {TRUE, ~DiskMayFail}
    /\ cliPc' = "header"
    /\ UNCHANGED <<cliHdr, cliSize, cliI, cliLen, cliJ, cliL, cliErrored, buf, out, saved,
                   tcpVars>>

\* What fileSize holds once recv() has filled its first n bytes: the server's
\* value if those are the HdrLen header bytes, else what was on the stack, in part.
Decoded(n) ==
    IF n = HdrLen /\ \A x \in 1..n : wire[x] = x - 1 - HdrLen THEN {fileSize} ELSE Garbage

\* recv(fd, &fileSize, sizeof(fileSize), 0), its result dropped
RecvHeader ==
    /\ cliPc = "header"
    /\ \/ Avail > 0 /\ cliHdr' = RecvCount(HdrLen) /\ UNCHANGED errSeen
       \/ RecvEof   /\ cliHdr' = 0  /\ UNCHANGED errSeen
       \/ RecvError /\ cliHdr' = -1 /\ errSeen' = TRUE
    /\ rcvd' = IF Avail > 0 THEN rcvd + cliHdr' ELSE rcvd
    /\ cliSize' \in Decoded(cliHdr') /\ cliI' = cliSize'
    /\ cliPc' = "loop"
    /\ UNCHANGED <<outOk, cliLen, cliJ, cliL, cliErrored, buf, out,
                   saved, sndVars, cliEnd, netVars>>

\* Slip: ask for chunkSize bytes, not for the lesser
NextChunkFull ==
    /\ cliPc = "loop" /\ cliI # 0
    /\ cliLen' = Chunk /\ cliJ' = 0 /\ cliL' = 0
    /\ cliPc' = "recv"
    /\ UNCHANGED <<outOk, cliHdr, cliSize, cliI, cliErrored, buf, out, saved,
                   tcpVars>>

\* while (i != 0) { ssize = min(i, chunkSize); j = 0; l = 0; while (j < ssize) ...
NextChunk ==
    /\ cliPc = "loop" /\ cliI # 0
    /\ cliLen' = Min({cliI, Chunk}) /\ cliJ' = 0 /\ cliL' = 0
    /\ cliPc' = IF 0 < cliLen' THEN "recv" ELSE "write"
    /\ UNCHANGED <<outOk, cliHdr, cliSize, cliI, cliErrored, buf, out, saved,
                   tcpVars>>

\* l = recv(fd, &buffer[j], ssize - j, 0) returned data; j += l
RecvData ==
    /\ cliPc = "recv" /\ Avail > 0
    /\ cliL' = RecvCount(cliLen - cliJ)
    /\ buf' = [x \in DOMAIN buf |->
                 IF x \in cliJ .. cliJ + cliL' - 1 THEN wire[rcvd + 1 + x - cliJ] ELSE buf[x]]
    /\ rcvd' = rcvd + cliL'
    /\ cliJ' = cliJ + cliL'
    /\ cliPc' = IF cliJ' < cliLen THEN "recv" ELSE "write"
    /\ UNCHANGED <<outOk, cliHdr, cliSize, cliI, cliLen, cliErrored, out, saved,
                   sndVars, cliEnd, errSeen, netVars>>

\* recv() returned 0: j stays where it is and the loop calls recv() again
RecvNothing ==
    /\ cliPc = "recv" /\ RecvEof
    /\ cliL' = 0
    /\ UNCHANGED <<cliPc, outOk, cliHdr, cliSize, cliI, cliLen, cliJ, cliErrored, buf, out,
                   saved, tcpVars>>

(***************************************************************************)
(* The loops are left: file.close() writes what the ofstream still holds,  *)
(* and nobody looks whether it could; then "File received on client!".     *)
(***************************************************************************)
EndOfImage(error) ==
    /\ cliErrored' = error
    /\ saved' \in (IF DiskMayFail THEN saved ELSE Len(out)) .. Len(out)
    /\ cliPc' = "done"
    /\ CloseClient

RecvFails ==
    /\ cliPc = "recv" /\ RecvError
    /\ errSeen' = TRUE
    /\ cliL' = -1 /\ cliJ' = -1
    /\ EndOfImage(TRUE)
    /\ UNCHANGED <<outOk, cliHdr, cliSize, cliI, cliLen, buf, out, sndVars, rcvd, netVars>>

\* file.write(buffer, n): a small piece may stay in the ofstream, with what is there
WriteBuffer(n) ==
    /\ out' = out \o [x \in 1..n |-> buf[x - 1]]
    /\ \/ saved' = Len(out')
       \/ saved' = saved /\ Len(out') - saved <= StreamBuf

\* Slips: write all of buffer; write l bytes but count all j received
WriteFullBuffer ==
    /\ cliPc = "write" /\ outOk
    /\ WriteBuffer(Chunk)
    /\ cliI' = cliI - cliL
    /\ cliPc' = "loop"
    /\ UNCHANGED <<outOk, cliHdr, cliSize, cliLen, cliJ, cliL, cliErrored, buf, tcpVars>>
WriteLastCountAll ==
    /\ cliPc = "write" /\ outOk
    /\ WriteBuffer(cliL)
    /\ cliI' = cliI - cliJ
    /\ cliPc' = "loop"
    /\ UNCHANGED <<outOk, cliHdr, cliSize, cliLen, cliJ, cliL, cliErrored, buf, tcpVars>>

\* file.write(buffer, l) and i -= l, with the l of the last recv() alone
WriteChunk ==
    /\ cliPc = "write" /\ outOk
    /\ WriteBuffer(cliL)
    /\ cliI' = cliI - cliL
    /\ cliPc' = "loop"
    /\ UNCHANGED <<outOk, cliHdr, cliSize, cliLen, cliJ, cliL, cliErrored, buf, tcpVars>>

\* file.write fails, now or for pieces it had held back
WriteFails ==
    /\ cliPc = "write"
    /\ ~outOk \/ (DiskMayFail /\ cliL > 0)
    /\ EndOfImage(TRUE)
    /\ UNCHANGED <<outOk, cliHdr, cliSize, cliI, cliLen, cliJ, cliL, buf, out,
                   sndVars, rcvd, errSeen, netVars>>

LoopEnds ==
    /\ cliPc = "loop" /\ cliI = 0
    /\ EndOfImage(FALSE)
    /\ UNCHANGED <<outOk, cliHdr, cliSize, cliI, cliLen, cliJ, cliL, buf, out,
                   sndVars, rcvd, errSeen, netVars>>

------------------------------------------------------------------------------
ClientKilled ==
    /\ ClientCrashes /\ cliPc \notin CliEnded
    /\ cliPc' = "killed"
    /\ CloseClient
    /\ UNCHANGED <<outOk, cliHdr, cliSize, cliI, cliLen, cliJ, cliL, cliErrored, buf, out,
                   saved, sndVars, rcvd, errSeen, netVars>>

ClientCall ==
    \/ Connect \/ ConnectRefused \/ CreateFile \/ OpenOutput
    \/ RecvHeader \/ NextChunk \/ RecvData \/ RecvNothing \/ RecvFails
    \/ WriteChunk \/ WriteFails \/ LoopEnds

ClientStep == ClientCall \/ ClientKilled

ClientCountsOK ==
    /\ cliHdr \in -1..HdrLen
    /\ cliSize \in Int /\ cliI \in Int
    /\ cliLen \in Int /\ cliLen <= Chunk
    /\ cliJ \in -1..Chunk /\ cliL \in -1..Chunk
    /\ buf \in [0..Chunk-1 -> Int]
    /\ out \in Seq(Int)
    /\ saved \in 0 .. Len(out)
ClientFlagsOK ==
    /\ cliPc \in CliPcs
    /\ outOk \in BOOLEAN /\ cliErrored \in BOOLEAN
ClientTypeOK == ClientCountsOK /\ ClientFlagsOK
==============================================================================
