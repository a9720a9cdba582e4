----------------------------- MODULE FileTransfer -----------------------------
(***************************************************************************)
(* One run of file_server against one run of file_client over one TCP      *)
(* connection: the two processes and the network interleaved.              *)
(***************************************************************************)
EXTENDS FileServer, FileClient

vars == <<tcpVars, serverVars, clientVars>>

Init == TcpInit /\ ServerInit /\ ClientInit

ServerTurn(A) == A /\ UNCHANGED <<rcvVars, clientVars>>
ClientTurn(A) == A /\ UNCHANGED serverVars
NetTurn(A)    == A /\ UNCHANGED <<serverVars, clientVars>>

Next ==
    \/ ServerTurn(ServerStep)
    \/ ClientTurn(ClientStep)
    \/ NetTurn(NetStep)

Spec == Init /\ [][Next]_vars

(***************************************************************************)
(* Both processes are scheduled and TCP keeps delivering.  Nothing is      *)
(* assumed of kills, resets and changes of the image.                      *)
(***************************************************************************)
Fairness ==
    /\ WF_vars(ServerTurn(ServerCall))
    /\ WF_vars(ClientTurn(ClientCall))
    /\ WF_vars(NetTurn(Arrive))

FairSpec == Spec /\ Fairness

------------------------------------------------------------------------------
(* Every variable holds a value of its type. *)
TypeOK == TcpTypeOK /\ ServerTypeOK /\ ClientTypeOK

\* Both ignored results were good: the whole header went out in one send() and
\* came in with one recv().
HeaderExchanged == srvHdr = HdrLen /\ cliHdr = HdrLen

IsImagePrefix(s) == \A x \in DOMAIN s : s[x] = x - 1

(***************************************************************************)
(* The server's stream never skips, repeats or reorders a byte of the      *)
(* image, however its sends were cut (the &buffer[j], j += l and file.read *)
(* of file_server.cpp:126-143 together).                                   *)
(***************************************************************************)
StreamInOrder ==
    srvHdr = HdrLen => \A x \in DOMAIN wire : wire[x] = x - 1 - HdrLen

(***************************************************************************)
(* A transmit_image that ends with errored = FALSE has sent all fileSize   *)
(* bytes, although i -= l subtracts too little after a chunk that took     *)
(* several sends (file_server.cpp:142).                                    *)
(***************************************************************************)
CleanSendIsComplete ==
    srvPc = "done" /\ ~srvErrored /\ srvHdr = HdrLen
        => Len(wire) >= HdrLen + fileSize

(***************************************************************************)
(* A receive_image that ends with errored = FALSE has handed the ofstream  *)
(* exactly the image: the losses of file_client.cpp:96-97 (only the last   *)
(* recv() of a chunk is written) never go with a normal end of the loop.   *)
(* The file may still be short, by what the unchecked close() of line 100  *)
(* could not write, and then by no more than the ofstream held back.  It   *)
(* needs both header calls to have been whole, and the image not to have   *)
(* grown after its size was announced.                                     *)
(***************************************************************************)
CleanReceiveIsExact ==
    cliPc = "done" /\ ~cliErrored /\ HeaderExchanged /\ ~grew
        => /\ Len(out) = fileSize /\ IsImagePrefix(out)
           /\ fileSize - saved <= StreamBuf
           /\ ~DiskMayFail => saved = fileSize

(***************************************************************************)
(* Whatever is lost, the received file has no byte twice and none out of   *)
(* order (no stale content of buffer is ever written).                     *)
(***************************************************************************)
OutputInOrder == \A x, y \in DOMAIN out : x < y => out[x] < out[y]

(***************************************************************************)
(* A client that polls an ended stream for ever (file_client.cpp:90-94     *)
(* takes a return of 0 for progress) has a cause: the server sent less     *)
(* than it announced, or the client threw received bytes away.             *)
(***************************************************************************)
PollsForEver == cliPc = "recv" /\ RecvEof
SpinHasCause ==
    PollsForEver /\ HeaderExchanged
        => \/ Len(wire) < HdrLen + fileSize
           \/ arrived < Len(wire)
           \/ Len(out) + cliJ < rcvd - HdrLen

(***************************************************************************)
(* transmit_image ends, whatever the client and the network do, unless the *)
(* client has decoded a negative count: then it neither receives nor       *)
(* leaves, and a send() may block for ever.                                *)
(***************************************************************************)
ServerEnds == (srvPc = "stat") ~> (srvPc \in Ended \/ cliI < 0)

\* The steps that a loop which counts i down to 0 can still take, when one round
\* moves at most Chunk bytes, two steps for each, and makes two steps more.
LoopSteps(i) == (2 * Chunk + 2) * (IF i > 0 THEN i ELSE 0)

\* The steps of send() and of the loop over j that are left of this round.
SendSteps == 2 * Wanted + (IF srvTook > 0 THEN 1 ELSE 0)

\* The same of all of transmit_image, from the announced size on.
transmitVars == <<srvPc, srvHdr, loopVars>>
Transmitting == {"stream", "header", "read", "send", "ret"}
TransmitSteps ==
    CASE srvPc = "stream" -> LoopSteps(srvI) + 2 * Chunk + 2 * HdrLen + 5
      [] srvPc = "header" -> LoopSteps(srvI) + 2 * Chunk + 4 + SendSteps
      [] srvPc = "read"   -> LoopSteps(srvI) + 2 * Chunk + 2
      [] srvPc = "send"   -> LoopSteps(srvI) + 1 + SendSteps
      [] srvPc = "ret"    -> 1
      [] OTHER            -> 0

(***************************************************************************)
(* Each step of transmit_image leaves fewer to make, whatever becomes of   *)
(* the image and of the connection, and although i -= l may subtract less  *)
(* than the chunk that was sent (file_server.cpp:142).                     *)
(***************************************************************************)
TransmitShrinks ==
    [][(srvPc \in Transmitting) => TransmitSteps' < TransmitSteps]_transmitVars

\* The steps that receive_image's loops can still take.
receiveVars == <<cliPc, cliI, cliJ>>
Receiving == {"loop", "recv", "write"}
ReceiveSteps ==
    CASE cliPc = "loop"  -> LoopSteps(cliI) + 2 * Chunk + 2
      [] cliPc = "recv"  -> LoopSteps(cliI) + 1 + (cliLen - cliJ)
      [] cliPc = "write" -> LoopSteps(cliI) + 1
      [] OTHER           -> 0

(***************************************************************************)
(* Each step of receive_image leaves fewer to make, unless recv() returned *)
(* 0 (file_client.cpp:90-94) or i is negative (line 84): there is no other *)
(* loop that the client cannot leave.                                      *)
(***************************************************************************)
ReceiveShrinks ==
    [][(cliPc \in Receiving) /\ cliI >= 0 => ReceiveSteps' < ReceiveSteps]_receiveVars

(***************************************************************************)
(* A connected client ends, or is in one of the two loops it cannot leave: *)
(* it polls an ended stream (file_client.cpp:90-94) or counts down from a  *)
(* negative size (line 84 tests i # 0, not i > 0).                         *)
(***************************************************************************)
ClientEndsOrSpins == (cliPc = "create") ~> (cliPc \in CliEnded \/ PollsForEver \/ cliI < 0)

(***************************************************************************)
(* Over a network that delivers each send() as one segment, as loopback    *)
(* does, an accepted client ends up with the image and both programs end.  *)
(***************************************************************************)
ImageArrives ==
    (srvPc = "stat") ~> /\ srvPc = "done" /\ ~srvErrored
                        /\ cliPc = "done" /\ ~cliErrored
                        /\ Len(out) = fileSize /\ IsImagePrefix(out) /\ saved = fileSize

------------------------------------------------------------------------------
(* What comments and messages of the programs say, and the code does not do. *)

(***************************************************************************)
(* The receiving loop "Receives data in to buffer until bufferSize value   *)
(* is met" (FileIOHash_MultMat/App/App.cpp:272, RecvBuffer, which          *)
(* file_client.cpp:86-94 inlines) and hands its count to the write: here   *)
(* the write takes the count of the last recv() for it.                    *)
(***************************************************************************)
WholeChunkWritten == cliPc = "write" => cliL = cliJ

(***************************************************************************)
(* "File size is 0" (file_server.cpp:113): the size a missing image is     *)
(* announced with is no negative number.                                   *)
(***************************************************************************)
AnnouncedSizeIsCount == srvHdr = HdrLen => fileSize >= 0
==============================================================================
