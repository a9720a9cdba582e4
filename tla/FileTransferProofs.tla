-------------------------- MODULE FileTransferProofs --------------------------
(***************************************************************************)
(* IInv is an invariant of FileTransfer, for every value of its constants, *)
(* and with it the properties of FileTransfer.tla.                         *)
(***************************************************************************)
EXTENDS FileTransferInv, TLAPS

\* What Min of a pair is: the code's min(i, chunkSize), and recv()'s count.
LEMMA MinOfTwo ==
    ASSUME NEW a \in Int, NEW b \in Int
    PROVE  Min({a, b}) = IF a <= b THEN a ELSE b
<1>1. \A x \in {a, b} : x \in Int
  OBVIOUS
<1>2. PICK m \in {a, b} : \A y \in {a, b} : m <= y
  OBVIOUS
<1>3. Min({a, b}) \in {a, b} /\ \A y \in {a, b} : Min({a, b}) <= y
  BY <1>2, Zenon DEF Min
<1>4. QED
  BY <1>3

\* What PutBytes appends.
LEMMA AppendBytes ==
    ASSUME NEW s \in Seq(Int), NEW b \in Int, NEW k \in Nat
    PROVE  /\ s \o Bytes(b, k) \in Seq(Int)
           /\ Len(s \o Bytes(b, k)) = Len(s) + k
           /\ \A x \in 1 .. Len(s) : (s \o Bytes(b, k))[x] = s[x]
           /\ \A x \in Len(s) + 1 .. Len(s) + k :
                 (s \o Bytes(b, k))[x] = b + x - Len(s) - 1
<1>1. Bytes(b, k) \in Seq(Int) /\ Len(Bytes(b, k)) = k
  BY DEF Bytes
<1>2. QED
  BY <1>1 DEF Bytes

------------------------------------------------------------------------------
(* Flags and control points.  No arithmetic is needed for them. *)

\* Control points and flags keep their type, as Accept's and Connect's guards read them.
LEMMA FlagsInvariant == Spec => []FlagsOK
<1> USE DEF TcpFlagsOK, ServerFlagsOK, ClientFlagsOK, Ends, SrvPcs, Starting, Ended,
            CliPcs, CliEnded
<1>1. Init => FlagsOK
  BY DEF Init, TcpInit, ServerInit, ClientInit, FlagsOK
<1>2. FlagsOK /\ [Next]_vars => FlagsOK'
  <2> SUFFICES ASSUME FlagsOK, [Next]_vars
               PROVE  FlagsOK'
    OBVIOUS
  <2> USE DEF FlagsOK
  <2>1. CASE ServerTurn(ServerStep)
    <3>1. UNCHANGED <<cliEnd, errSeen, cliPc, outOk, cliErrored>>
      BY <2>1 DEF ServerTurn, rcvVars, clientVars
    <3>2. listening' \in BOOLEAN /\ srvEnd' \in Ends /\ broken' \in BOOLEAN
      BY <2>1
         DEF ServerTurn, ServerStep, ServerCall, ServerKilled, ImageChanges, SigPipe,
           Listen, Accept, OpenImage, StartFails, StatImage, OpenStream, SendTakes,
           HeaderReturns, ReadChunk, ChunkSendReturns, ChunkSendFails, MainReturns,
           CloseServer, sndVars, netVars
    <3>3. ServerFlagsOK'
      BY <2>1
         DEF ServerTurn, ServerStep, ServerCall, ServerKilled, ImageChanges, SigPipe,
           Listen, Accept, OpenImage, StartFails, StatImage, OpenStream, SendTakes,
           HeaderReturns, ReadChunk, ChunkSendReturns, ChunkSendFails, MainReturns,
           loopVars, LoopTop
    <3>4. QED
      BY <3>1, <3>2, <3>3
  <2>2. CASE ClientTurn(ClientStep)
    <3>1. UNCHANGED <<srvPc, grew, srvFile, srvErrored>>
      BY <2>2 DEF ClientTurn, serverVars, loopVars
    <3>2. TcpFlagsOK'
      BY <2>2
         DEF ClientTurn, ClientStep, ClientCall, ClientKilled, Connect,
             ConnectRefused,
           CreateFile, OpenOutput, RecvHeader, NextChunk, RecvData, RecvNothing, RecvFails,
           WriteChunk, WriteFails, LoopEnds, EndOfImage, CloseClient,
           tcpVars, sndVars, rcvVars, netVars
    <3>3. ClientFlagsOK'
      BY <2>2
         DEF ClientTurn, ClientStep, ClientCall, ClientKilled, Connect,
             ConnectRefused,
           CreateFile, OpenOutput, RecvHeader, NextChunk, RecvData, RecvNothing, RecvFails,
           WriteChunk, WriteFails, LoopEnds, EndOfImage
    <3>4. QED
      BY <3>1, <3>2, <3>3
  <2>3. CASE NetTurn(NetStep)
    <3>1. UNCHANGED <<listening, srvEnd, cliEnd, errSeen, serverVars, clientVars>>
      BY <2>3 DEF NetTurn, NetStep, Arrive, Reset, sndVars, rcvVars
    <3>2. broken' \in BOOLEAN
      BY <2>3 DEF NetTurn, NetStep, Arrive, Reset
    <3>3. QED
      BY <3>1, <3>2 DEF serverVars, loopVars, clientVars
  <2>4. CASE UNCHANGED vars
    BY <2>4
       DEF vars, tcpVars, sndVars, rcvVars, netVars, serverVars, loopVars, clientVars
  <2>5. QED
    BY <2>1, <2>2, <2>3, <2>4 DEF Next
<1>3. QED
  BY <1>1, <1>2, PTL DEF Spec

------------------------------------------------------------------------------
(* The inductive invariant. *)

\* Before either program has made a call, every counter agrees with an empty stream.
LEMMA InvInit == Init => IInv
<1> SUFFICES ASSUME Init PROVE IInv
  OBVIOUS
<1> USE DEF Init, TcpInit, ServerInit, ClientInit
<1>1. TcpCountsOK
  BY DEF TcpCountsOK
<1>2. ServerInv
  BY TcpAssumption, ServerAssumption
     DEF ServerInv, ServerCountsOK, ServerCounters, ImageBound, WireContent, WireOrder,
         InStep, Fresh, Starting, Wanted, Absent
<1>3. ClientInv
  BY TcpAssumption, ClientAssumption
     DEF ClientInv, ClientCountsOK, ClientCounters, ReceivedContent, OutputOrder,
         HeaderGot, Pending
<1>4. QED
  BY <1>1, <1>2, <1>3 DEF IInv

\* What a step leaves alone keeps its part of the invariant.
LEMMA ServerFrame ==
    ServerInv /\ UNCHANGED <<serverVars, wire, fileSize>> => ServerInv'
BY DEF ServerInv, serverVars, loopVars, ServerCountsOK, ServerCounters, ImageBound,
       WireContent, WireOrder, InStep, Wanted, NextByte

\* What a step leaves alone of the client keeps the client's part of the invariant,
\* whatever the server appends to the stream.
LEMMA ClientFrame ==
    ClientInv /\ UNCHANGED <<clientVars, wire, fileSize, rcvd>> => ClientInv'
BY DEF ClientInv, clientVars, ClientCountsOK, ClientCounters, ReceivedContent,
       OutputOrder,
       HeaderGot, Pending

------------------------------------------------------------------------------
(* The steps of the server.  All but StatImage and SendTakes leave the stream *)
(* alone, and with it everything the invariant says of the client.            *)

\* A server step that leaves the stream alone keeps the server's counters in step
\* with it: each exit of transmit_image's loop is one of the cases.
LEMMA ServerCallInv ==
    ASSUME TcpCountsOK, ServerInv, FlagsOK, ServerStep, UNCHANGED <<wire, fileSize>>,
           ~SendTakes, ~StatImage
    PROVE  ServerInv'
<1> USE TcpAssumption, ServerAssumption
    DEF ServerInv, ServerCountsOK, ServerCounters, ImageBound, WireContent, WireOrder,
        InStep, Wanted, NextByte, Absent, Fresh, Starting, TcpCountsOK
<1>1. CASE Listen \/ Accept \/ OpenImage \/ StartFails
  BY <1>1 DEF Listen, Accept, OpenImage, StartFails, loopVars, sndVars, netVars
<1>2. CASE OpenStream
  BY <1>2 DEF OpenStream, loopVars, sndVars, netVars
<1>3. CASE HeaderReturns
  BY <1>3 DEF HeaderReturns, LoopTop, SendMayReturn, sndVars, netVars
<1>4. CASE ReadChunk
  <2>1. PICK n \in Int : n = Min({srvI, Chunk}) /\ n = IF srvI <= Chunk THEN srvI ELSE Chunk
    BY MinOfTwo
  <2>2. CASE srvFile /\ n > 0 /\ srvPos + n <= disk
    <3>1. /\ srvPc = "read" /\ srvPc' = "send" /\ srvLen' = n /\ srvPos' = srvPos + n
          /\ srvJ' = 0 /\ srvErrored' = srvErrored
          /\ UNCHANGED <<disk, grew, srvFile, srvHdr, srvI, srvTook>>
      BY <1>4, <2>1, <2>2, Zenon DEF ReadChunk
    <3>2. ServerCountsOK'
      BY <2>1, <2>2, <3>1
    <3>3. ServerCounters'
      BY <2>1, <2>2, <3>1
    <3>4. ImageBound'
      BY <2>1, <2>2, <3>1
    <3>5. WireContent' /\ WireOrder'
      BY <2>1, <2>2, <3>1
    <3>6. QED
      BY <3>2, <3>3, <3>4, <3>5
  <2>3. CASE ~(srvFile /\ n > 0 /\ srvPos + n <= disk)
    <3>1. /\ srvPc = "read" /\ srvPc' = "ret" /\ srvErrored' = TRUE
          /\ UNCHANGED <<disk, grew, srvFile, srvHdr, srvI, srvPos, srvLen, srvJ, srvTook>>
      BY <1>4, <2>1, <2>3, Zenon DEF ReadChunk
    <3>2. QED
      BY <3>1
  <2>4. QED
    BY <2>2, <2>3
<1>5. CASE ChunkSendReturns
  BY <1>5 DEF ChunkSendReturns, LoopTop, SendMayReturn, sndVars, netVars
<1>6. CASE ChunkSendFails
  BY <1>6 DEF ChunkSendFails, sndVars, netVars
<1>7. CASE SigPipe \/ ServerKilled
  <2>1. srvPc' = "killed" /\ UNCHANGED <<disk, grew, srvFile, srvHdr, loopVars>>
    BY <1>7, Zenon DEF SigPipe, ServerKilled
  <2>2. QED
    BY <2>1 DEF loopVars
<1>8. CASE MainReturns
  BY <1>8 DEF MainReturns, loopVars
<1>9. CASE ImageChanges
  <2>1. /\ UNCHANGED <<srvPc, srvFile, srvHdr, loopVars, sndVars>>
        /\ disk' \in DiskSizes
    BY <1>9 DEF ImageChanges
  <2>2. ~grew' => ~grew /\ (srvPc \in Starting \union {"stat"} \/ ~(disk' > disk))
    BY <1>9, Zenon DEF ImageChanges
  <2>3. ImageBound'
    BY <2>1, <2>2 DEF ImageBound, loopVars, sndVars, Starting, ServerCountsOK
  <2>4. QED
    BY <2>1, <2>3 DEF loopVars, sndVars
<1>10. QED
  BY <1>1, <1>2, <1>3, <1>4, <1>5, <1>6, <1>7, <1>8, <1>9 DEF ServerStep, ServerCall

\* The header's value is fixed while nothing has been sent, hence nothing received.
LEMMA StatImageInv ==
    ASSUME TcpCountsOK, ServerInv, ClientInv, StatImage, UNCHANGED <<rcvVars, clientVars>>
    PROVE  IInv'
<1> USE TcpAssumption, ServerAssumption DEF TcpCountsOK, Absent
<1>1. /\ srvPc = "stat" /\ srvPc' = "stream" /\ wire = << >> /\ rcvd = 0
      /\ fileSize' = disk /\ srvI' = disk
      /\ UNCHANGED <<disk, grew, srvHdr, srvPos, srvLen, srvJ, srvTook, srvErrored,
                     wire, arrived, rcvd, clientVars>>
  BY DEF StatImage, ServerInv, ServerCounters, Fresh, netVars, rcvVars
<1>2. TcpCountsOK'
  BY <1>1 DEF ServerInv, ServerCountsOK
<1>3. ServerInv'
  BY <1>1
     DEF ServerInv, ServerCountsOK, ServerCounters, ImageBound, WireContent,
         WireOrder,
       InStep, Fresh, Starting, Wanted
<1>4. ClientInv'
  BY <1>1 DEF ClientInv, clientVars, ClientCountsOK, ClientCounters, ReceivedContent,
       OutputOrder, HeaderGot, Pending
<1>5. QED
  BY <1>2, <1>3, <1>4 DEF IInv

\* The stream only gets longer, by bytes above all the client has.
LEMMA SendTakesInv ==
    ASSUME TcpCountsOK, ServerInv, ClientInv, SendTakes, UNCHANGED <<rcvVars, clientVars>>
    PROVE  IInv'
<1>1. Wanted \in Int /\ NextByte \in Int
  BY TcpAssumption, ServerAssumption DEF ServerInv, ServerCountsOK, Wanted, NextByte
<1>2. PICK k \in 1..Wanted : /\ wire' = wire \o Bytes(NextByte, k)
                             /\ srvTook' = srvTook + k
  BY DEF SendTakes, PutBytes
<1>3. UNCHANGED <<srvPc, disk, grew, srvFile, srvHdr, srvI, srvPos, srvLen, srvJ, srvErrored,
                  fileSize, arrived, rcvd, clientVars>>
  BY DEF SendTakes, netVars, rcvVars
<1>4. srvPc \in {"header", "send"}
  BY <1>2 DEF Wanted
<1>5. k \in Nat /\ wire \in Seq(Int)
  BY <1>1 DEF TcpCountsOK
<1>6. /\ wire' \in Seq(Int) /\ Len(wire') = Len(wire) + k
      /\ \A x \in 1 .. Len(wire) : wire'[x] = wire[x]
      /\ \A x \in Len(wire) + 1 .. Len(wire) + k : wire'[x] = NextByte + x - Len(wire) - 1
  BY <1>1, <1>2, <1>5, AppendBytes
<1>7. PICK n \in Nat :
         /\ n = Len(wire) /\ DOMAIN wire = 1 .. n /\ DOMAIN wire' = 1 .. n + k
         /\ \A x \in 1 .. n : wire[x] \in Int /\ wire'[x] = wire[x]
         /\ \A x \in n + 1 .. n + k : wire'[x] = NextByte + x - n - 1
  <2>1. /\ Len(wire) \in Nat
        /\ DOMAIN wire = 1 .. Len(wire) /\ DOMAIN wire' = 1 .. Len(wire) + k
        /\ \A x \in 1 .. Len(wire) : wire[x] \in Int
    BY <1>5, <1>6
  <2>2. QED
    BY <1>6, <2>1, Zenon
<1>8. TcpCountsOK'
  BY <1>3, <1>5, <1>6 DEF TcpCountsOK
<1>9. ServerInv'
  <2>1. ServerCountsOK'
    BY TcpAssumption, ServerAssumption, <1>2, <1>3, <1>4
       DEF ServerInv, ServerCountsOK, Wanted, Absent
  <2>2. ServerCounters' /\ ImageBound'
    <3>1. srvHdr = HdrLen => srvJ + srvTook + k <= srvLen
      BY TcpAssumption, <1>1, <1>4, <1>5
         DEF ServerInv, ServerCountsOK, ServerCounters, Wanted
    <3>2. QED
      BY <1>2, <1>3, <1>4, <3>1
         DEF ServerInv, ServerCountsOK, ServerCounters, ImageBound, Fresh, Starting
  <2>3. /\ NextByte' = NextByte + k
        /\ srvPc = "header" => NextByte + HdrLen = srvTook
    BY TcpAssumption, <1>2, <1>3, <1>4 DEF ServerInv, ServerCountsOK, NextByte, Wanted
  <2>4. WireContent'
    <3>1. ASSUME NEW m \in Int, m = NextByte + HdrLen, InStep(m)
          PROVE  Len(wire') = m + k /\ \A x \in DOMAIN wire' : wire'[x] = x - 1 - HdrLen
      <4>1. n = m /\ \A x \in 1 .. n : wire[x] = x - 1 - HdrLen
        BY <1>7, <3>1 DEF InStep
      <4>2. \A x \in n + 1 .. n + k : wire'[x] = x - 1 - HdrLen
        BY <1>1, <1>5, <1>7, <3>1, <4>1, TcpAssumption
      <4>3. QED
        BY <1>5, <1>6, <1>7, <4>1, <4>2
    <3>2. CASE srvPc = "header"
      <4>1. InStep(srvTook) /\ srvTook = NextByte + HdrLen /\ srvHdr # HdrLen
        BY <2>3, <3>2, TcpAssumption DEF ServerInv, WireContent, ServerCounters
      <4>2. srvTook \in Int
        BY DEF ServerInv, ServerCountsOK
      <4>3. QED
        BY <1>2, <1>3, <3>1, <3>2, <4>1, <4>2 DEF WireContent, InStep
    <3>3. CASE srvPc = "send"
      <4>1. NextByte + HdrLen = HdrLen + srvPos - srvLen + srvJ + srvTook
        BY <3>3, TcpAssumption DEF ServerInv, ServerCountsOK, NextByte
      <4>2. (HdrLen + srvPos - srvLen + srvJ + srvTook)' = NextByte + HdrLen + k
        BY <1>2, <1>3, <3>3, TcpAssumption DEF ServerInv, ServerCountsOK, NextByte
      <4>3. ASSUME srvHdr = HdrLen PROVE InStep(NextByte + HdrLen)
        BY <4>1, <4>3 DEF ServerInv, WireContent
      <4>4. QED
        BY <1>1, <1>3, <3>1, <3>3, <4>2, <4>3, TcpAssumption DEF WireContent, InStep
    <3>4. QED
      BY <1>4, <3>2, <3>3
  <2>5. WireOrder'
    <3>1. /\ \A x \in 1 .. n : wire[x] < NextByte
          /\ \A x, y \in 1 .. n : x < y => wire[x] < wire[y]
      BY <1>4, <1>7 DEF ServerInv, WireOrder
    <3>2. \A x \in 1 .. n + k : wire'[x] < NextByte'
      <4>1. \A x \in 1 .. n : wire'[x] < NextByte'
        BY <1>1, <1>5, <1>7, <2>3, <3>1
      <4>2. \A x \in n + 1 .. n + k : wire'[x] < NextByte'
        BY <1>1, <1>5, <1>7, <2>3
      <4>3. QED
        BY <1>5, <4>1, <4>2
    <3>3. \A x, y \in 1 .. n + k : x < y => wire'[x] < wire'[y]
      <4>1. \A x, y \in 1 .. n : x < y => wire'[x] < wire'[y]
        BY <1>7, <3>1
      <4>2. \A x \in 1 .. n, y \in n + 1 .. n + k : wire'[x] < wire'[y]
        BY <1>1, <1>5, <1>7, <3>1
      <4>3. \A x, y \in n + 1 .. n + k : x < y => wire'[x] < wire'[y]
        BY <1>1, <1>5, <1>7
      <4>4. QED
        BY <1>5, <4>1, <4>2, <4>3
    <3>4. QED
      BY <1>3, <1>4, <1>7, <3>2, <3>3 DEF WireOrder
  <2>6. QED
    BY <2>1, <2>2, <2>4, <2>5 DEF ServerInv
<1>10. ClientInv'
  <2>1. ClientCountsOK' /\ ClientCounters' /\ Pending' = Pending
    BY <1>3 DEF ClientInv, clientVars, ClientCountsOK, ClientCounters, Pending
  <2>2. rcvd \in 0 .. n
    BY <1>7 DEF TcpCountsOK
  <2>3. ReceivedContent'
    <3>1. HeaderGot' => HeaderGot
      BY <1>3, <1>7, <2>2, TcpAssumption DEF clientVars, HeaderGot
    <3>2. out \in Seq(Int) /\ Pending \in Nat
      BY DEF ClientInv, ClientCountsOK, ClientCounters, Pending
    <3>3. ASSUME HdrLen + Len(out) + Pending = rcvd
          PROVE  /\ \A x \in DOMAIN out : wire'[HdrLen + x] = wire[HdrLen + x]
                 /\ \A y \in 0 .. Pending - 1 :
                      wire'[HdrLen + Len(out) + 1 + y] = wire[HdrLen + Len(out) + 1 + y]
      <4>1. Len(out) \in Nat /\ DOMAIN out = 1 .. Len(out)
        BY <3>2
      <4>2. QED
        BY <1>7, <2>2, <3>2, <3>3, <4>1, TcpAssumption
    <3>4. UNCHANGED <<cliPc, cliErrored, cliSize, out, buf, Pending>>
      BY <1>3, <2>1 DEF clientVars
    <3>5. QED
      BY <1>3, <3>1, <3>3, <3>4 DEF ClientInv, ReceivedContent
  <2>4. OutputOrder'
    BY <1>3, <1>7, <2>1, <2>2 DEF ClientInv, clientVars, OutputOrder
  <2>5. QED
    BY <2>1, <2>3, <2>4 DEF ClientInv
<1>11. QED
  BY <1>8, <1>9, <1>10 DEF IInv

------------------------------------------------------------------------------
(* The steps of the client.  They leave the server and its stream alone. *)

\* Steps that move no byte of the image and end no loop, other than normally.
LEMMA ClientControlInv ==
    ASSUME TcpCountsOK, ClientInv,
           Connect \/ ConnectRefused \/ CreateFile \/ OpenOutput \/ RecvNothing
             \/ RecvFails \/ WriteFails \/ LoopEnds \/ ClientKilled
    PROVE  ClientInv' /\ UNCHANGED <<wire, fileSize, arrived, rcvd>>
<1>1. UNCHANGED <<wire, fileSize, arrived, rcvd, cliHdr, cliSize, cliI, cliLen, buf, out>>
  BY DEF Connect, ConnectRefused, CreateFile, OpenOutput, RecvNothing, RecvFails,
     WriteFails, LoopEnds, ClientKilled, EndOfImage, tcpVars, sndVars, rcvVars, netVars
<1>2. HeaderGot' = HeaderGot
  BY <1>1 DEF HeaderGot
<1> DEFINE SavedOK ==
              /\ saved' \in 0 .. Len(out) /\ Len(out) - saved' <= StreamBuf
              /\ cliPc' = "done" /\ ~DiskMayFail => saved' = Len(out)
<1>9. SavedOK
  <2>1. \/ saved' = saved /\ (cliPc' = "done" => cliPc' = cliPc)
        \/ /\ saved' \in (IF DiskMayFail THEN saved ELSE Len(out)) .. Len(out)
           /\ cliPc' = "done"
    BY DEF Connect, ConnectRefused, CreateFile, OpenOutput, RecvNothing, RecvFails,
       WriteFails, LoopEnds, ClientKilled, EndOfImage
  <2>2. /\ saved \in 0 .. Len(out) /\ Len(out) \in Nat /\ Len(out) - saved <= StreamBuf
        /\ cliPc = "done" /\ ~DiskMayFail => saved = Len(out)
    BY DEF ClientInv, ClientCountsOK, ClientCounters
  <2>3. QED
    BY <2>1, <2>2, ClientAssumption
<1> USE DEF ClientInv, ClientCountsOK, ClientCounters, ReceivedContent, OutputOrder, Pending
<1>3. CASE Connect \/ ConnectRefused \/ CreateFile \/ OpenOutput
  <2>1. /\ cliPc \in {"connect", "create", "stream"}
        /\ cliPc' \in {"create", "stream", "header", "exited"}
        /\ UNCHANGED <<cliJ, cliL, cliErrored>>
    BY <1>3, Zenon DEF Connect, ConnectRefused, CreateFile, OpenOutput
  <2>2. QED
    BY <1>1, <1>9, <2>1
<1>4. CASE RecvNothing
  BY <1>1, <1>2, <1>4, <1>9, TcpAssumption DEF RecvNothing
<1>5. CASE RecvFails \/ WriteFails
  <2>1. /\ cliPc' = "done" /\ cliErrored' = TRUE
        /\ \/ cliJ' = -1 /\ cliL' = -1
           \/ UNCHANGED <<cliJ, cliL>>
    BY <1>5, Zenon DEF RecvFails, WriteFails, EndOfImage
  <2>2. ClientCountsOK'
    <3>1. saved' \in 0 .. Len(out')
      BY <1>1, <1>9
    <3>2. QED
      BY <1>1, <2>1, <3>1, TcpAssumption
  <2>3. ClientCounters' /\ ReceivedContent'
    <3>1. ~(cliPc' = "done" /\ ~cliErrored')
      BY <2>1
    <3>2. cliPc' \notin {"connect", "create", "stream", "header", "loop", "recv", "write"}
      BY <2>1
    <3>3. QED
      BY <1>1, <1>9, <3>1, <3>2
  <2>4. OutputOrder'
    <3>1. Pending' = 0
      BY <2>1
    <3>2. QED
      BY <1>1, <3>1
  <2>5. QED
    BY <1>1, <2>2, <2>3, <2>4
<1>6. CASE LoopEnds
  <2>1. /\ cliPc = "loop" /\ cliI = 0 /\ cliPc' = "done" /\ cliErrored' = FALSE
        /\ UNCHANGED <<cliJ, cliL>>
    BY <1>6 DEF LoopEnds, EndOfImage
  <2>2. Pending = 0 /\ Pending' = 0
    BY <2>1
  <2>3. ClientCountsOK'
    BY <1>1, <1>9, <2>1
  <2>4. ClientCounters'
    BY <1>1, <1>9, <2>1
  <2>5. ReceivedContent' /\ OutputOrder'
    BY <1>1, <1>2, <2>1, <2>2
  <2>6. QED
    BY <1>1, <2>3, <2>4, <2>5
<1>7. CASE ClientKilled
  BY <1>1, <1>7, <1>9 DEF ClientKilled
<1>8. QED
  BY <1>1, <1>3, <1>4, <1>5, <1>6, <1>7

\* recv() of the header: cliSize is fileSize when all of it came, else anything.
LEMMA RecvHeaderInv ==
    ASSUME TcpCountsOK, ClientInv, RecvHeader
    PROVE  ClientInv' /\ rcvd' \in 0 .. arrived
<1>1. cliPc = "header" /\ rcvd = 0 /\ out = << >> /\ arrived \in Nat
  BY DEF RecvHeader, ClientInv, ClientCounters, TcpCountsOK
<1>2. PICK n \in Int : n = RecvCount(HdrLen) /\ n = IF HdrLen <= arrived THEN HdrLen ELSE arrived
  BY <1>1, MinOfTwo, TcpAssumption DEF RecvCount, Avail
<1>3. \/ arrived > 0 /\ cliHdr' = n /\ rcvd' = n
      \/ arrived = 0 /\ cliHdr' \in {0, -1} /\ rcvd' = 0
  BY <1>1, <1>2 DEF RecvHeader, Avail, RecvEof, RecvError
<1>4. /\ cliPc' = "loop"
      /\ UNCHANGED <<cliLen, cliJ, cliL, cliErrored, buf, out, saved, wire, fileSize>>
  BY DEF RecvHeader, sndVars
<1>5. PICK v \in Int : cliSize' = v /\ cliI' = v /\ (HeaderGot' => v = fileSize)
  <2>1. Decoded(cliHdr') \subseteq Int
    BY ClientAssumption DEF Decoded, TcpCountsOK
  <2>2. HeaderGot' => Decoded(cliHdr') = {fileSize}
    BY <1>4, ClientAssumption, Zenon DEF Decoded, HeaderGot
  <2>3. QED
    BY <2>1, <2>2 DEF RecvHeader
<1>6. /\ cliHdr' \in -1 .. HdrLen /\ rcvd' \in 0 .. arrived /\ cliHdr' <= rcvd'
      /\ HeaderGot' => rcvd' = HdrLen
  <2>1. HeaderGot' => cliHdr' = HdrLen
    BY DEF HeaderGot
  <2>2. QED
    BY <1>1, <1>2, <1>3, <2>1, TcpAssumption
<1>7. ClientCountsOK' /\ ClientCounters'
  <2>1. Len(out) = 0
    BY <1>1
  <2>2. ClientCountsOK'
    BY <1>4, <1>5, <1>6, TcpAssumption DEF ClientInv, ClientCountsOK
  <2>3. ClientCounters'
    BY <1>4, <1>5, <1>6, <2>1 DEF ClientInv, ClientCounters
  <2>4. QED
    BY <2>2, <2>3
<1>8. ReceivedContent' /\ OutputOrder'
  BY <1>1, <1>4, <1>5, <1>6, TcpAssumption DEF ReceivedContent, OutputOrder, Pending
<1>9. QED
  BY <1>6, <1>7, <1>8 DEF ClientInv

\* The top of receive_image's loop: buffer is empty again, i is not touched.
LEMMA NextChunkInv ==
    ASSUME TcpCountsOK, ClientInv, NextChunk
    PROVE  ClientInv'
<1>1. cliPc = "loop" /\ cliI # 0 /\ cliI \in Int /\ Chunk \in Nat \ {0}
  BY TcpAssumption DEF NextChunk, ClientInv, ClientCountsOK
<1>2. cliLen' = IF cliI <= Chunk THEN cliI ELSE Chunk
  BY <1>1, MinOfTwo DEF NextChunk
<1>3. /\ cliJ' = 0 /\ cliL' = 0
      /\ cliPc' = IF 0 < cliLen' THEN "recv" ELSE "write"
      /\ UNCHANGED <<cliHdr, cliSize, cliI, cliErrored, buf, out, saved, rcvd, wire, fileSize>>
  BY DEF NextChunk, tcpVars, sndVars, rcvVars
<1>4. ClientCountsOK' /\ ClientCounters'
  BY <1>1, <1>2, <1>3 DEF ClientInv, ClientCountsOK, ClientCounters
<1>5. HeaderGot' = HeaderGot /\ Pending' = 0 /\ Pending = 0
  BY <1>1, <1>3 DEF HeaderGot, Pending
<1>6. ReceivedContent' /\ OutputOrder'
  BY <1>1, <1>3, <1>5 DEF ClientInv, ReceivedContent, OutputOrder
<1>7. QED
  BY <1>4, <1>6 DEF ClientInv

\* What RecvData moves goes from the stream to the same distance in buffer.
LEMMA RecvDataInv ==
    ASSUME TcpCountsOK, ServerInv, ClientInv, RecvData
    PROVE  ClientInv' /\ rcvd' \in 0 .. arrived
<1>1. /\ cliPc = "recv" /\ 0 <= cliJ /\ cliJ < cliLen /\ cliLen <= cliI /\ cliLen <= Chunk
      /\ cliJ \in Int /\ cliLen \in Int /\ cliI \in Int /\ Chunk \in Nat /\ HdrLen \in Nat
      /\ cliHdr \in Int /\ rcvd \in Nat /\ arrived \in Nat /\ rcvd < arrived
  BY TcpAssumption
     DEF RecvData, ClientInv, ClientCountsOK, ClientCounters, TcpCountsOK, Avail
<1>2. PICK k \in Int : RecvCount(cliLen - cliJ) = k /\ 0 < k /\ k <= cliLen - cliJ
                       /\ k <= arrived - rcvd
  <2>1. cliLen - cliJ \in Int /\ arrived - rcvd \in Int
    BY <1>1
  <2>2. Min({cliLen - cliJ, arrived - rcvd})
          = IF cliLen - cliJ <= arrived - rcvd THEN cliLen - cliJ ELSE arrived - rcvd
    BY <2>1, MinOfTwo, Zenon
  <2>3. QED
    BY <1>1, <2>2 DEF RecvCount, Avail
<1> PICK n \in Nat : /\ n = Len(wire) /\ DOMAIN wire = 1 .. n /\ arrived <= n
                     /\ \A x \in 1 .. n : wire[x] \in Int
  BY DEF TcpCountsOK
<1> PICK m \in Nat : /\ m = Len(out) /\ DOMAIN out = 1 .. m
                     /\ \A x \in 1 .. m : out[x] \in Int
  BY DEF ClientInv, ClientCountsOK
<1>3. /\ cliL' = k /\ rcvd' = rcvd + k /\ cliJ' = cliJ + k
      /\ cliPc' = IF cliJ + k < cliLen THEN "recv" ELSE "write"
      /\ UNCHANGED <<cliHdr, cliSize, cliI, cliLen, cliErrored, out, saved, wire, fileSize>>
  BY <1>2 DEF RecvData, sndVars
<1>4. /\ buf' \in [0..Chunk-1 -> Int]
      /\ \A y \in 0 .. cliJ - 1 : buf'[y] = buf[y]
      /\ \A y \in cliJ .. cliJ + k - 1 : buf'[y] = wire[rcvd + 1 + y - cliJ]
  <2>1. buf \in [0..Chunk-1 -> Int]
    BY DEF ClientInv, ClientCountsOK
  <2>2. buf' = [x \in 0..Chunk-1 |->
                  IF x \in cliJ .. cliJ + k - 1 THEN wire[rcvd + 1 + x - cliJ] ELSE buf[x]]
    BY <1>2, <2>1 DEF RecvData
  <2>3. ASSUME NEW x \in cliJ .. cliJ + k - 1
        PROVE  x \in 0..Chunk-1 /\ rcvd + 1 + x - cliJ \in 1 .. n
    BY <1>1, <1>2
  <2>4. \A x \in 0 .. cliJ - 1 : x \in 0..Chunk-1 /\ x \notin cliJ .. cliJ + k - 1
    BY <1>1
  <2>5. \A x \in 0..Chunk-1 : buf'[x] \in Int
    BY <2>1, <2>2, <2>3
  <2>6. QED
    BY <2>2, <2>3, <2>4, <2>5
<1>5. Pending = cliJ /\ Pending' = cliJ + k
  BY <1>1, <1>3 DEF Pending
<1>6. ClientCountsOK'
  BY <1>1, <1>2, <1>3, <1>4 DEF ClientInv, ClientCountsOK
<1>7. ClientCounters'
  BY <1>1, <1>2, <1>3 DEF ClientInv, ClientCounters
<1>8. ReceivedContent'
  <2>1. HeaderGot' => HeaderGot
    BY <1>1, <1>3 DEF HeaderGot, ClientInv, ClientCounters
  <2>2. ASSUME HdrLen + m + cliJ = rcvd,
               \A y \in 0 .. cliJ - 1 : buf[y] = wire[HdrLen + m + 1 + y]
        PROVE  \A y \in 0 .. cliJ + k - 1 : buf'[y] = wire[HdrLen + m + 1 + y]
    <3>1. \A y \in 0 .. cliJ - 1 : buf'[y] = wire[HdrLen + m + 1 + y]
      BY <1>4, <2>2
    <3>2. ASSUME NEW y \in cliJ .. cliJ + k - 1
          PROVE  buf'[y] = wire[HdrLen + m + 1 + y]
      <4>1. rcvd + 1 + y - cliJ = HdrLen + m + 1 + y
        BY <1>1, <2>2
      <4>2. QED
        BY <1>4, <4>1
    <3>3. QED
      BY <1>1, <1>2, <3>1, <3>2
  <2>3. ASSUME HeaderGot
        PROVE  /\ cliSize = fileSize
               /\ HdrLen + m + cliJ <= rcvd
               /\ HdrLen + m + cliJ = rcvd =>
                    /\ \A x \in DOMAIN out : out[x] = wire[HdrLen + x]
                    /\ \A y \in 0 .. cliJ - 1 : buf[y] = wire[HdrLen + m + 1 + y]
    BY <1>1, <1>5, <2>3 DEF ReceivedContent, ClientInv
  <2>4. Len(out') = m /\ DOMAIN out' = DOMAIN out
    BY <1>3
  <2>5. ASSUME HeaderGot
        PROVE  cliSize = fileSize /\ HdrLen + m + (cliJ + k) <= rcvd + k
    BY <1>1, <1>2, <2>3, <2>5
  <2>6. ASSUME HeaderGot, HdrLen + m + (cliJ + k) = rcvd + k
        PROVE  /\ \A x \in DOMAIN out : out[x] = wire[HdrLen + x]
               /\ \A y \in 0 .. cliJ + k - 1 : buf'[y] = wire[HdrLen + m + 1 + y]
    <3>1. HdrLen + m + cliJ = rcvd
      BY <1>1, <1>2, <2>6
    <3>2. QED
      BY <2>2, <2>3, <2>6, <3>1
  <2>7. SUFFICES ASSUME HeaderGot'
                 PROVE  /\ cliSize' = fileSize'
                        /\ HdrLen + Len(out') + Pending' <= rcvd'
                        /\ HdrLen + Len(out') + Pending' = rcvd' =>
                             /\ \A x \in DOMAIN out' : out'[x] = wire'[HdrLen + x]
                             /\ \A y \in 0 .. Pending' - 1 :
                                  buf'[y] = wire'[HdrLen + Len(out') + 1 + y]
    BY Zenon DEF ReceivedContent
  <2>8. cliSize' = fileSize' /\ HdrLen + Len(out') + Pending' <= rcvd'
    BY <1>3, <1>5, <2>1, <2>4, <2>5, <2>7
  <2>9. ASSUME HdrLen + Len(out') + Pending' = rcvd'
        PROVE  HdrLen + m + (cliJ + k) = rcvd + k
    BY <1>3, <1>5, <2>4, <2>9
  <2>10. ASSUME HdrLen + Len(out') + Pending' = rcvd', NEW x \in DOMAIN out'
         PROVE  out'[x] = wire'[HdrLen + x]
    BY <1>3, <2>1, <2>4, <2>6, <2>7, <2>9, <2>10
  <2>11. ASSUME HdrLen + Len(out') + Pending' = rcvd', NEW y \in 0 .. Pending' - 1
         PROVE  buf'[y] = wire'[HdrLen + Len(out') + 1 + y]
    <3>1. y \in 0 .. cliJ + k - 1
      BY <1>1, <1>5
    <3>2. buf'[y] = wire[HdrLen + m + 1 + y]
      BY <2>1, <2>6, <2>7, <2>9, <2>11, <3>1
    <3>3. wire' = wire /\ Len(out') = m
      BY <1>3, <2>4
    <3>4. QED
      BY <3>2, <3>3
  <2>12. QED
    BY <2>8, <2>10, <2>11
<1>9. OutputOrder'
  <2>1. \A p, q \in 1 .. n : p < q => wire[p] < wire[q]
    BY DEF ServerInv, WireOrder
  <2>2. /\ \A x, y \in 1 .. m : x < y => out[x] < out[y]
        /\ \A x \in 1 .. m : /\ rcvd > 0 /\ out[x] <= wire[rcvd]
                            /\ \A y \in 0 .. cliJ - 1 : out[x] < buf[y]
        /\ \A y \in 0 .. cliJ - 1 : rcvd > 0 /\ buf[y] <= wire[rcvd]
        /\ \A x, y \in 0 .. cliJ - 1 : x < y => buf[x] < buf[y]
    BY <1>5 DEF OutputOrder, ClientInv
  <2> DEFINE new == cliJ .. cliJ + k - 1
  <2>3. ASSUME NEW y \in new
        PROVE  /\ buf'[y] \in Int
               /\ rcvd > 0 => wire[rcvd] \in Int /\ wire[rcvd] < buf'[y]
               /\ buf'[y] <= wire[rcvd + k]
    <3>1. PICK p \in 1 .. n : p = rcvd + 1 + y - cliJ /\ rcvd < p /\ p <= rcvd + k
      BY <1>1, <1>2
    <3>2. buf'[y] = wire[p] /\ wire[p] \in Int
      BY <1>4, <3>1
    <3>3. rcvd + k \in 1 .. n /\ (rcvd > 0 => rcvd \in 1 .. n)
      BY <1>1, <1>2
    <3>4. p = rcvd + k \/ wire[p] < wire[rcvd + k]
      BY <1>1, <1>2, <2>1, <3>1, <3>3
    <3>5. rcvd > 0 => wire[rcvd] \in Int /\ wire[rcvd] < wire[p]
      BY <1>1, <2>1, <3>1, <3>3
    <3>6. wire[p] <= wire[rcvd + k]
      BY <3>2, <3>3, <3>4
    <3>7. QED
      BY <3>2, <3>5, <3>6
  <2>4. ASSUME NEW x \in new, NEW y \in new, x < y
        PROVE  buf'[x] < buf'[y]
    <3>1. PICK p \in 1 .. n, q \in 1 .. n :
             p = rcvd + 1 + x - cliJ /\ q = rcvd + 1 + y - cliJ /\ p < q
      BY <1>1, <1>2, <2>4
    <3>2. buf'[x] = wire[p] /\ buf'[y] = wire[q]
      BY <1>4, <3>1
    <3>3. wire[p] < wire[q]
      BY <2>1, <3>1
    <3>4. QED
      BY <3>2, <3>3
  <2>5. /\ wire[rcvd + k] \in Int
        /\ rcvd > 0 => wire[rcvd] \in Int /\ wire[rcvd] < wire[rcvd + k]
    BY <1>1, <1>2, <2>1
  <2>6. ASSUME NEW y \in 0 .. cliJ - 1
        PROVE  buf'[y] = buf[y] /\ buf'[y] \in Int
    BY <1>1, <1>4
  <2>7. ASSUME NEW y \in 0 .. cliJ + k - 1
        PROVE  y \in 0 .. cliJ - 1 \/ y \in new
    BY <1>1, <1>2
  <2>8. ASSUME NEW x \in 1 .. m, NEW y \in 0 .. cliJ + k - 1
        PROVE  out[x] < buf'[y]
    BY <1>1, <2>2, <2>3, <2>6, <2>7
  <2>9. ASSUME NEW x \in 0 .. cliJ + k - 1, NEW y \in 0 .. cliJ + k - 1, x < y
        PROVE  buf'[x] < buf'[y]
    <3>1. CASE y \in 0 .. cliJ - 1
      <4>1. x \in 0 .. cliJ - 1
        BY <1>1, <2>9, <3>1
      <4>2. QED
        BY <2>2, <2>6, <2>9, <3>1, <4>1
    <3>2. CASE x \in 0 .. cliJ - 1 /\ y \in new
      <4>1. buf'[x] \in Int /\ rcvd > 0 /\ buf'[x] <= wire[rcvd]
        BY <2>2, <2>6, <3>2
      <4>2. wire[rcvd] \in Int /\ buf'[y] \in Int /\ wire[rcvd] < buf'[y]
        BY <2>3, <3>2, <4>1
      <4>3. QED
        BY <4>1, <4>2
    <3>3. CASE x \in new
      BY <1>1, <1>2, <2>4, <2>9, <3>3
    <3>4. QED
      BY <2>7, <2>9, <3>1, <3>2, <3>3
  <2>10. \A x \in 1 .. m : out[x] <= wire[rcvd + k]
    BY <2>2, <2>5
  <2>11. ASSUME NEW y \in 0 .. cliJ + k - 1
         PROVE  buf'[y] <= wire[rcvd + k]
    BY <2>2, <2>3, <2>5, <2>6, <2>7
  <2>12. QED
    BY <1>1, <1>2, <1>3, <1>5, <2>2, <2>8, <2>9, <2>10, <2>11 DEF OutputOrder
<1>10. rcvd' \in 0 .. arrived
  BY <1>1, <1>2, <1>3
<1>11. QED
  BY <1>6, <1>7, <1>8, <1>9, <1>10 DEF ClientInv

\* The output stays a sequence of integers.
LEMMA ConcatInts ==
    ASSUME NEW s \in Seq(Int), NEW w \in Seq(Int)
    PROVE  /\ s \o w \in Seq(Int) /\ Len(s \o w) = Len(s) + Len(w)
           /\ \A x \in 1 .. Len(s) : (s \o w)[x] = s[x]
           /\ \A x \in Len(s) + 1 .. Len(s) + Len(w) : (s \o w)[x] = w[x - Len(s)]
OBVIOUS

\* What WriteChunk appends.
LEMMA AppendBuffer ==
    ASSUME NEW s \in Seq(Int), NEW g \in [0 .. Chunk - 1 -> Int], NEW k \in 0 .. Chunk
    PROVE  LET t == s \o [x \in 1 .. k |-> g[x - 1]]
           IN  /\ t \in Seq(Int) /\ Len(t) = Len(s) + k
               /\ \A x \in 1 .. Len(s) : t[x] = s[x]
               /\ \A x \in Len(s) + 1 .. Len(s) + k : t[x] = g[x - Len(s) - 1]
<1> DEFINE w == [x \in 1 .. k |-> g[x - 1]]
<1>1. k \in Nat /\ \A x \in 1 .. k : g[x - 1] \in Int
  BY TcpAssumption
<1>2. w \in Seq(Int) /\ Len(w) = k /\ \A x \in 1 .. k : w[x] = g[x - 1]
  BY <1>1
<1> HIDE DEF w
<1>3. /\ s \o w \in Seq(Int) /\ Len(s \o w) = Len(s) + k
      /\ \A x \in 1 .. Len(s) : (s \o w)[x] = s[x]
      /\ \A x \in Len(s) + 1 .. Len(s) + k : (s \o w)[x] = w[x - Len(s)]
  BY <1>1, <1>2, ConcatInts
<1>4. \A x \in Len(s) + 1 .. Len(s) + k : (s \o w)[x] = g[x - Len(s) - 1]
  BY <1>1, <1>2, <1>3
<1>5. QED
  BY <1>3, <1>4 DEF w

\* The first l bytes of buffer follow those already written; the others are lost.
LEMMA WriteChunkInv ==
    ASSUME TcpCountsOK, ClientInv, WriteChunk
    PROVE  ClientInv'
<1>1. /\ cliPc = "write" /\ 0 <= cliL /\ cliL <= cliJ /\ cliL \in 0 .. Chunk /\ cliL \in Nat
      /\ cliJ \in Int /\ cliI \in Int /\ cliSize \in Int /\ rcvd \in Nat /\ HdrLen \in Nat
      /\ Len(out) + cliI = cliSize
      /\ out \in Seq(Int) /\ buf \in [0..Chunk-1 -> Int]
  BY TcpAssumption
     DEF WriteChunk, ClientInv, ClientCountsOK, ClientCounters, TcpCountsOK
<1>2. /\ cliPc' = "loop" /\ cliI' = cliI - cliL /\ Pending' = 0
      /\ UNCHANGED <<cliHdr, cliSize, cliLen, cliJ, cliL, cliErrored, buf,
                     wire, fileSize, rcvd>>
  BY DEF WriteChunk, Pending, tcpVars, sndVars, rcvVars
<1>3. PICK m \in Nat :
         /\ m = Len(out) /\ DOMAIN out = 1 .. m
         /\ out' \in Seq(Int) /\ Len(out') = m + cliL /\ DOMAIN out' = 1 .. m + cliL
         /\ \A x \in 1 .. m : out'[x] = out[x] /\ out[x] \in Int
         /\ \A x \in m + 1 .. m + cliL : out'[x] = buf[x - m - 1]
  <2>1. /\ out' \in Seq(Int) /\ Len(out') = Len(out) + cliL
        /\ \A x \in 1 .. Len(out) : out'[x] = out[x]
        /\ \A x \in Len(out) + 1 .. Len(out) + cliL : out'[x] = buf[x - Len(out) - 1]
    BY <1>1, AppendBuffer DEF WriteChunk, WriteBuffer
  <2>2. /\ Len(out) \in Nat
        /\ DOMAIN out = 1 .. Len(out) /\ DOMAIN out' = 1 .. Len(out) + cliL
        /\ \A x \in 1 .. Len(out) : out[x] \in Int
    BY <1>1, <2>1
  <2>3. QED
    BY <2>1, <2>2, Zenon
<1>4. ASSUME NEW x \in m + 1 .. m + cliL
      PROVE  x - m - 1 \in 0 .. cliJ - 1
  BY <1>1, <1>3
<1>5. ClientCountsOK' /\ ClientCounters'
  <2>1. Len(out') + cliI' = cliSize
    <3>1. m + cliI = cliSize
      BY <1>1, <1>3
    <3>2. QED
      <4>1. Len(out') + cliI' = m + cliL + (cliI - cliL)
        BY <1>2, <1>3
      <4>2. QED
        BY <1>1, <3>1, <4>1
  <2>2. cliI' \in Int
    BY <1>1, <1>2
  <2>3. saved' \in 0 .. Len(out') /\ Len(out') - saved' <= StreamBuf
    <3>1. saved \in 0 .. m
      BY <1>3 DEF ClientInv, ClientCountsOK
    <3>2. saved' = Len(out') \/ (saved' = saved /\ Len(out') - saved <= StreamBuf)
      BY DEF WriteChunk, WriteBuffer
    <3>3. Len(out') = m + cliL
      BY <1>3
    <3>4. CASE saved' = Len(out')
      BY <1>1, <3>3, <3>4, ClientAssumption
    <3>5. CASE saved' = saved /\ Len(out') - saved <= StreamBuf
      BY <1>1, <3>1, <3>3, <3>5
    <3>6. QED
      BY <3>2, <3>4, <3>5
  <2>4. ClientCountsOK'
    BY <1>1, <1>2, <1>3, <2>2, <2>3 DEF ClientInv, ClientCountsOK
  <2>5. ClientCounters'
    <3>1. Len(out') + cliI' = cliSize' /\ cliPc' = "loop" /\ cliHdr' <= rcvd'
      BY <1>2, <2>1 DEF ClientInv, ClientCounters
    <3>2. QED
      BY <2>3, <3>1 DEF ClientCounters
  <2>6. QED
    BY <2>4, <2>5
<1>6. ReceivedContent'
  <2>1. HeaderGot' = HeaderGot
    BY <1>2 DEF HeaderGot
  <2>2. ASSUME HeaderGot
        PROVE  /\ cliSize = fileSize
               /\ HdrLen + m + cliJ <= rcvd
               /\ HdrLen + m + cliJ = rcvd =>
                    /\ \A x \in 1 .. m : out[x] = wire[HdrLen + x]
                    /\ \A y \in 0 .. cliJ - 1 : buf[y] = wire[HdrLen + m + 1 + y]
    BY <1>1, <1>3, <2>2 DEF ReceivedContent, ClientInv, Pending
  <2>3. ASSUME HeaderGot, HdrLen + (m + cliL) + 0 = rcvd, NEW x \in 1 .. m + cliL
        PROVE  out'[x] = wire[HdrLen + x]
    <3>1. HdrLen + m + cliJ = rcvd /\ cliL = cliJ
      <4>1. HdrLen + m + cliL = rcvd
        BY <1>1, <2>3
      <4>2. HdrLen + m + cliJ <= rcvd
        BY <2>2, <2>3
      <4>3. QED
        BY <1>1, <4>1, <4>2
    <3>2. CASE x <= m
      BY <1>1, <1>3, <2>2, <2>3, <3>1, <3>2
    <3>3. CASE x > m
      <4>1. x \in m + 1 .. m + cliL
        BY <1>1, <1>3, <3>3
      <4>2. out'[x] = wire[HdrLen + m + 1 + (x - m - 1)]
        BY <1>3, <1>4, <2>2, <2>3, <3>1, <4>1
      <4>3. QED
        BY <1>1, <1>3, <4>1, <4>2
    <3>4. QED
      BY <1>1, <1>3, <3>2, <3>3
  <2>4. ASSUME HeaderGot PROVE HdrLen + (m + cliL) + 0 <= rcvd
    BY <1>1, <1>3, <2>2, <2>4
  <2>5. QED
    BY <1>1, <1>2, <1>3, <2>1, <2>2, <2>3, <2>4 DEF ReceivedContent
<1>7. OutputOrder'
  <2>1. /\ \A x, y \in 1 .. m : x < y => out[x] < out[y]
        /\ \A x \in 1 .. m : /\ rcvd > 0 /\ out[x] <= wire[rcvd]
                            /\ \A y \in 0 .. cliJ - 1 : out[x] < buf[y]
        /\ \A y \in 0 .. cliJ - 1 : rcvd > 0 /\ buf[y] <= wire[rcvd]
        /\ \A x, y \in 0 .. cliJ - 1 : x < y => buf[x] < buf[y]
    BY <1>1, <1>3 DEF OutputOrder, ClientInv, Pending
  <2>2. ASSUME NEW x \in 1 .. m + cliL
        PROVE  x \in 1 .. m \/ x \in m + 1 .. m + cliL
    BY <1>1, <1>3
  <2>3. ASSUME NEW x \in 1 .. m + cliL, NEW y \in 1 .. m + cliL, x < y
        PROVE  out'[x] < out'[y]
    <3>1. CASE y \in 1 .. m
      BY <1>3, <2>1, <2>3, <3>1
    <3>2. CASE x \in 1 .. m /\ y \in m + 1 .. m + cliL
      BY <1>3, <1>4, <2>1, <3>2
    <3>3. CASE x \in m + 1 .. m + cliL
      <4>1. y \in m + 1 .. m + cliL /\ x - m - 1 < y - m - 1
        BY <1>1, <1>3, <2>3, <3>3
      <4>2. QED
        BY <1>3, <1>4, <2>1, <3>3, <4>1
    <3>4. QED
      BY <2>2, <3>1, <3>2, <3>3
  <2>4. ASSUME NEW x \in 1 .. m + cliL
        PROVE  rcvd > 0 /\ out'[x] <= wire[rcvd]
    BY <1>3, <1>4, <2>1, <2>2
  <2>5. QED
    BY <1>2, <1>3, <2>3, <2>4 DEF OutputOrder
<1>8. QED
  BY <1>5, <1>6, <1>7 DEF ClientInv

------------------------------------------------------------------------------
\* Every step of the two programs and of the network keeps the invariant.
LEMMA InvNext ==
    ASSUME IInv, FlagsOK, [Next]_vars
    PROVE  IInv'
<1>1. TcpCountsOK /\ ServerInv /\ ClientInv
  BY DEF IInv
<1>2. CASE ServerTurn(ServerStep)
  <2>1. ServerStep /\ UNCHANGED <<rcvVars, clientVars>>
    BY <1>2 DEF ServerTurn
  <2>2. CASE StatImage
    BY <1>1, <2>1, <2>2, StatImageInv
  <2>3. CASE SendTakes
    BY <1>1, <2>1, <2>3, SendTakesInv
  <2>4. CASE ~StatImage /\ ~SendTakes
    <3>1. UNCHANGED <<wire, fileSize, arrived, rcvd>>
      BY <2>1, <2>4
         DEF ServerStep, ServerCall, ServerKilled, ImageChanges, SigPipe, Listen,
             Accept,
             OpenImage, StartFails, OpenStream, HeaderReturns, ReadChunk,
             ChunkSendReturns, ChunkSendFails, MainReturns, sndVars, rcvVars, netVars
    <3>2. ServerInv'
      BY <1>1, <2>1, <2>4, <3>1, ServerCallInv
    <3>3. ClientInv'
      BY <1>1, <2>1, <3>1, ClientFrame
    <3>4. QED
      BY <1>1, <3>1, <3>2, <3>3 DEF IInv, TcpCountsOK
  <2>5. QED
    BY <2>2, <2>3, <2>4
<1>3. CASE ClientTurn(ClientStep)
  <2>1. ClientStep /\ UNCHANGED serverVars
    BY <1>3 DEF ClientTurn
  <2>2. UNCHANGED <<wire, fileSize, arrived>>
    BY <2>1
       DEF ClientStep, ClientCall, ClientKilled, Connect, ConnectRefused, CreateFile,
           OpenOutput, RecvHeader, NextChunk, RecvData, RecvNothing, RecvFails,
           WriteChunk, WriteFails, LoopEnds, tcpVars, sndVars, netVars
  <2>3. ServerInv'
    BY <1>1, <2>1, <2>2, ServerFrame
  <2>4. ClientInv' /\ rcvd' \in 0 .. arrived
    <3>1. CASE RecvHeader
      BY <1>1, <3>1, RecvHeaderInv
    <3>2. CASE RecvData
      BY <1>1, <3>2, RecvDataInv
    <3>3. CASE NextChunk
      <4>1. UNCHANGED rcvd
        BY <3>3 DEF NextChunk, tcpVars, rcvVars
      <4>2. QED
        BY <1>1, <3>3, <4>1, NextChunkInv DEF TcpCountsOK
    <3>4. CASE WriteChunk
      <4>1. UNCHANGED rcvd
        BY <3>4 DEF WriteChunk, tcpVars, rcvVars
      <4>2. QED
        BY <1>1, <3>4, <4>1, WriteChunkInv DEF TcpCountsOK
    <3>5. CASE Connect \/ ConnectRefused \/ CreateFile \/ OpenOutput \/ RecvNothing
                 \/ RecvFails \/ WriteFails \/ LoopEnds \/ ClientKilled
      BY <1>1, <3>5, ClientControlInv DEF TcpCountsOK
    <3>6. QED
      BY <2>1, <3>1, <3>2, <3>3, <3>4, <3>5 DEF ClientStep, ClientCall
  <2>5. QED
    BY <1>1, <2>2, <2>3, <2>4 DEF IInv, TcpCountsOK
<1>4. CASE NetTurn(NetStep)
  <2>1. UNCHANGED <<wire, fileSize, rcvd, serverVars, clientVars>>
    BY <1>4 DEF NetTurn, NetStep, Arrive, Reset, sndVars, rcvVars
  <2>2. arrived' \in arrived .. Len(wire)
    BY <1>1, <1>4 DEF NetTurn, NetStep, Arrive, Reset, TcpCountsOK
  <2>3. TcpCountsOK'
    BY <1>1, <2>1, <2>2 DEF TcpCountsOK
  <2>4. ServerInv' /\ ClientInv'
    BY <1>1, <2>1, ServerFrame, ClientFrame
  <2>5. QED
    BY <2>3, <2>4 DEF IInv
<1>5. CASE UNCHANGED vars
  <2>1. UNCHANGED <<wire, fileSize, arrived, rcvd, serverVars, clientVars>>
    BY <1>5 DEF vars, tcpVars, sndVars, rcvVars, netVars
  <2>2. QED
    BY <1>1, <2>1, ServerFrame, ClientFrame DEF IInv, TcpCountsOK
<1>6. QED
  BY <1>2, <1>3, <1>4, <1>5 DEF Next

\* At every control point of transmit_image and receive_image their counters, the
\* stream, buffer and the output agree as FileTransferInv says.
THEOREM Inductive == Spec => []IInv
<1>1. IInv /\ FlagsOK /\ [Next]_vars => IInv'
  BY InvNext
<1>2. QED
  BY InvInit, FlagsInvariant, <1>1, PTL DEF Spec

------------------------------------------------------------------------------
(* What FileTransfer.tla states. *)

\* Every variable keeps its type, whatever the constants.
THEOREM TypeCorrect == Spec => []TypeOK
<1>1. IInv /\ FlagsOK => TypeOK
  BY DEF IInv, ServerInv, ClientInv, FlagsOK, TypeOK, TcpTypeOK, ServerTypeOK,
         ClientTypeOK
<1>2. QED
  BY Inductive, FlagsInvariant, <1>1, PTL

\* The stream is the header and then the image from its first byte on, for every
\* chunk size, buffer size and way of cutting the sends.
THEOREM StreamStaysInOrder == Spec => []StreamInOrder
<1>1. IInv => StreamInOrder
  BY DEF IInv, ServerInv, WireContent, InStep, StreamInOrder
<1>2. QED
  BY Inductive, <1>1, PTL

\* A transmit_image that reports no error has sent at least what it announced.
THEOREM CleanSendsAreComplete == Spec => []CleanSendIsComplete
<1>1. IInv => CleanSendIsComplete
  <2>1. SUFFICES ASSUME IInv, srvPc = "done", ~srvErrored, srvHdr = HdrLen
                 PROVE  Len(wire) >= HdrLen + fileSize
    BY DEF CleanSendIsComplete
  <2>2. srvTook = 0 /\ srvJ = srvLen /\ srvI = 0 /\ srvI >= fileSize - srvPos
    BY <2>1 DEF IInv, ServerInv, ServerCounters
  <2>3. Len(wire) = HdrLen + srvPos - srvLen + srvJ + srvTook
    BY <2>1 DEF IInv, ServerInv, WireContent, InStep
  <2>4. srvPos \in Nat /\ srvLen \in Nat /\ fileSize \in Int /\ HdrLen \in Nat
    BY <2>1, TcpAssumption DEF IInv, ServerInv, ServerCountsOK, TcpCountsOK
  <2>5. QED
    BY <2>2, <2>3, <2>4
<1>2. QED
  BY Inductive, <1>1, PTL

\* The received file is an increasing selection of the image's bytes.
THEOREM OutputStaysInOrder == Spec => []OutputInOrder
<1>1. IInv => OutputInOrder
  BY DEF IInv, ClientInv, OutputOrder, OutputInOrder
<1>2. QED
  BY Inductive, <1>1, PTL

\* A client that decoded the whole header decoded what the server announced.
LEMMA HeaderArrives ==
    ASSUME IInv, HeaderExchanged
    PROVE  /\ HeaderGot
           /\ Len(wire) = HdrLen + srvPos - srvLen + srvJ + srvTook
           /\ \A x \in DOMAIN wire : wire[x] = x - 1 - HdrLen
<1>1. /\ Len(wire) = HdrLen + srvPos - srvLen + srvJ + srvTook
      /\ \A x \in DOMAIN wire : wire[x] = x - 1 - HdrLen
  BY DEF IInv, ServerInv, WireContent, InStep, HeaderExchanged
<1>2. HdrLen <= rcvd /\ rcvd <= Len(wire) /\ HdrLen \in Nat /\ Len(wire) \in Nat
  BY TcpAssumption DEF IInv, ClientInv, ClientCounters, HeaderExchanged, TcpCountsOK
<1>3. \A x \in 1 .. HdrLen : x \in DOMAIN wire
  BY <1>2 DEF IInv, TcpCountsOK
<1>4. QED
  BY <1>1, <1>2, <1>3 DEF HeaderGot, HeaderExchanged

\* A receive_image that reports no error has handed its ofstream the image, unless the
\* image grew under the server; only what the ofstream held back can be missing.
THEOREM CleanReceivesAreExact == Spec => []CleanReceiveIsExact
<1>1. IInv => CleanReceiveIsExact
  <2>1. SUFFICES ASSUME IInv, cliPc = "done", ~cliErrored, HeaderExchanged, ~grew
                 PROVE  /\ Len(out) = fileSize /\ IsImagePrefix(out)
                        /\ fileSize - saved <= StreamBuf
                        /\ ~DiskMayFail => saved = fileSize
    BY DEF CleanReceiveIsExact
  <2>2. /\ HeaderGot
        /\ Len(wire) = HdrLen + srvPos - srvLen + srvJ + srvTook
        /\ \A x \in DOMAIN wire : wire[x] = x - 1 - HdrLen
    BY <2>1, HeaderArrives
  <2>3. /\ out \in Seq(Int) /\ wire \in Seq(Int) /\ rcvd \in Nat /\ rcvd <= Len(wire)
        /\ HdrLen \in Nat /\ fileSize \in Int
    BY <2>1, TcpAssumption DEF IInv, TcpCountsOK, ClientInv, ClientCountsOK
  <2>4. Len(out) \in Nat /\ DOMAIN out = 1 .. Len(out) /\ DOMAIN wire = 1 .. Len(wire)
    BY <2>3
  <2>5. Len(out) = fileSize
    BY <2>1, <2>2 DEF IInv, ClientInv, ClientCounters, ReceivedContent
  <2>6. /\ HdrLen + Len(out) <= rcvd
        /\ HdrLen + Len(out) = rcvd => \A k \in DOMAIN out : out[k] = wire[HdrLen + k]
    BY <2>1, <2>2, <2>3, <2>4 DEF IInv, ClientInv, ReceivedContent, Pending
  <2>7. Len(wire) <= HdrLen + Len(out)
    <3>1. /\ srvPos \in Nat /\ srvLen \in Nat /\ srvJ \in Nat /\ srvTook \in Nat
          /\ srvLen <= srvPos /\ srvJ + srvTook <= srvLen
      BY <2>1, TcpAssumption
         DEF IInv, ServerInv, ServerCountsOK, ServerCounters, HeaderExchanged
    <3>2. srvPos = 0 \/ srvPos <= fileSize
      BY <2>1 DEF IInv, ServerInv, ImageBound
    <3>3. QED
      BY <2>2, <2>3, <2>4, <2>5, <3>1, <3>2
  <2>8. HdrLen + Len(out) = rcvd /\ Len(wire) = rcvd
    <3>1. /\ HdrLen + Len(out) \in Nat /\ Len(wire) \in Nat /\ rcvd \in Nat
          /\ rcvd <= Len(wire)
      BY <2>3, <2>4
    <3>2. HdrLen + Len(out) <= rcvd
      BY <2>6
    <3>3. QED
      BY <2>7, <3>1, <3>2
  <2>9. ASSUME NEW k \in 1 .. Len(out)
        PROVE  out[k] = k - 1
    <3>1. HdrLen + k \in DOMAIN wire
      BY <2>3, <2>4, <2>8
    <3>2. out[k] = wire[HdrLen + k]
      BY <2>4, <2>6, <2>8
    <3>3. wire[HdrLen + k] = k - 1
      <4>1. \A x \in DOMAIN wire : wire[x] = x - 1 - HdrLen
        BY <2>2
      <4>2. PICK x \in DOMAIN wire : x = HdrLen + k
        BY <3>1, Zenon
      <4>3. wire[x] = x - 1 - HdrLen
        BY <4>1
      <4>4. x - 1 - HdrLen = k - 1
        BY <2>3, <2>4, <4>2
      <4>5. QED
        BY <4>2, <4>3, <4>4
    <3>4. QED
      BY <3>2, <3>3
  <2>10. /\ Len(out) - saved <= StreamBuf
         /\ ~DiskMayFail => saved = Len(out)
    BY <2>1 DEF IInv, ClientInv, ClientCounters
  <2>11. QED
    BY <2>4, <2>5, <2>9, <2>10 DEF IsImagePrefix
<1>2. QED
  BY Inductive, <1>1, PTL

\* A client that polls an ended stream was sent too little, or has itself dropped
\* bytes it had received.
THEOREM SpinsHaveACause == Spec => []SpinHasCause
<1>1. IInv => SpinHasCause
  <2>1. SUFFICES ASSUME IInv, cliPc = "recv", RecvEof, HeaderExchanged,
                        ~(Len(wire) < HdrLen + fileSize), ~(arrived < Len(wire))
                 PROVE  Len(out) + cliJ < rcvd - HdrLen
    BY DEF SpinHasCause, PollsForEver
  <2>2. /\ rcvd \in Nat /\ arrived \in Nat /\ Len(wire) \in Nat /\ arrived <= Len(wire)
        /\ Len(out) \in Nat /\ HdrLen \in Nat /\ fileSize \in Int
        /\ cliI \in Int /\ cliJ \in Int /\ cliLen \in Int
    BY <2>1, TcpAssumption DEF IInv, TcpCountsOK, ClientInv, ClientCountsOK
  <2>3. rcvd = Len(wire)
    BY <2>1, <2>2 DEF RecvEof, Avail
  <2>4. HeaderGot
    BY <2>1, HeaderArrives
  <2>5. cliSize = fileSize /\ HdrLen + Len(out) + cliJ <= rcvd
    BY <2>1, <2>4 DEF IInv, ClientInv, ReceivedContent, Pending
  <2>6. Len(out) + cliI = cliSize /\ cliJ < cliLen /\ cliLen <= cliI
    BY <2>1 DEF IInv, ClientInv, ClientCounters
  <2>7. Len(out) + cliJ < fileSize
    BY <2>2, <2>5, <2>6
  <2>8. QED
    BY <2>1, <2>2, <2>3, <2>7
<1>2. QED
  BY Inductive, <1>1, PTL

------------------------------------------------------------------------------
(* The length of the loops. *)

\* A loop over i that has counted down by at least 1 has used up one round's steps.
LEMMA LoopStepsFall ==
    ASSUME NEW i \in Int, NEW l \in Int, i > 0, l >= 1
    PROVE  LoopSteps(i - l) + 2 * Chunk + 2 <= LoopSteps(i)
<1> DEFINE K == 2 * Chunk + 2
           a == IF i - l > 0 THEN i - l ELSE 0
<1>1. K \in Nat /\ a \in Nat /\ i - 1 - a \in Nat
  BY TcpAssumption
<1>2. LoopSteps(i - l) = K * a /\ LoopSteps(i) = K * i
  BY DEF LoopSteps
<1> HIDE DEF K, a
<1>3. PICK d \in Nat : i = a + 1 + d
  <2>1. i = a + 1 + (i - 1 - a)
    BY <1>1
  <2>2. QED
    BY <1>1, <2>1
<1>4. K * i = K * a + K + K * d /\ K * d >= 0
  BY <1>1, <1>3
<1>5. K * a \in Nat
  BY <1>1
<1>6. K * a + K <= K * i
  BY <1>1, <1>4, <1>5
<1>7. LoopSteps(i - l) \in Nat /\ LoopSteps(i - l) + K <= LoopSteps(i)
  BY <1>2, <1>5, <1>6
<1>8. LoopSteps(i) \in Int
  BY <1>1, <1>2
<1>9. QED
  BY <1>7, <1>8, TcpAssumption DEF K

\* A loop always has a number of steps left, and at least a round's when i is positive.
LEMMA LoopStepsType ==
    ASSUME NEW i \in Int
    PROVE  LoopSteps(i) \in Nat /\ (i > 0 => LoopSteps(i) >= 2 * Chunk + 2)
<1> DEFINE K == 2 * Chunk + 2
           a == IF i > 0 THEN i ELSE 0
<1>1. K \in Nat /\ a \in Nat
  BY TcpAssumption
<1>2. LoopSteps(i) = K * a
  BY DEF LoopSteps
<1> HIDE DEF K, a
<1>3. K * a \in Nat
  BY <1>1
<1>4. ASSUME i > 0 PROVE LoopSteps(i) >= 2 * Chunk + 2
  <2>1. LoopSteps(i - i) + 2 * Chunk + 2 <= LoopSteps(i)
    <3>1. i >= 1
      BY <1>4
    <3>2. QED
      BY <1>4, <3>1, LoopStepsFall
  <2>2. LoopSteps(i - i) = K * 0
    BY DEF LoopSteps, K
  <2>3. K * 0 = 0
    BY <1>1
  <2>4. LoopSteps(i) \in Int
    BY <1>2, <1>3
  <2>5. QED
    BY <2>1, <2>2, <2>3, <2>4, TcpAssumption
<1>5. QED
  BY <1>2, <1>3, <1>4

\* What TransmitSteps is at each control point of transmit_image.
TransmitPoints ==
    /\ srvPc = "stream" => TransmitSteps = LoopSteps(srvI) + 2 * Chunk + 2 * HdrLen + 5
    /\ srvPc = "header" => TransmitSteps = LoopSteps(srvI) + 2 * Chunk + 4 + SendSteps
    /\ srvPc = "read"   => TransmitSteps = LoopSteps(srvI) + 2 * Chunk + 2
    /\ srvPc = "send"   => TransmitSteps = LoopSteps(srvI) + 1 + SendSteps
    /\ srvPc = "ret"    => TransmitSteps = 1
    /\ srvPc \notin Transmitting => TransmitSteps = 0

\* That is what it is, before a step and after it.
LEMMA TransmitStepsAre ==
    /\ TransmitPoints
    /\ TransmitPoints'
BY DEF TransmitSteps, Transmitting, TransmitPoints

\* Each step of transmit_image leaves less to do: the one that ends a round takes at
\* least 1 from i, which is positive as long as there is a chunk in buffer.
LEMMA TransmitStep ==
    ASSUME TcpCountsOK, ServerInv, ServerInv', FlagsOK, ServerCall, srvPc \in Transmitting
    PROVE  TransmitSteps' < TransmitSteps
<1> USE TcpAssumption
<1>1. /\ srvI \in Int /\ srvTook \in Nat /\ srvJ \in Nat /\ srvLen \in Nat /\ srvPos \in Int
      /\ Wanted \in Nat /\ srvI' \in Int /\ srvTook' \in Nat /\ Wanted' \in Nat
      /\ HdrLen \in Nat \ {0} /\ Chunk \in Nat \ {0} /\ disk \in Int
  <2>1. /\ srvI \in Int /\ srvTook \in Nat /\ srvLen \in Nat /\ srvPos \in Int /\ disk \in Int
        /\ srvJ \in Nat
    BY ServerAssumption DEF ServerInv, ServerCountsOK, Absent
  <2>2. srvI' \in Int /\ srvTook' \in Nat /\ srvLen' \in Nat /\ srvJ' \in Nat
    BY ServerAssumption DEF ServerInv, ServerCountsOK, Absent
  <2>3. Wanted \in Int /\ Wanted' \in Int
    BY <2>1, <2>2 DEF Wanted
  <2>4. Wanted >= 0 /\ Wanted' >= 0
    BY DEF ServerInv, ServerCountsOK
  <2>5. QED
    BY <2>1, <2>2, <2>3, <2>4
<1>2. /\ LoopSteps(srvI) \in Nat /\ LoopSteps(srvI') \in Nat
      /\ srvI > 0 => LoopSteps(srvI) >= 2 * Chunk + 2
  BY <1>1, LoopStepsType
<1>3. SendSteps \in Nat /\ SendSteps' \in Nat
  <2>1. PICK w \in Nat, v \in Nat : w = Wanted /\ v = Wanted'
    BY <1>1
  <2>2. /\ SendSteps = 2 * w + (IF srvTook > 0 THEN 1 ELSE 0)
        /\ SendSteps' = 2 * v + (IF srvTook' > 0 THEN 1 ELSE 0)
    BY <2>1 DEF SendSteps
  <2>3. QED
    BY <2>2
<1>4. ~Listen /\ ~Accept /\ ~OpenImage /\ ~StartFails /\ ~StatImage
  BY DEF Listen, Accept, OpenImage, StartFails, StatImage, Transmitting
<1>5. CASE OpenStream
  <2>1. srvPc = "stream" /\ srvPc' = "header" /\ srvI' = srvI /\ srvTook' = 0
    BY <1>5 DEF OpenStream, loopVars, ServerInv, ServerCounters, Fresh
  <2>2. SendSteps' = 2 * HdrLen
    BY <1>1, <2>1 DEF SendSteps, Wanted
  <2>3. QED
    BY <1>1, <1>2, <2>1, <2>2, TransmitStepsAre DEF TransmitPoints
<1>6. CASE SendTakes
  <2>1. PICK k \in 1..Wanted : srvTook' = srvTook + k
    BY <1>6 DEF SendTakes
  <2>2. UNCHANGED <<srvPc, srvI, srvLen, srvJ>> /\ srvPc \in {"header", "send"}
    BY <1>6, <2>1 DEF SendTakes, Wanted
  <2>3. Wanted' = Wanted - k /\ k \in Nat \ {0}
    BY <1>1, <2>1, <2>2 DEF Wanted
  <2>4. SendSteps' < SendSteps
    BY <1>1, <2>1, <2>3 DEF SendSteps
  <2>5. QED
    BY <1>1, <1>2, <1>3, <2>2, <2>4, TransmitStepsAre DEF TransmitPoints
<1>7. CASE HeaderReturns
  <2>1. srvPc = "header" /\ srvPc' \in {"read", "ret"} /\ srvI' = srvI
    BY <1>7 DEF HeaderReturns, LoopTop
  <2>2. QED
    BY <1>1, <1>2, <1>3, <2>1, TransmitStepsAre DEF TransmitPoints
<1>8. CASE ReadChunk
  <2>1. PICK n \in Int : n = Min({srvI, Chunk}) /\ n = IF srvI <= Chunk THEN srvI ELSE Chunk
    BY <1>1, MinOfTwo
  <2>2. CASE srvFile /\ n > 0 /\ srvPos + n <= disk
    <3>1. /\ srvPc = "read" /\ srvPc' = "send" /\ srvLen' = n /\ srvJ' = 0
          /\ UNCHANGED <<srvI, srvTook>>
      BY <1>8, <2>1, <2>2, Zenon DEF ReadChunk
    <3>2. srvTook = 0
      BY <3>1 DEF ServerInv, ServerCounters
    <3>3. SendSteps' = 2 * n /\ n <= Chunk
      BY <1>1, <2>1, <3>1, <3>2 DEF SendSteps, Wanted
    <3>4. QED
      BY <1>1, <1>2, <3>1, <3>3, TransmitStepsAre DEF TransmitPoints
  <2>3. CASE ~(srvFile /\ n > 0 /\ srvPos + n <= disk)
    <3>1. srvPc = "read" /\ srvPc' = "ret"
      BY <1>8, <2>1, <2>3, Zenon DEF ReadChunk
    <3>2. QED
      BY <1>1, <1>2, <3>1, TransmitStepsAre DEF TransmitPoints
  <2>4. QED
    BY <2>2, <2>3
<1>9. CASE ChunkSendReturns
  <2>1. srvPc = "send" /\ srvTook > 0 /\ srvTook' = 0 /\ srvJ' = srvJ + srvTook /\ srvLen' = srvLen
    BY <1>1, <1>9 DEF ChunkSendReturns, SendMayReturn
  <2>2. srvI > 0
    BY <1>1, <2>1 DEF ServerInv, ServerCounters
  <2>3. CASE srvJ' < srvLen
    <3>1. srvPc' = "send" /\ srvI' = srvI
      BY <1>9, <2>1, <2>3 DEF ChunkSendReturns
    <3>2. Wanted' = Wanted
      BY <1>1, <2>1, <3>1 DEF Wanted
    <3>3. SendSteps' < SendSteps
      BY <1>1, <2>1, <3>2 DEF SendSteps
    <3>4. QED
      BY <1>1, <1>2, <1>3, <2>1, <3>1, <3>3, TransmitStepsAre DEF TransmitPoints
  <2>4. CASE ~(srvJ' < srvLen)
    <3>1. srvI' = srvI - srvTook /\ srvPc' \in {"read", "ret"}
      BY <1>9, <2>4 DEF ChunkSendReturns, LoopTop
    <3>2. LoopSteps(srvI') + 2 * Chunk + 2 <= LoopSteps(srvI)
      <4>1. srvTook \in Int /\ srvTook >= 1
        BY <1>1, <2>1
      <4>2. LoopSteps(srvI - srvTook) + 2 * Chunk + 2 <= LoopSteps(srvI)
        BY <1>1, <2>2, <4>1, LoopStepsFall
      <4>3. QED
        BY <3>1, <4>2
    <3>3. QED
      BY <1>1, <1>2, <1>3, <2>1, <2>2, <3>1, <3>2, TransmitStepsAre DEF TransmitPoints
  <2>5. QED
    BY <2>3, <2>4
<1>10. CASE ChunkSendFails
  <2>1. srvPc = "send" /\ srvPc' = "ret"
    BY <1>10 DEF ChunkSendFails
  <2>2. srvI > 0
    BY <1>1, <2>1 DEF ServerInv, ServerCounters
  <2>3. QED
    BY <1>1, <1>2, <1>3, <2>1, <2>2, TransmitStepsAre DEF TransmitPoints
<1>11. CASE SigPipe \/ MainReturns
  <2>1. srvPc' \notin Transmitting
    BY <1>11 DEF SigPipe, MainReturns, Transmitting
  <2>2. TransmitSteps > 0
    BY <1>1, <1>2, <1>3, TransmitStepsAre DEF TransmitPoints, Transmitting
  <2>3. QED
    BY <2>1, <2>2, TransmitStepsAre DEF TransmitPoints
<1>12. QED
  BY <1>4, <1>5, <1>6, <1>7, <1>8, <1>9, <1>10, <1>11 DEF ServerCall

\* transmit_image's loops cannot go on for ever, for any size of the image and of a
\* chunk, however its sends are cut.
THEOREM TransmissionShrinks == Spec => TransmitShrinks
<1>1. ASSUME IInv, IInv', FlagsOK, [Next]_vars
      PROVE  [(srvPc \in Transmitting) => TransmitSteps' < TransmitSteps]_transmitVars
  <2>1. CASE ServerTurn(ServerCall)
    BY <1>1, <2>1, TransmitStep DEF IInv, ServerTurn
  <2>2. CASE ServerTurn(ServerKilled)
    <3>1. srvPc' \notin Transmitting /\ UNCHANGED loopVars
      BY <2>2 DEF ServerTurn, ServerKilled, Transmitting
    <3>2. ASSUME srvPc \in Transmitting PROVE TransmitSteps > 0
      <4>1. /\ srvI \in Int /\ Wanted \in Int /\ Wanted >= 0
            /\ HdrLen \in Nat \ {0} /\ Chunk \in Nat \ {0}
        BY <1>1, TcpAssumption, ServerAssumption
           DEF IInv, ServerInv, ServerCountsOK, Wanted, Absent
      <4>2. LoopSteps(srvI) \in Nat
        BY <4>1, LoopStepsType
      <4>3. SendSteps \in Int /\ SendSteps >= 0
        BY <4>1 DEF SendSteps
      <4>4. QED
        BY <3>2, <4>1, <4>2, <4>3, TransmitStepsAre DEF TransmitPoints, Transmitting
    <3>3. QED
      BY <3>1, <3>2, TransmitStepsAre DEF TransmitPoints
  <2>3. CASE ServerTurn(ImageChanges)
    BY <2>3 DEF ServerTurn, ImageChanges, transmitVars
  <2>4. CASE ClientTurn(ClientStep) \/ NetTurn(NetStep) \/ UNCHANGED vars
    BY <2>4 DEF ClientTurn, NetTurn, vars, serverVars, transmitVars
  <2>5. QED
    BY <1>1, <2>1, <2>2, <2>3, <2>4 DEF Next, ServerTurn, ServerStep
<1>2. QED
  BY Inductive, FlagsInvariant, <1>1, PTL DEF Spec, TransmitShrinks

\* A chunk is begun with i not 0, and written with something in it unless i is negative.
ChunkInv ==
    /\ cliPc \in {"recv", "write"} => cliI # 0
    /\ cliPc = "write" /\ cliI > 0 => cliL > 0

\* What ReceiveSteps is at each control point of receive_image's loops.
ReceivePoints ==
    /\ cliPc = "loop"  => ReceiveSteps = LoopSteps(cliI) + 2 * Chunk + 2
    /\ cliPc = "recv"  => ReceiveSteps = LoopSteps(cliI) + 1 + (cliLen - cliJ)
    /\ cliPc = "write" => ReceiveSteps = LoopSteps(cliI) + 1
    /\ cliPc \notin Receiving => ReceiveSteps = 0

\* That is what it is, before a step and after it.
LEMMA ReceiveStepsAre ==
    /\ ReceivePoints
    /\ ReceivePoints'
BY DEF ReceiveSteps, Receiving, ReceivePoints

\* recv() has returned at least one byte by the time a chunk is written.
LEMMA ChunkNext == IInv /\ ChunkInv /\ [Next]_vars => ChunkInv'
<1> SUFFICES ASSUME IInv, ChunkInv, [Next]_vars PROVE ChunkInv'
  OBVIOUS
<1>1. /\ cliI \in Int /\ cliLen \in Int /\ cliJ \in Int /\ Chunk \in Nat \ {0}
      /\ rcvd \in Int /\ arrived \in Int
  BY TcpAssumption DEF IInv, ClientInv, ClientCountsOK, TcpCountsOK
<1>2. CASE ClientTurn(ClientStep)
  <2>1. CASE NextChunk
    <3>1. cliI # 0 /\ cliI' = cliI /\ cliLen' = Min({cliI, Chunk})
          /\ cliPc' = IF 0 < cliLen' THEN "recv" ELSE "write"
      BY <2>1 DEF NextChunk
    <3>2. Min({cliI, Chunk}) = IF cliI <= Chunk THEN cliI ELSE Chunk
      BY <1>1, MinOfTwo
    <3>3. QED
      BY <1>1, <3>1, <3>2 DEF ChunkInv
  <2>2. CASE RecvData
    <3>1. cliPc = "recv" /\ cliI' = cliI /\ Avail > 0 /\ cliL' = RecvCount(cliLen - cliJ)
      BY <2>2 DEF RecvData
    <3>2. cliJ < cliLen
      BY <3>1 DEF IInv, ClientInv, ClientCounters
    <3>3. RecvCount(cliLen - cliJ) = IF cliLen - cliJ <= Avail THEN cliLen - cliJ ELSE Avail
      BY <1>1, MinOfTwo DEF RecvCount, Avail
    <3>4. cliL' > 0
      BY <1>1, <3>1, <3>2, <3>3 DEF Avail
    <3>5. QED
      BY <3>1, <3>4 DEF ChunkInv
  <2>3. CASE RecvNothing
    BY <2>3 DEF RecvNothing, ChunkInv
  <2>4. CASE ~NextChunk /\ ~RecvData /\ ~RecvNothing
    <3>1. cliPc' \notin {"recv", "write"}
      BY <1>2, <2>4
         DEF ClientTurn, ClientStep, ClientCall, ClientKilled, Connect, ConnectRefused, CreateFile,
             OpenOutput, RecvHeader, RecvFails, WriteChunk, WriteFails, LoopEnds, EndOfImage
    <3>2. QED
      BY <3>1 DEF ChunkInv
  <2>5. QED
    BY <2>1, <2>2, <2>3, <2>4
<1>3. CASE ServerTurn(ServerStep) \/ NetTurn(NetStep) \/ UNCHANGED vars
  BY <1>3 DEF ServerTurn, NetTurn, vars, clientVars, ChunkInv
<1>4. QED
  BY <1>2, <1>3 DEF Next

\* Each step of receive_image's loops leaves less to do, as long as i counts down.
LEMMA ReceiveStep ==
    ASSUME IInv, IInv', ChunkInv, ClientStep, cliPc \in Receiving, cliI >= 0,
           ~UNCHANGED receiveVars
    PROVE  ReceiveSteps' < ReceiveSteps
<1>1. /\ cliI \in Int /\ cliLen \in Int /\ cliJ \in Int /\ cliL \in Int /\ Chunk \in Nat \ {0}
      /\ rcvd \in Int /\ arrived \in Int /\ cliI' \in Int /\ cliLen' \in Int /\ cliJ' \in Int
  BY TcpAssumption DEF IInv, ClientInv, ClientCountsOK, TcpCountsOK
<1>2. LoopSteps(cliI) \in Nat /\ LoopSteps(cliI') \in Nat
  BY <1>1, LoopStepsType
<1>3. ~Connect /\ ~ConnectRefused /\ ~CreateFile /\ ~OpenOutput /\ ~RecvHeader /\ ~RecvNothing
  BY DEF Connect, ConnectRefused, CreateFile, OpenOutput, RecvHeader, RecvNothing, Receiving,
         receiveVars
<1>4. CASE NextChunk
  <2>1. /\ cliPc = "loop" /\ cliI # 0 /\ cliI' = cliI /\ cliJ' = 0
        /\ cliLen' = Min({cliI, Chunk}) /\ cliPc' = IF 0 < cliLen' THEN "recv" ELSE "write"
    BY <1>4 DEF NextChunk
  <2>2. Min({cliI, Chunk}) = IF cliI <= Chunk THEN cliI ELSE Chunk
    BY <1>1, MinOfTwo
  <2>3. cliPc' = "recv" /\ cliLen' <= Chunk
    BY <1>1, <2>1, <2>2
  <2>4. QED
    BY <1>1, <1>2, <2>1, <2>3, ReceiveStepsAre DEF ReceivePoints
<1>5. CASE RecvData
  <2>1. /\ cliPc = "recv" /\ cliI' = cliI /\ cliLen' = cliLen /\ Avail > 0
        /\ cliJ' = cliJ + RecvCount(cliLen - cliJ)
        /\ cliPc' \in {"recv", "write"}
    BY <1>5 DEF RecvData
  <2>2. cliJ < cliLen
    BY <2>1 DEF IInv, ClientInv, ClientCounters
  <2>3. RecvCount(cliLen - cliJ) = IF cliLen - cliJ <= Avail THEN cliLen - cliJ ELSE Avail
    BY <1>1, MinOfTwo DEF RecvCount, Avail
  <2>4. cliJ < cliJ'
    BY <1>1, <2>1, <2>2, <2>3 DEF Avail
  <2>5. QED
    BY <1>1, <1>2, <2>1, <2>2, <2>4, ReceiveStepsAre DEF ReceivePoints
<1>6. CASE WriteChunk
  <2>1. cliPc = "write" /\ cliPc' = "loop" /\ cliI' = cliI - cliL
    BY <1>6 DEF WriteChunk
  <2>2. cliI > 0 /\ cliL >= 1
    BY <1>1, <2>1 DEF ChunkInv
  <2>3. LoopSteps(cliI - cliL) + 2 * Chunk + 2 <= LoopSteps(cliI)
    BY <1>1, <2>2, LoopStepsFall
  <2>4. QED
    BY <1>1, <1>2, <2>1, <2>3, ReceiveStepsAre DEF ReceivePoints
<1>7. CASE RecvFails \/ WriteFails \/ LoopEnds \/ ClientKilled
  <2>1. cliPc' \notin Receiving
    BY <1>7 DEF RecvFails, WriteFails, LoopEnds, ClientKilled, EndOfImage, Receiving
  <2>2. cliPc = "recv" => cliJ < cliLen
    BY DEF IInv, ClientInv, ClientCounters
  <2>3. ReceiveSteps > 0
    BY <1>1, <1>2, <2>2, ReceiveStepsAre DEF ReceivePoints, Receiving
  <2>4. QED
    BY <2>1, <2>3, ReceiveStepsAre DEF ReceivePoints
<1>8. QED
  BY <1>3, <1>4, <1>5, <1>6, <1>7 DEF ClientStep, ClientCall

\* receive_image can go on for ever in two ways only: it polls an ended stream, or
\* counts down from a negative size.
THEOREM ReceptionShrinks == Spec => ReceiveShrinks
<1>1. Init => ChunkInv
  BY DEF Init, ClientInit, ChunkInv
<1>2. ASSUME IInv, IInv', ChunkInv, [Next]_vars
      PROVE  [(cliPc \in Receiving) /\ cliI >= 0 => ReceiveSteps' < ReceiveSteps]_receiveVars
  <2>1. CASE ClientTurn(ClientStep)
    BY <1>2, <2>1, ReceiveStep DEF ClientTurn
  <2>2. CASE ServerTurn(ServerStep) \/ NetTurn(NetStep) \/ UNCHANGED vars
    BY <2>2 DEF ServerTurn, NetTurn, vars, clientVars, receiveVars
  <2>3. QED
    BY <1>2, <2>1, <2>2 DEF Next
<1>3. QED
  BY Inductive, ChunkNext, <1>1, <1>2, PTL DEF Spec, ReceiveShrinks
==============================================================================
