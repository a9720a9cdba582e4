---------------------------- MODULE FileTransferInv ----------------------------
(***************************************************************************)
(* The inductive invariant of FileTransfer: what the two loops keep, at    *)
(* every control point, between their counters and the stream.             *)
(***************************************************************************)
EXTENDS FileTransfer

\* Before the header is sent
Fresh == Starting \union {"stat", "stream"}

(***************************************************************************)
(* The server's counters.  The last two conjuncts are the heart of it: i   *)
(* is never less than what is still to be read, because a chunk that took  *)
(* several sends makes i -= l subtract less than the chunk, never more.    *)
(***************************************************************************)
ServerCounters ==
    /\ srvPc \in Fresh \union {"header"}
         => srvPos = 0 /\ srvJ = 0 /\ srvHdr = 0
    /\ srvPc \in Fresh => srvTook = 0 /\ wire = << >>
    /\ srvPc \in Fresh \union {"header", "read", "send"} => ~srvErrored
    /\ srvPc = "read" => srvTook = 0 /\ srvJ = srvLen /\ srvI # 0
    /\ srvPc = "send" => srvJ < srvLen /\ srvLen <= srvI
    /\ srvHdr = HdrLen => srvJ + srvTook <= srvLen
    /\ srvPc \in {"ret", "done"} /\ ~srvErrored
         => srvTook = 0 /\ srvJ = srvLen /\ srvI = 0
    /\ srvPc \in {"stream", "header", "read"} \/ (srvPc \in {"ret", "done"} /\ ~srvErrored)
         => srvI >= fileSize - srvPos
    /\ srvPc = "send" => srvI >= fileSize - srvPos + srvLen

\* How far the image had been read bounds what the header announced, unless the
\* image grew.
ImageBound ==
    ~grew =>
      /\ srvPc \in {"stream", "header", "read", "send"} => disk <= fileSize
      /\ srvPos = 0 \/ srvPos <= fileSize

\* The bytes on the wire, in terms of the loop's counters.
InStep(n) == Len(wire) = n /\ \A x \in DOMAIN wire : wire[x] = x - 1 - HdrLen
WireContent ==
    /\ srvPc = "header" => InStep(srvTook)
    /\ srvHdr = HdrLen => InStep(HdrLen + srvPos - srvLen + srvJ + srvTook)

\* Whatever the header's send() returned, the stream is increasing and the next
\* byte of the loop is above all of it.
WireOrder ==
    /\ \A x, y \in DOMAIN wire : x < y => wire[x] < wire[y]
    /\ srvPc \in {"header", "send"} => \A x \in DOMAIN wire : wire[x] < NextByte
    /\ srvPc = "read" => \A x \in DOMAIN wire : wire[x] < srvPos

\* The client's counters: what is written and what is still counted make cliSize.
ClientCounters ==
    /\ cliPc \in {"connect", "create", "stream", "header"}
         => rcvd = 0 /\ out = << >> /\ cliHdr = 0
    /\ cliHdr <= rcvd
    /\ cliPc \in {"loop", "recv", "write"} => Len(out) + cliI = cliSize
    /\ cliPc = "done" /\ ~cliErrored => Len(out) = cliSize
    /\ Len(out) - saved <= StreamBuf
    /\ cliPc = "done" /\ ~DiskMayFail => saved = Len(out)
    /\ cliPc = "recv" => 0 <= cliJ /\ cliJ < cliLen /\ cliLen <= cliI
    /\ cliPc = "write" => 0 <= cliL /\ cliL <= cliJ

\* The HdrLen header bytes have come in with one recv().
HeaderGot ==
    /\ cliHdr = HdrLen
    /\ HdrLen <= rcvd
    /\ \A x \in 1..HdrLen : wire[x] = x - 1 - HdrLen

\* The bytes of the chunk in buffer that are not written yet
Pending == IF cliPc \in {"recv", "write"} THEN cliJ ELSE 0

(***************************************************************************)
(* The received bytes either are all in out and buffer, each at its place, *)
(* or some have been dropped, and then out is behind the stream for good.  *)
(***************************************************************************)
ReceivedContent ==
    HeaderGot /\ (cliPc \in {"loop", "recv", "write"} \/ (cliPc = "done" /\ ~cliErrored)) =>
      /\ cliSize = fileSize
      /\ HdrLen + Len(out) + Pending <= rcvd
      /\ HdrLen + Len(out) + Pending = rcvd =>
           /\ \A k \in DOMAIN out : out[k] = wire[HdrLen + k]
           /\ \A y \in 0 .. Pending - 1 : buf[y] = wire[HdrLen + Len(out) + 1 + y]

\* out, then buffer: increasing, and none of it above the last byte received.
OutputOrder ==
    /\ \A x, y \in DOMAIN out : x < y => out[x] < out[y]
    /\ \A x \in DOMAIN out, y \in 0 .. Pending - 1 : out[x] < buf[y]
    /\ \A x, y \in 0 .. Pending - 1 : x < y => buf[x] < buf[y]
    /\ \A x \in DOMAIN out : rcvd > 0 /\ out[x] <= wire[rcvd]
    /\ \A y \in 0 .. Pending - 1 : rcvd > 0 /\ buf[y] <= wire[rcvd]

ServerInv == ServerCountsOK /\ ServerCounters /\ ImageBound /\ WireContent /\ WireOrder
ClientInv == ClientCountsOK /\ ClientCounters /\ ReceivedContent /\ OutputOrder

FlagsOK == TcpFlagsOK /\ ServerFlagsOK /\ ClientFlagsOK
IInv    == TcpCountsOK /\ ServerInv /\ ClientInv
==============================================================================
