---------------------------- MODULE MCFileTransfer ----------------------------
(* TLC instances of FileTransfer: the values a cfg cannot write. *)
EXTENDS FileTransferInv

\* The image keeps one length / may be removed before or while the server starts
\* / may be removed, truncated or extended at any time
Fixed5    == {5}
Removable == {Absent, 3}
Changing  == {Absent, 0, 3, 4}

\* Segments may end anywhere / only where the send() calls of a 5-byte image end
AnyCut   == 0..20
SendCuts == {HdrLen, HdrLen + Chunk, HdrLen + 2 * Chunk, HdrLen + 5}

\* An unset int64_t: nothing to receive, a negative count, too much
Stack == {-2, 0, 4}
==============================================================================
