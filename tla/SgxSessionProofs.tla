--------------------------- MODULE SgxSessionProofs ---------------------------
(***************************************************************************)
(* Proofs about SgxSession: for any client, file, chunk size and heap.     *)
(***************************************************************************)
EXTENDS SgxSession, EdgeCallsProofs, SequenceTheorems

------------------------------------------------------------------------------
(* The session implements the ocall of EdgeCalls. *)

\* Every step of the session is a step of the edge calls or leaves them alone.
LEMMA SessionStep == [SessionNext]_allVars => [Next]_vars
<1> SUFFICES ASSUME [SessionNext]_allVars PROVE [Next]_vars
  OBVIOUS
<1>1. CASE SessionCall
  <2>1. CASE Start
    BY <2>1 DEF Start, Next, Ocall
  <2>2. CASE SetupFails \/ SigPipe
    BY <2>2 DEF SetupFails, SigPipe, Next
  <2>3. CASE CloseSession
    BY <2>3 DEF CloseSession, Next, Ocall
  <2>4. CASE Listen \/ Accept \/ RecvMessage \/ RecvNothing \/ HashRefused
    BY <2>4 DEF Go, Listen, Accept, RecvMessage, RecvNothing, HashRefused
  <2>5. CASE Reply \/ Farewell
    BY <2>5 DEF Go, Reply, Farewell, Broken, Text
  <2>6. CASE StatFile \/ OpenFile \/ SendHeader \/ ReadChunk \/ SendPiece \/ PieceFails
    BY <2>6 DEF Go, StatFile, OpenFile, SendHeader, ReadChunk, SendPiece, PieceFails
  <2>7. QED
    BY <1>1, <2>1, <2>2, <2>3, <2>4, <2>5, <2>6 DEF SessionCall
<1>2. CASE Operator
  BY <1>2 DEF Operator, Type
<1>3. CASE World
  BY <1>3 DEF World, ClientConnects, ClientSays, ClientLeaves, Reset, StdinEnds, FileChanges
<1>4. CASE EdgeStep
  BY <1>4, SessionAssumption DEF EdgeStep, Next
<1>5. CASE UNCHANGED allVars
  BY <1>5 DEF allVars
<1>6. QED
  BY <1>1, <1>2, <1>3, <1>4, <1>5 DEF SessionNext

\* Whatever happens in a session, the calls and the enclave behave as EdgeCalls
\* says: ocall_setup_connection gets no ecall in.
THEOREM SessionRefinesCalls == SessionSpec => CallsAreEdgeCalls
<1>1. SessionInit => Init
  BY DEF SessionInit
<1>2. QED
  BY <1>1, SessionStep, PTL DEF SessionSpec, CallsAreEdgeCalls, Spec

\* So what is proved of the edge calls holds while a session is served.
LEMMA SessionEdgeInv == SessionSpec => []EdgeInv
  BY SessionRefinesCalls, EdgeInductive, PTL DEF CallsAreEdgeCalls

------------------------------------------------------------------------------
(* The file: how much of it is read, sent and due. *)

\* The offsets of the two loops, at each call they make.
Offsets ==
    /\ at \notin {"read", "piece", "send"} => pos = 0
    /\ at \in {"open", "header"} => i = fileSize
    /\ at = "read" => i > 0 /\ due = fileSize - pos
    /\ at \in {"piece", "send"} => ssize <= i /\ PiecesInOrder

\* As long as the file has not shrunk and no send() has been cut, i says what
\* is due, and nothing is when the file's loop has ended.
InStep ==
    ~ghost.slipped =>
       /\ ~ghost.spoiled
       /\ at \notin Sending => due = 0
       /\ at \in Sending \union {"open"} => fileSize <= disk
       /\ at \in {"read", "piece", "send"} => i = due
       /\ at \in {"piece", "send"} => j = 0

\* What is proved of the session by induction, the client's messages apart.
SessionInv == SessionTypeOK /\ Offsets /\ InStep

\* The code's min(i, chunkSize).
LEMMA MinOfSizes ==
    ASSUME NEW a \in Nat, NEW b \in Nat
    PROVE  Min({a, b}) = IF a <= b THEN a ELSE b
<1> DEFINE m == IF a <= b THEN a ELSE b
<1>1. m \in {a, b} /\ \A y \in {a, b} : m <= y
  OBVIOUS
<1>2. \E x \in {a, b} : \A y \in {a, b} : x <= y
  BY <1>1, Zenon
<1>3. Min({a, b}) \in {a, b} /\ \A y \in {a, b} : Min({a, b}) <= y
  BY <1>2, Zenon DEF Min
<1>4. QED
  BY <1>3

\* What a client sends is a sequence of pieces, and ends with a last one.
LEMMA PiecesAre ==
    ASSUME NEW m \in Messages
    PROVE  /\ Pieces(m) \in Seq(Item) /\ Len(Pieces(m)) = Len(m)
           /\ \A x \in 1 .. Len(m) :
                 Pieces(m)[x].text = m[x] /\ (Pieces(m)[x].last <=> x = Len(m))
<1>1. m \in Seq({"hi", "ex", "it"}) /\ Len(m) \in Nat /\ DOMAIN m = 1 .. Len(m)
  BY SessionAssumption
<1>2. Pieces(m) \in [1 .. Len(m) -> Item]
  BY <1>1 DEF Pieces, Item
<1>3. Pieces(m) \in Seq(Item) /\ Len(Pieces(m)) = Len(m)
  BY <1>1, <1>2
<1>4. QED
  BY <1>1, <1>3 DEF Pieces

\* The constants that are numbers.
LEMMA Sizes == Chunk \in Nat \ {0} /\ MaxInbox \in Nat /\ DiskSizes \subseteq Int
  BY SessionAssumption DEF Absent

\* The session starts with no connection.
LEMMA SessionInvInit == SessionInit => SessionInv
<1> SUFFICES ASSUME SessionInit PROVE SessionInv
  OBVIOUS
<1>1. inbox \in Seq(Item) /\ Len(inbox) = 0
  <2>1. inbox = << >>
    BY DEF SessionInit
  <2>2. inbox \in Seq(Item)
    BY <2>1
  <2>3. Len(inbox) = 0
    BY <2>1
  <2>4. QED
    BY <2>2, <2>3
<1>2. ghost \in Ghosts /\ ~ghost.spoiled
  BY DEF SessionInit, NoGhost, Ghosts
<1>3. SessionTypeOK
  <2>1. at \in Ats /\ cliEnd \in {"none", "open", "closed", "reset"} /\ eof \in BOOLEAN
    BY DEF SessionInit, Ats
  <2>2. data \in Lines /\ disk \in DiskSizes
    BY DEF SessionInit, Lines
  <2>3. fileSize = 0 /\ i = 0 /\ ssize = 0 /\ j = 0 /\ pos = 0 /\ due = 0
    BY DEF SessionInit
  <2>4. /\ fileSize \in Nat /\ i \in Nat /\ ssize \in 0..Chunk /\ j \in 0..Chunk
        /\ pos \in Nat /\ due \in Int
    BY <2>3, Sizes
  <2>5. Len(inbox) <= MaxInbox
    BY <1>1, Sizes
  <2>6. at = "out"
    BY DEF SessionInit
  <2>7. QED
    BY <1>1, <1>2, <2>1, <2>2, <2>4, <2>5, <2>6 DEF SessionTypeOK
<1>4. Offsets /\ InStep
  BY <1>2 DEF SessionInit, Offsets, InStep, Sending
<1>5. QED
  BY <1>3, <1>4 DEF SessionInv

\* A session that has been left is as at the beginning.
LEMMA LeaveInv == SessionInv /\ Leave => SessionInv'
<1> SUFFICES ASSUME SessionInv, Leave PROVE SessionInv'
  OBVIOUS
<1>1. inbox' = << >> /\ at' = "out" /\ ghost' = NoGhost /\ cliEnd' = "none" /\ data' = ""
  BY DEF Leave
<1>2. ghost' \in Ghosts /\ ~ghost'.spoiled
  BY <1>1 DEF NoGhost, Ghosts
<1>3. /\ fileSize' = 0 /\ i' = 0 /\ ssize' = 0 /\ j' = 0 /\ pos' = 0 /\ due' = 0
      /\ eof' = eof /\ disk' = disk
  BY DEF Leave
<1>4. /\ fileSize' \in Nat /\ i' \in Nat /\ ssize' \in 0..Chunk /\ j' \in 0..Chunk
      /\ pos' \in Nat /\ due' \in Int
  BY <1>3, Sizes
<1>5. inbox' \in Seq(Item) /\ Len(inbox') <= MaxInbox
  <2>1. inbox' = << >>
    BY <1>1
  <2>2. inbox' \in Seq(Item)
    BY <2>1
  <2>3. Len(inbox') = 0
    BY <2>1
  <2>4. QED
    BY <2>2, <2>3, Sizes
<1>6. SessionTypeOK'
  BY <1>1, <1>2, <1>3, <1>4, <1>5 DEF SessionInv, SessionTypeOK, Ats, Lines
<1>7. Offsets' /\ InStep'
  BY <1>1, <1>2, <1>3 DEF Offsets, InStep, Sending
<1>8. QED
  BY <1>6, <1>7 DEF SessionInv

\* A step that touches neither the file nor what is due, in or out of its loop.
LEMMA QuietInv ==
    ASSUME SessionInv, locals' = locals, due' = due, disk' = disk,
           at' \in Ats, at' = at \/ {at, at'} \cap (Sending \union {"open"}) = {},
           at' # "out" => outside' /\ pc' = "connect",
           cliEnd' \in {"none", "open", "closed", "reset"},
           inbox' \in Seq(Item), Len(inbox') <= MaxInbox,
           eof' \in BOOLEAN, data' \in Lines, ghost' \in Ghosts,
           ghost'.slipped = ghost.slipped, ~ghost.slipped => ~ghost'.spoiled
    PROVE  SessionInv'
<1>1. SessionTypeOK'
  BY DEF SessionInv, SessionTypeOK, locals
<1>2. /\ fileSize' = fileSize /\ i' = i /\ ssize' = ssize /\ j' = j /\ pos' = pos
      /\ due' = due /\ disk' = disk
  BY DEF locals
<1>3. Offsets'
  BY <1>2 DEF SessionInv, Offsets, PiecesInOrder, Sending
<1>4. InStep'
  BY <1>2 DEF SessionInv, InStep, Sending
<1>5. QED
  BY <1>1, <1>3, <1>4 DEF SessionInv

\* A call after which the session only goes on elsewhere.
LEMMA MoveInv ==
    ASSUME SessionInv, at # "out", at' \in Ats, {at, at'} \cap (Sending \union {"open"}) = {},
           UNCHANGED <<vars, clientVars, eof, disk, locals, due, ghost>>, data' \in Lines
    PROVE  SessionInv'
<1>1. /\ pc' = pc /\ outside' = outside /\ cliEnd' = cliEnd /\ inbox' = inbox /\ eof' = eof
      /\ locals' = locals /\ due' = due /\ disk' = disk /\ ghost' = ghost
  BY DEF vars, clientVars
<1>2. ~ghost.slipped => ~ghost'.spoiled
  BY <1>1 DEF SessionInv, InStep
<1>3. SessionTypeOK
  BY DEF SessionInv
<1>4. QED
  BY <1>1, <1>2, <1>3, QuietInv DEF SessionTypeOK

\* The calls that set the connection up, and the ones that receive, ask and hash.
LEMMA ChatInv ==
    ASSUME SessionInv,
           \/ Start \/ Listen \/ Accept \/ RecvMessage \/ RecvNothing \/ Operator
           \/ at = "hash" /\ HashRefused
    PROVE  SessionInv'
<1>1. CASE Start
  <2>1. outside' /\ pc' = "connect"
    BY <1>1 DEF Start, OcallStarts
  <2>2. /\ at' = "socket" /\ at = "out" /\ cliEnd' = cliEnd /\ inbox' = inbox /\ eof' = eof
        /\ data' = data /\ locals' = locals /\ due' = due /\ disk' = disk /\ ghost' = ghost
    BY <1>1 DEF Start, clientVars
  <2>3. SessionTypeOK /\ InStep
    BY DEF SessionInv
  <2>4. ~ghost.slipped => ~ghost'.spoiled
    BY <2>2, <2>3 DEF InStep
  <2>5. at' \in Ats /\ {at, at'} \cap (Sending \union {"open"}) = {}
    BY <2>2 DEF Ats, Sending
  <2>6. QED
    BY <2>1, <2>2, <2>3, <2>4, <2>5, QuietInv DEF SessionTypeOK
<1>2. CASE Listen \/ Accept \/ RecvNothing
  <2>1. /\ at # "out" /\ at' \in Ats /\ {at, at'} \cap (Sending \union {"open"}) = {}
        /\ UNCHANGED <<vars, clientVars, eof, data, disk, locals, due, ghost>>
    BY <1>2 DEF Go, Listen, Accept, RecvNothing, Ats, Sending
  <2>2. data' \in Lines
    BY <2>1 DEF SessionInv, SessionTypeOK
  <2>3. QED
    BY <2>1, <2>2, MoveInv
<1>3. CASE Operator
  <2>1. /\ at # "out" /\ at' \in Ats /\ {at, at'} \cap (Sending \union {"open"}) = {}
        /\ UNCHANGED <<vars, clientVars, eof, disk, locals, due, ghost>> /\ data' \in Lines
    BY <1>3 DEF Operator, Type, Ats, Sending
  <2>2. QED
    BY <2>1, MoveInv
<1>4. CASE at = "hash" /\ HashRefused
  <2>1. data \in Lines
    BY DEF SessionInv, SessionTypeOK
  <2>2. AfterHash \in {"farewell", "stat", "reply"}
    BY <1>4, <2>1 DEF AfterHash, Lines
  <2>3. /\ at # "out" /\ at' \in Ats /\ {at, at'} \cap (Sending \union {"open"}) = {}
        /\ UNCHANGED <<vars, clientVars, eof, data, disk, locals, due, ghost>>
    BY <1>4, <2>2 DEF Go, HashRefused, Ats, Sending
  <2>4. QED
    BY <2>1, <2>3, MoveInv
<1>5. CASE RecvMessage
  <2>1. PICK k \in 1 .. Len(inbox) :
          /\ inbox' = SubSeq(inbox, k + 1, Len(inbox))
          /\ at' \in {"close", "prompt"}
          /\ \E g, e : /\ g \in BOOLEAN /\ e \in {"client", ghost.ended}
                       /\ ghost' = [ghost EXCEPT !.glued = g, !.ended = e]
    BY <1>5 DEF RecvMessage
  <2>2. inbox \in Seq(Item) /\ Len(inbox) <= MaxInbox /\ ghost \in Ghosts
    BY DEF SessionInv, SessionTypeOK
  <2>3. inbox' \in Seq(Item) /\ Len(inbox') <= MaxInbox
    <3>1. k + 1 \in 1 .. Len(inbox) + 1 /\ Len(inbox) \in k .. Len(inbox)
      BY <2>2
    <3>2. inbox' \in Seq(Item) /\ Len(inbox') = Len(inbox) - k
      BY <2>1, <2>2, <3>1, SubSeqProperties
    <3>3. QED
      BY <2>2, <3>2, Sizes
  <2>4. /\ ghost' \in Ghosts /\ ghost'.slipped = ghost.slipped
        /\ ghost'.spoiled = ghost.spoiled
    BY <2>1, <2>2 DEF Ghosts
  <2>5. /\ pc' = pc /\ outside' = outside /\ cliEnd' = cliEnd /\ eof' = eof /\ data' = data
        /\ locals' = locals /\ due' = due /\ disk' = disk /\ at = "recv"
    BY <1>5 DEF RecvMessage, vars
  <2>6. at' \in Ats /\ {at, at'} \cap (Sending \union {"open"}) = {}
    BY <2>1, <2>5 DEF Ats, Sending
  <2>7. ~ghost.slipped => ~ghost'.spoiled
    BY <2>4 DEF SessionInv, InStep
  <2>8. SessionTypeOK
    BY DEF SessionInv
  <2>9. QED
    BY <2>3, <2>4, <2>5, <2>6, <2>7, <2>8, QuietInv DEF SessionTypeOK
<1>6. QED
  BY <1>1, <1>2, <1>3, <1>4, <1>5

\* The line goes out, or does not.
LEMMA TextInv == ASSUME SessionInv, Reply \/ Farewell PROVE SessionInv'
<1>1. PICK done \in {"recv", "close"} : Broken(done) \/ Text(done)
  BY DEF Reply, Farewell
<1>2. at \in {"reply", "farewell"} /\ data \in Lines
  BY DEF Reply, Farewell, SessionInv, SessionTypeOK
<1>3. CASE Broken(done)
  <2>1. /\ at # "out" /\ at' \in Ats /\ {at, at'} \cap (Sending \union {"open"}) = {}
        /\ UNCHANGED <<vars, clientVars, eof, data, disk, locals, due, ghost>>
    BY <1>1, <1>2, <1>3 DEF Go, Broken, Ats, Sending
  <2>2. QED
    BY <1>2, <2>1, MoveInv
<1>4. CASE Text(done)
  <2>1. /\ pc' = pc /\ outside' = outside /\ cliEnd' = cliEnd /\ inbox' = inbox /\ eof' = eof
        /\ data' = data /\ locals' = locals /\ due' = due /\ disk' = disk /\ at' = done
    BY <1>4 DEF Text, vars, clientVars
  <2>2. SessionTypeOK /\ ghost \in Ghosts
    BY DEF SessionInv, SessionTypeOK
  <2>3. at \notin Sending /\ at' \in Ats /\ {at, at'} \cap (Sending \union {"open"}) = {}
    BY <1>1, <1>2, <2>1 DEF Ats, Sending
  <2>4. /\ ghost' = [ghost EXCEPT !.spoiled = @ \/ (data # "" /\ due # 0)]
        /\ (data # "" /\ due # 0) \in BOOLEAN
    BY <1>4 DEF Text
  <2>5. ghost' \in Ghosts /\ ghost'.slipped = ghost.slipped
    BY <2>2, <2>4 DEF Ghosts
  <2>6. ASSUME ~ghost.slipped PROVE ~ghost'.spoiled
    <3>1. due = 0 /\ ~ghost.spoiled
      BY <2>3, <2>6 DEF SessionInv, InStep
    <3>2. QED
      BY <2>2, <2>4, <3>1 DEF Ghosts
  <2>7. QED
    BY <1>2, <2>1, <2>2, <2>3, <2>5, <2>6, QuietInv DEF SessionTypeOK
<1>5. QED
  BY <1>1, <1>3, <1>4

\* What the client and the operator's terminal do.
LEMMA ClientInv ==
    ASSUME SessionInv, ClientConnects \/ ClientSays \/ ClientLeaves \/ Reset \/ StdinEnds
    PROVE  SessionInv'
<1>1. /\ pc' = pc /\ outside' = outside /\ at' = at /\ data' = data /\ locals' = locals
      /\ due' = due /\ disk' = disk
  BY DEF ClientConnects, ClientSays, ClientLeaves, Reset, StdinEnds, vars
<1>2. SessionTypeOK /\ InStep
  BY DEF SessionInv
<1>3. cliEnd' \in {"none", "open", "closed", "reset"} /\ eof' \in BOOLEAN
  BY <1>2 DEF ClientConnects, ClientSays, ClientLeaves, Reset, StdinEnds, SessionTypeOK,
              clientVars
<1>4. inbox' \in Seq(Item) /\ Len(inbox') <= MaxInbox
  <2>1. inbox \in Seq(Item) /\ Len(inbox) <= MaxInbox
    BY <1>2 DEF SessionTypeOK
  <2>2. CASE ClientSays
    <3>1. PICK m \in Messages : /\ Len(inbox) + Len(m) <= MaxInbox
                               /\ inbox' = inbox \o Pieces(m)
      BY <2>2 DEF ClientSays
    <3>2. Pieces(m) \in Seq(Item) /\ Len(Pieces(m)) = Len(m)
      BY PiecesAre
    <3>3. \A s, t \in Seq(Item) : s \o t \in Seq(Item) /\ Len(s \o t) = Len(s) + Len(t)
      BY ConcatProperties
    <3>4. inbox' \in Seq(Item) /\ Len(inbox') = Len(inbox) + Len(m)
      BY <2>1, <3>1, <3>2, <3>3, Zenon
    <3>5. QED
      BY <3>1, <3>4
  <2>3. CASE Reset
    <3>1. PICK k \in 0 .. Len(inbox) : inbox' = SubSeq(inbox, 1, k)
      BY <2>3 DEF Reset
    <3>2. inbox' \in Seq(Item) /\ Len(inbox') = k
      BY <2>1, <3>1, SubSeqProperties
    <3>3. QED
      BY <2>1, <3>1, <3>2, Sizes
  <2>4. CASE ClientConnects \/ ClientLeaves \/ StdinEnds
    <3>1. inbox' = inbox
      BY <2>4 DEF ClientConnects, ClientLeaves, StdinEnds, clientVars
    <3>2. QED
      BY <2>1, <3>1
  <2>5. QED
    BY <2>2, <2>3, <2>4
<1>5. ghost' \in Ghosts /\ ghost'.slipped = ghost.slipped /\ ghost'.spoiled = ghost.spoiled
  <2>1. ghost \in Ghosts
    BY <1>2 DEF SessionTypeOK
  <2>2. ghost' = ghost \/ \E b \in BOOLEAN : ghost' = [ghost EXCEPT !.said = b]
    BY DEF ClientConnects, ClientSays, ClientLeaves, Reset, StdinEnds
  <2>3. QED
    BY <2>1, <2>2 DEF Ghosts
<1>6. ~ghost.slipped => ~ghost'.spoiled
  BY <1>2, <1>5 DEF InStep
<1>7. QED
  BY <1>1, <1>2, <1>3, <1>4, <1>5, <1>6, QuietInv DEF SessionTypeOK

\* While a session is served, the enclave may die and does nothing else.
LEMMA EdgeStepInv == ASSUME SessionInv, EdgeStep PROVE SessionInv'
<1>1. /\ at' = at /\ cliEnd' = cliEnd /\ inbox' = inbox /\ eof' = eof /\ data' = data
      /\ disk' = disk /\ locals' = locals /\ due' = due /\ ghost' = ghost
  BY DEF EdgeStep, sessionVars, clientVars
<1>2. SessionTypeOK /\ InStep
  BY DEF SessionInv
<1>3. ASSUME at # "out" PROVE outside' /\ pc' = "connect"
  <2>1. outside /\ pc = "connect"
    BY <1>2, <1>3 DEF SessionTypeOK
  <2>2. PowerLost \/ AbortOnCorruptHeap
    BY <1>3, <2>1
    DEF EdgeStep, Ecall, EcallOnDead, Marshal, Function, DestroyEnclave, NothingToCopy,
        RaggedLength, NoMemory, CopyIn, CopyBack, FreeCopies, Return, Multiply,
        LastProduct, Compute, Store, Fault, SetupSha256, UpdateHash, NewDigest, Params
  <2>3. outside' = outside /\ pc' = pc
    BY <2>2 DEF PowerLost, AbortOnCorruptHeap
  <2>4. QED
    BY <2>1, <2>3
<1>4. ~ghost.slipped => ~ghost'.spoiled
  BY <1>1, <1>2 DEF InStep
<1>5. QED
  BY <1>1, <1>2, <1>3, <1>4, QuietInv DEF SessionTypeOK

\* The numbers of the file's loops.
Numbers ==
    /\ fileSize \in Nat /\ i \in Nat /\ ssize \in 0..Chunk /\ j \in 0..Chunk
    /\ pos \in Nat /\ due \in Int /\ disk \in Int /\ Chunk \in Nat \ {0}

LEMMA NumbersOK == SessionInv => Numbers
  BY Sizes DEF SessionInv, SessionTypeOK, Numbers

\* A call of the file's block keeps the types if its numbers do.
LEMMA FileTypes ==
    ASSUME SessionInv, at # "out", UNCHANGED <<vars, clientVars, eof, data, disk>>,
           at' \in Ats, Numbers', ghost' \in Ghosts
    PROVE  SessionTypeOK'
<1>1. /\ pc' = pc /\ outside' = outside /\ cliEnd' = cliEnd /\ inbox' = inbox /\ eof' = eof
      /\ data' = data /\ disk' = disk
  BY DEF vars, clientVars
<1>2. QED
  BY <1>1 DEF SessionInv, SessionTypeOK, Numbers

\* The size is taken and the file opened; it may change at any time.
LEMMA OpenInv == ASSUME SessionInv, StatFile \/ OpenFile PROVE SessionInv'
<1>1. Numbers /\ ghost \in Ghosts
  BY NumbersOK DEF SessionInv, SessionTypeOK
<1>2. CASE StatFile
  <2>1. /\ at = "stat" /\ UNCHANGED <<vars, clientVars, eof, data, disk>>
        /\ ghost' = ghost /\ ssize' = ssize /\ j' = j /\ pos' = pos /\ due' = due /\ disk' = disk
    BY <1>2 DEF StatFile
  <2>2. \/ disk = Absent /\ at' = "close" /\ fileSize' = fileSize /\ i' = i
        \/ disk # Absent /\ at' = "open" /\ fileSize' = disk /\ i' = disk
    BY <1>2 DEF StatFile
  <2>3. disk \in Nat \union {Absent}
    BY SessionAssumption DEF SessionInv, SessionTypeOK
  <2>4. Numbers' /\ at' \in Ats /\ ghost' \in Ghosts /\ at # "out"
    BY <1>1, <2>1, <2>2, <2>3 DEF Numbers, Ats
  <2>5. SessionTypeOK'
    BY <2>1, <2>4, FileTypes
  <2>6. Offsets'
    BY <2>1, <2>2 DEF SessionInv, Offsets
  <2>7. InStep'
    BY <1>1, <2>1, <2>2, <2>3 DEF SessionInv, InStep, Sending, Numbers
  <2>8. QED
    BY <2>5, <2>6, <2>7 DEF SessionInv
<1>3. CASE OpenFile
  <2>1. /\ at = "open" /\ UNCHANGED <<vars, clientVars, eof, data, disk>> /\ disk' = disk
        /\ ghost' = ghost /\ ssize' = ssize /\ j' = j /\ pos' = pos /\ due' = due
        /\ fileSize' = fileSize /\ i' = i /\ at' \in {"close", "header"}
    BY <1>3 DEF Go, OpenFile, locals
  <2>2. Numbers' /\ at' \in Ats /\ ghost' \in Ghosts /\ at # "out"
    BY <1>1, <2>1 DEF Numbers, Ats, Sending
  <2>3. SessionTypeOK'
    BY <2>1, <2>2, FileTypes
  <2>4. Offsets' /\ InStep'
    BY <2>1 DEF SessionInv, Offsets, InStep, Sending
  <2>5. QED
    BY <2>3, <2>4 DEF SessionInv
<1>4. QED
  BY <1>2, <1>3

LEMMA FileChangesInv == ASSUME SessionInv, FileChanges PROVE SessionInv'
<1>1. /\ pc' = pc /\ outside' = outside /\ cliEnd' = cliEnd /\ inbox' = inbox /\ eof' = eof
      /\ data' = data /\ at' = at /\ due' = due /\ fileSize' = fileSize /\ i' = i
      /\ ssize' = ssize /\ j' = j /\ pos' = pos /\ disk' \in DiskSizes
  BY DEF FileChanges, vars, clientVars, locals
<1>2. Numbers /\ ghost \in Ghosts /\ SessionTypeOK
  BY NumbersOK DEF SessionInv, SessionTypeOK
<1>3. PICK b \in BOOLEAN :
        /\ b = (at \in Sending \union {"open"} /\ disk' < fileSize)
        /\ ghost' = [ghost EXCEPT !.slipped = @ \/ b]
  BY DEF FileChanges
<1>4. /\ ghost' \in Ghosts /\ ghost'.slipped = (ghost.slipped \/ b)
      /\ ghost'.spoiled = ghost.spoiled
  BY <1>2, <1>3 DEF Ghosts
<1>5. SessionTypeOK'
  BY <1>1, <1>2, <1>4 DEF SessionTypeOK
<1>6. Offsets'
  BY <1>1 DEF SessionInv, Offsets, PiecesInOrder
<1>7. disk' \in Int
  BY <1>1, Sizes
<1>8. InStep'
  <2>1. ASSUME ~ghost'.slipped PROVE ~ghost.slipped /\ ~b
    BY <1>4, <2>1
  <2>2. ~(disk' < fileSize) => fileSize <= disk'
    BY <1>2, <1>7 DEF Numbers
  <2>3. ~b /\ at \in Sending \union {"open"} => fileSize <= disk'
    BY <1>3, <2>2, Zenon
  <2>4. QED
    BY <1>1, <1>4, <2>1, <2>3 DEF SessionInv, InStep
<1>9. QED
  BY <1>5, <1>6, <1>8 DEF SessionInv

\* The session ends, or the App does.
LEMMA LastInv ==
    ASSUME SessionInv, SetupFails \/ SigPipe \/ CloseSession PROVE SessionInv'
  BY LeaveInv DEF SetupFails, SigPipe, CloseSession

\* The size goes out, or not, and the loop starts.
LEMMA SendHeaderInv == ASSUME SessionInv, SendHeader PROVE SessionInv'
<1>1. Numbers /\ ghost \in Ghosts
  BY NumbersOK DEF SessionInv, SessionTypeOK
<1>2. /\ at = "header" /\ UNCHANGED <<vars, clientVars, eof, data, disk>> /\ disk' = disk
      /\ due' = fileSize /\ LoopTop(i) /\ (ghost' = ghost \/ ghost' = [ghost EXCEPT !.slipped = TRUE])
  BY DEF SendHeader
<1>3. pos = 0 /\ i = fileSize
  BY <1>2 DEF SessionInv, Offsets
<1>4. \/ /\ i = 0 /\ at' = "reply"
         /\ fileSize' = 0 /\ i' = 0 /\ ssize' = 0 /\ j' = 0 /\ pos' = 0
      \/ /\ i # 0 /\ at' = "read" /\ i' = i
         /\ fileSize' = fileSize /\ ssize' = ssize /\ j' = j /\ pos' = pos
  BY <1>2 DEF LoopTop, EndOfFile
<1>5. ghost' \in Ghosts /\ (ghost'.slipped \/ ghost' = ghost)
  BY <1>1, <1>2 DEF Ghosts
<1>6. Numbers' /\ at' \in Ats /\ at # "out"
  BY <1>1, <1>2, <1>4 DEF Numbers, Ats, Sending
<1>7. SessionTypeOK'
  BY <1>2, <1>5, <1>6, FileTypes
<1>8. Offsets'
  BY <1>1, <1>2, <1>3, <1>4 DEF Offsets, Numbers
<1>9. InStep'
  BY <1>1, <1>2, <1>3, <1>4, <1>5 DEF SessionInv, InStep, Sending, Numbers
<1>10. QED
  BY <1>7, <1>8, <1>9 DEF SessionInv

\* The next bytes of the file, or out of the loop.
LEMMA ReadChunkInv == ASSUME SessionInv, ReadChunk PROVE SessionInv'
<1>1. Numbers /\ ghost \in Ghosts
  BY NumbersOK DEF SessionInv, SessionTypeOK
<1>2. PICK n \in Nat : n = Min({i, Chunk}) /\ n = IF i <= Chunk THEN i ELSE Chunk
  BY <1>1, MinOfSizes DEF Numbers
<1>3. /\ at = "read" /\ UNCHANGED <<vars, clientVars, eof, data, disk>> /\ disk' = disk
      /\ due' = due /\ ghost' = ghost
  BY DEF ReadChunk
<1>4. \/ /\ pos + n <= disk /\ at' = "piece" /\ ssize' = n /\ j' = 0 /\ pos' = pos + n
         /\ fileSize' = fileSize /\ i' = i
      \/ /\ ~(pos + n <= disk) /\ at' = "reply"
         /\ fileSize' = 0 /\ i' = 0 /\ ssize' = 0 /\ j' = 0 /\ pos' = 0
  BY <1>2 DEF ReadChunk, EndOfFile
<1>5. i > 0 /\ due = fileSize - pos
  BY <1>3 DEF SessionInv, Offsets
<1>6. Numbers' /\ at' \in Ats /\ at # "out"
  BY <1>1, <1>2, <1>3, <1>4 DEF Numbers, Ats, Sending
<1>7. SessionTypeOK'
  BY <1>1, <1>3, <1>6, FileTypes
<1>8. Offsets'
  BY <1>1, <1>2, <1>3, <1>4, <1>5 DEF Offsets, PiecesInOrder, Numbers
<1>9. ASSUME ~ghost.slipped
      PROVE  i = due /\ fileSize <= disk /\ ~ghost.spoiled
  BY <1>3, <1>9 DEF SessionInv, InStep, Sending
<1>10. InStep'
  BY <1>1, <1>2, <1>3, <1>4, <1>5, <1>9 DEF InStep, Sending, Numbers
<1>11. QED
  BY <1>7, <1>8, <1>10 DEF SessionInv

\* The ecall is refused and the next send() follows.
LEMMA PieceRefusedInv == ASSUME SessionInv, at = "piece", HashRefused PROVE SessionInv'
<1>1. Numbers /\ ghost \in Ghosts
  BY NumbersOK DEF SessionInv, SessionTypeOK
<1>2. /\ at' = "send" /\ UNCHANGED <<vars, clientVars, eof, data, disk>> /\ disk' = disk
      /\ due' = due /\ ghost' = ghost
      /\ fileSize' = fileSize /\ i' = i /\ ssize' = ssize /\ j' = j /\ pos' = pos
  BY DEF Go, HashRefused, AfterHash, locals
<1>3. Numbers' /\ at' \in Ats /\ at # "out"
  BY <1>1, <1>2 DEF Numbers, Ats, Sending
<1>4. SessionTypeOK'
  BY <1>1, <1>2, <1>3, FileTypes
<1>5. Offsets' /\ InStep'
  BY <1>2 DEF SessionInv, Offsets, PiecesInOrder, InStep, Sending
<1>6. QED
  BY <1>4, <1>5 DEF SessionInv

\* A piece goes out, cut or whole.
LEMMA SendPieceInv == ASSUME SessionInv, SendPiece PROVE SessionInv'
<1>1. Numbers /\ ghost \in Ghosts
  BY NumbersOK DEF SessionInv, SessionTypeOK
<1>2. PICK l \in 1 .. ssize - j :
        /\ due' = due - l
        /\ ghost' = [ghost EXCEPT !.slipped = @ \/ l < ssize - j]
        /\ IF j + l < ssize
           THEN at' = "piece" /\ j' = j + l /\ UNCHANGED <<fileSize, i, ssize, pos>>
           ELSE LoopTop(i - l)
  BY DEF SendPiece
<1>3. /\ at = "send" /\ UNCHANGED <<vars, clientVars, eof, data, disk>> /\ disk' = disk
  BY DEF SendPiece
<1>4. ssize <= i /\ j < ssize /\ due = fileSize - (pos - ssize + j)
  BY <1>3 DEF SessionInv, Offsets, PiecesInOrder
<1>5. l \in Nat /\ l > 0 /\ l <= ssize - j
  BY <1>1, <1>2 DEF Numbers
<1>6. \/ /\ j + l < ssize /\ at' = "piece" /\ j' = j + l
         /\ fileSize' = fileSize /\ i' = i /\ ssize' = ssize /\ pos' = pos
      \/ /\ ~(j + l < ssize) /\ i - l = 0 /\ at' = "reply"
         /\ fileSize' = 0 /\ i' = 0 /\ ssize' = 0 /\ j' = 0 /\ pos' = 0
      \/ /\ ~(j + l < ssize) /\ i - l # 0 /\ at' = "read" /\ i' = i - l
         /\ fileSize' = fileSize /\ ssize' = ssize /\ j' = j /\ pos' = pos
  BY <1>2 DEF LoopTop, EndOfFile
<1>7. ghost' \in Ghosts /\ ghost'.spoiled = ghost.spoiled
  <2>1. (ghost.slipped \/ l < ssize - j) \in BOOLEAN
    OBVIOUS
  <2>2. QED
    BY <1>1, <1>2, <2>1 DEF Ghosts
<1>8. ASSUME ~ghost'.slipped
      PROVE  /\ j = 0 /\ l = ssize /\ i = due /\ fileSize <= disk /\ ~ghost.spoiled
  <2>1. ~ghost.slipped /\ ~(l < ssize - j)
    BY <1>1, <1>2, <1>8, Zenon DEF Ghosts
  <2>2. j = 0 /\ i = due /\ fileSize <= disk /\ ~ghost.spoiled
    BY <1>3, <2>1 DEF SessionInv, InStep, Sending
  <2>3. QED
    BY <1>1, <1>5, <2>1, <2>2 DEF Numbers
<1>9. Numbers' /\ at' \in Ats /\ at # "out"
  BY <1>1, <1>2, <1>3, <1>4, <1>5, <1>6 DEF Numbers, Ats, Sending
<1>10. SessionTypeOK'
  BY <1>3, <1>7, <1>9, FileTypes
<1>11. Offsets'
  BY <1>1, <1>2, <1>4, <1>5, <1>6 DEF Offsets, PiecesInOrder, Numbers
<1>12. InStep'
  BY <1>1, <1>2, <1>3, <1>4, <1>5, <1>6, <1>7, <1>8 DEF InStep, Sending, Numbers
<1>13. QED
  BY <1>10, <1>11, <1>12 DEF SessionInv

\* An error ends both loops.
LEMMA PieceFailsInv == ASSUME SessionInv, PieceFails PROVE SessionInv'
<1>1. Numbers /\ ghost \in Ghosts
  BY NumbersOK DEF SessionInv, SessionTypeOK
<1>2. /\ at = "send" /\ at' = "reply" /\ UNCHANGED <<vars, clientVars, eof, data, disk>>
      /\ fileSize' = 0 /\ i' = 0 /\ ssize' = 0 /\ j' = 0 /\ pos' = 0 /\ due' = due /\ disk' = disk
      /\ ghost' = [ghost EXCEPT !.slipped = TRUE]
  BY DEF PieceFails, EndOfFile
<1>3. ghost' \in Ghosts /\ ghost'.slipped
  BY <1>1, <1>2 DEF Ghosts
<1>4. Numbers' /\ at' \in Ats /\ at # "out"
  BY <1>1, <1>2 DEF Numbers, Ats
<1>5. SessionTypeOK'
  BY <1>2, <1>3, <1>4, FileTypes
<1>6. Offsets' /\ InStep'
  BY <1>2, <1>3 DEF Offsets, InStep
<1>7. QED
  BY <1>5, <1>6 DEF SessionInv

\* Every step keeps the invariant.
LEMMA SessionInvNext == SessionInv /\ [SessionNext]_allVars => SessionInv'
<1> SUFFICES ASSUME SessionInv, [SessionNext]_allVars PROVE SessionInv'
  OBVIOUS
<1>1. CASE SessionCall
  <2>1. CASE HashRefused
    <3>1. at \in {"hash", "piece"}
      BY <2>1 DEF HashRefused
    <3>2. QED
      BY <2>1, <3>1, ChatInv, PieceRefusedInv
  <2>2. CASE Start \/ Listen \/ Accept \/ RecvMessage \/ RecvNothing
    BY <2>2, ChatInv
  <2>3. CASE Reply \/ Farewell
    BY <2>3, TextInv
  <2>4. CASE StatFile \/ OpenFile
    BY <2>4, OpenInv
  <2>5. CASE SendHeader \/ ReadChunk \/ SendPiece \/ PieceFails
    BY <2>5, SendHeaderInv, ReadChunkInv, SendPieceInv, PieceFailsInv
  <2>6. CASE SetupFails \/ SigPipe \/ CloseSession
    BY <2>6, LastInv
  <2>7. QED
    BY <1>1, <2>1, <2>2, <2>3, <2>4, <2>5, <2>6 DEF SessionCall
<1>2. CASE Operator
  BY <1>2, ChatInv
<1>3. CASE World
  BY <1>3, ClientInv, FileChangesInv DEF World
<1>4. CASE EdgeStep
  BY <1>4, EdgeStepInv
<1>5. CASE UNCHANGED allVars
  <2>1. /\ pc' = pc /\ outside' = outside /\ at' = at /\ cliEnd' = cliEnd /\ inbox' = inbox
        /\ eof' = eof /\ data' = data /\ disk' = disk /\ fileSize' = fileSize /\ i' = i
        /\ ssize' = ssize /\ j' = j /\ pos' = pos /\ due' = due /\ ghost' = ghost
    BY <1>5 DEF allVars, sessionVars, vars, clientVars, locals
  <2>2. QED
    BY <2>1 DEF SessionInv, SessionTypeOK, Offsets, PiecesInOrder, InStep
<1>6. QED
  BY <1>1, <1>2, <1>3, <1>4, <1>5 DEF SessionNext

LEMMA SessionInductive == SessionSpec => []SessionInv
  BY SessionInvInit, SessionInvNext, PTL DEF SessionSpec

\* The types of a session, and that it only runs for the ecall that is in its ocall.
THEOREM SessionTypes == SessionSpec => []SessionTypeOK
  BY SessionInductive, PTL DEF SessionInv

\* The pieces of a file are sent in order and none twice, for any chunk size and any cuts.
THEOREM PiecesStayInOrder == SessionSpec => []PiecesInOrder
<1>1. SessionInv => PiecesInOrder
  BY DEF SessionInv, Offsets, PiecesInOrder
<1>2. QED
  BY <1>1, SessionInductive, PTL

\* Text takes the place of bytes of a file only after the file shrank or a send was cut.
THEOREM TextComesAfterFile == SessionSpec => []TextAfterFile
<1>1. SessionInv => TextAfterFile
  BY DEF SessionInv, InStep, TextAfterFile
<1>2. QED
  BY <1>1, SessionInductive, PTL

------------------------------------------------------------------------------
(* The length of a file's transfer. *)

\* The steps of some rounds, and those of at least one more.
LEMMA MoreRounds ==
    ASSUME NEW a \in Nat, NEW b \in Nat, a < b
    PROVE  /\ RoundSteps * a \in Nat /\ RoundSteps * b \in Nat
           /\ RoundSteps * a + RoundSteps <= RoundSteps * b
<1>1. RoundSteps \in Nat
  BY Sizes DEF RoundSteps
<1>2. PICK d \in Nat : b = a + 1 + d
  <2>1. b - a - 1 \in Nat /\ b = a + 1 + (b - a - 1)
    OBVIOUS
  <2>2. QED
    BY <2>1
<1>3. RoundSteps * b = RoundSteps * a + RoundSteps + RoundSteps * d
  BY <1>1, <1>2
<1>4. RoundSteps * a \in Nat /\ RoundSteps * b \in Nat /\ RoundSteps * d \in Nat
  BY <1>1
<1>5. QED
  BY <1>1, <1>3, <1>4

\* What FileSteps is at each call of the transfer.
FilePoints ==
    /\ at = "open"   => FileSteps = RoundSteps * (i + 1) + 2
    /\ at = "header" => FileSteps = RoundSteps * (i + 1) + 1
    /\ at = "read"   => FileSteps = RoundSteps * (i + 1)
    /\ at = "piece"  => FileSteps = RoundSteps * i + 2 * (ssize - j) + 1
    /\ at = "send"   => FileSteps = RoundSteps * i + 2 * (ssize - j)
    /\ at \notin Sending \union {"open"} => FileSteps = 0

\* That is what it is, before a step and after it.
LEMMA FileStepsAre ==
    /\ FilePoints
    /\ FilePoints'
BY DEF FileSteps, FilePoints, Sending

\* While a file is sent there is a step left.
LEMMA FileStepsLeft ==
    ASSUME SessionInv, at \in Sending \union {"open"}
    PROVE  /\ FileSteps > 0 /\ i \in Nat
           /\ RoundSteps * i \in Nat /\ RoundSteps * (i + 1) \in Nat
           /\ RoundSteps * i + RoundSteps <= RoundSteps * (i + 1)
<1>1. Numbers
  BY NumbersOK
<1>2. i \in Nat /\ i + 1 \in Nat /\ i < i + 1 /\ ssize \in Nat /\ j \in Nat
  BY <1>1 DEF Numbers
<1>3. /\ RoundSteps * i \in Nat /\ RoundSteps * (i + 1) \in Nat
      /\ RoundSteps * i + RoundSteps <= RoundSteps * (i + 1)
  BY <1>2, MoreRounds
<1>4. RoundSteps \in Nat /\ RoundSteps > 0
  BY Sizes DEF RoundSteps
<1>5. at \in {"piece", "send"} => j < ssize
  BY DEF SessionInv, Offsets, PiecesInOrder
<1>6. FileSteps > 0
  BY <1>2, <1>3, <1>4, <1>5, FileStepsAre DEF FilePoints, Sending
<1>7. QED
  BY <1>2, <1>3, <1>6

\* A step out of the transfer leaves nothing of it to do.
LEMMA TransferEnds ==
    ASSUME SessionInv, at \in Sending \union {"open"}, at' \notin Sending \union {"open"}
    PROVE  FileSteps' < FileSteps
  BY FileStepsLeft, FileStepsAre DEF FilePoints

\* A round with its header, or the one before it, takes at least one step.
LEMMA HeaderStep ==
    ASSUME SessionInv, OpenFile \/ SendHeader
    PROVE  FileSteps' < FileSteps
<1>1. at \in {"open", "header"} /\ at \in Sending \union {"open"}
  BY DEF OpenFile, Go, SendHeader, Sending
<1>2. \/ at = "open" /\ at' = "header" /\ i' = i
      \/ at = "header" /\ at' = "read" /\ i' = i
      \/ at' \in {"close", "reply"}
  BY DEF OpenFile, Go, SendHeader, LoopTop, EndOfFile, locals
<1>3. CASE at' \in {"close", "reply"}
  BY <1>1, <1>3, TransferEnds DEF Sending
<1>4. CASE at' \notin {"close", "reply"}
  BY <1>1, <1>2, <1>4, FileStepsLeft, FileStepsAre DEF FilePoints
<1>5. QED
  BY <1>3, <1>4

\* The read of a chunk is one step of its round, the pieces take the others.
LEMMA ReadStep ==
    ASSUME SessionInv, ReadChunk
    PROVE  FileSteps' < FileSteps
<1>1. Numbers /\ at = "read" /\ at \in Sending \union {"open"}
  BY NumbersOK DEF ReadChunk, Sending
<1>2. PICK n \in Nat : n = Min({i, Chunk}) /\ n = IF i <= Chunk THEN i ELSE Chunk
  BY <1>1, MinOfSizes DEF Numbers
<1>3. \/ at' = "piece" /\ ssize' = n /\ j' = 0 /\ i' = i
      \/ at' = "reply"
  BY <1>2 DEF ReadChunk, EndOfFile
<1>4. CASE at' = "reply"
  BY <1>1, <1>4, TransferEnds DEF Sending
<1>5. CASE at' # "reply"
  <2>1. FileSteps' = RoundSteps * i + 2 * n + 1 /\ FileSteps = RoundSteps * (i + 1)
    <3>1. RoundSteps * i' + 2 * (ssize' - j') + 1 = RoundSteps * i + 2 * n + 1
      BY <1>2, <1>3, <1>5
    <3>2. QED
      BY <1>1, <1>3, <1>5, <3>1, FileStepsAre DEF FilePoints
  <2>2. 2 * n + 1 < RoundSteps /\ RoundSteps \in Nat
    BY <1>1, <1>2 DEF Numbers, RoundSteps
  <2>3. QED
    BY <1>1, <1>2, <2>1, <2>2, FileStepsLeft
<1>6. QED
  BY <1>4, <1>5

\* A piece that goes out shortens its round; the last one ends the round, and i falls.
LEMMA PieceStep ==
    ASSUME SessionInv, SendPiece
    PROVE  FileSteps' < FileSteps
<1>1. Numbers /\ at = "send" /\ at \in Sending \union {"open"}
  BY NumbersOK DEF SendPiece, Sending
<1>2. PICK l \in 1 .. ssize - j :
        IF j + l < ssize
        THEN at' = "piece" /\ j' = j + l /\ UNCHANGED <<fileSize, i, ssize, pos>>
        ELSE LoopTop(i - l)
  BY DEF SendPiece
<1>3. ssize <= i /\ j < ssize
  BY <1>1 DEF SessionInv, Offsets, PiecesInOrder
<1>4. /\ l \in Nat /\ l > 0 /\ l <= ssize - j /\ i \in Nat /\ ssize \in Nat /\ j \in Nat
      /\ i - l \in Nat
  BY <1>1, <1>2, <1>3 DEF Numbers
<1>5. \/ j + l < ssize /\ at' = "piece" /\ j' = j + l /\ i' = i /\ ssize' = ssize
      \/ at' = "read" /\ i' = i - l
      \/ at' = "reply"
  BY <1>2 DEF LoopTop, EndOfFile
<1>6. FileSteps = RoundSteps * i + 2 * (ssize - j)
  BY <1>1, FileStepsAre DEF FilePoints
<1>7. CASE at' = "piece"
  <2>1. FileSteps' = RoundSteps * i + 2 * (ssize - (j + l)) + 1
    BY <1>5, <1>7, FileStepsAre DEF FilePoints
  <2>2. QED
    BY <1>1, <1>4, <1>6, <2>1, FileStepsLeft
<1>8. CASE at' = "read"
  <2>1. PICK m \in Nat : m = i - l + 1
    BY <1>4
  <2>2. FileSteps' = RoundSteps * m
    BY <1>5, <1>8, <2>1, FileStepsAre DEF FilePoints
  <2>3. m = i \/ m < i
    BY <1>4, <2>1
  <2>4. RoundSteps * m <= RoundSteps * i
    <3>1. CASE m = i
      BY <1>1, <3>1, FileStepsLeft
    <3>2. CASE m < i
      BY <1>4, <3>2, MoreRounds, Sizes DEF RoundSteps
    <3>3. QED
      BY <2>3, <3>1, <3>2
  <2>5. RoundSteps * m \in Nat
    <3>1. m < m + 1
      BY <2>1
    <3>2. QED
      BY <2>1, <3>1, MoreRounds
  <2>6. QED
    BY <1>1, <1>3, <1>4, <1>6, <2>2, <2>4, <2>5, FileStepsLeft
<1>9. CASE at' = "reply"
  BY <1>1, <1>9, TransferEnds DEF Sending
<1>10. QED
  BY <1>5, <1>7, <1>8, <1>9

\* Each step of the transfer brings it nearer to its end.
LEMMA FileStep ==
    ASSUME SessionInv, [SessionNext]_allVars, at \in Sending \union {"open"},
           ~UNCHANGED fileVars
    PROVE  FileSteps' < FileSteps
<1>1. CASE SessionCall
  <2>1. ~Start /\ ~Listen /\ ~Accept /\ ~SetupFails /\ ~RecvMessage /\ ~RecvNothing /\ ~Reply
        /\ ~Farewell /\ ~StatFile /\ ~CloseSession
    BY DEF Start, Listen, Accept, SetupFails, RecvMessage, RecvNothing, Reply, Farewell, StatFile,
           CloseSession, Go, Broken, Text, Sending, SessionInv, SessionTypeOK
  <2>2. CASE HashRefused
    <3>1. at = "piece" /\ at' = "send" /\ UNCHANGED <<i, ssize, j>>
      BY <2>2 DEF HashRefused, Go, AfterHash, Sending, locals
    <3>2. ssize \in Nat /\ j \in Nat
      BY NumbersOK DEF Numbers
    <3>3. QED
      BY <3>1, <3>2, FileStepsLeft, FileStepsAre DEF FilePoints
  <2>3. CASE OpenFile \/ SendHeader
    BY <2>3, HeaderStep
  <2>4. CASE ReadChunk
    BY <2>4, ReadStep
  <2>5. CASE SendPiece
    BY <2>5, PieceStep
  <2>6. CASE PieceFails \/ SigPipe
    <3>1. at' \in {"reply", "out"}
      BY <2>6 DEF PieceFails, EndOfFile, SigPipe, Leave
    <3>2. QED
      BY <3>1, TransferEnds DEF Sending
  <2>7. QED
    BY <1>1, <2>1, <2>2, <2>3, <2>4, <2>5, <2>6 DEF SessionCall
<1>2. CASE Operator
  BY <1>2 DEF Operator, Type, Sending
<1>3. CASE World
  BY <1>3 DEF World, ClientConnects, ClientSays, ClientLeaves, Reset, StdinEnds, FileChanges,
              fileVars
<1>4. CASE EdgeStep \/ UNCHANGED allVars
  BY <1>4 DEF EdgeStep, allVars, sessionVars, fileVars
<1>5. QED
  BY <1>1, <1>2, <1>3, <1>4 DEF SessionNext

\* The transfer of example.txt always comes to an end, for any size of it and of a
\* chunk, and the session goes on with the operator's next line.
THEOREM TransfersShrink == SessionSpec => FileShrinks
<1>1. SessionInv /\ [SessionNext]_allVars
        => [(at \in Sending \union {"open"}) => FileSteps' < FileSteps]_fileVars
  BY FileStep
<1>2. QED
  BY <1>1, SessionInductive, PTL DEF SessionSpec, FileShrinks

\* What is promised of the edge calls is kept with a session among them: a session is
\* one step of an ecall's way to its end, and costs the enclave no memory.
THEOREM SessionsKeepPromises ==
    SessionSpec => [](CallsReleaseAll /\ StatusTellsResult) /\ CallsShrink
BY SessionRefinesCalls, CallsReleaseEverything, StatusesTellResults, CallsGetShorter, PTL
   DEF CallsAreEdgeCalls

------------------------------------------------------------------------------
(* "exit". *)

\* What arrives, until the connection is reset, are whole messages.
QuitInv ==
    /\ cliEnd # "reset" /\ Len(inbox) > 0 => inbox[Len(inbox)].last
    /\ QuitIsHeard
    /\ QuitWaits /\ ~ghost.glued => ghost.said
    /\ QuitWasSaid

\* The message "exit" starts at the x-th piece of s.
QuitAt(s, x) ==
    /\ s[x].text = "ex" /\ ~s[x].last
    /\ s[x + 1].text = "it" /\ s[x + 1].last
    /\ x > 1 => s[x - 1].last

LEMMA QuitWaitsAt == QuitWaits <=> \E x \in 1 .. Len(inbox) - 1 : QuitAt(inbox, x)
  BY Zenon DEF QuitWaits, QuitAt

LEMMA QuitInit == SessionInit => QuitInv
<1> SUFFICES ASSUME SessionInit PROVE QuitInv
  OBVIOUS
<1>1. inbox = << >>
  BY DEF SessionInit
<1>2. Len(inbox) = 0
  BY <1>1
<1>3. ~ghost.said /\ ghost.ended = "no"
  BY DEF SessionInit, NoGhost
<1>4. ~QuitWaits
  BY <1>2 DEF QuitWaits
<1>5. QED
  BY <1>2, <1>3, <1>4 DEF QuitInv, QuitIsHeard, QuitWasSaid

\* A session that is left leaves nothing behind.
LEMMA QuitLeave == Leave => QuitInv'
<1> SUFFICES ASSUME Leave PROVE QuitInv'
  OBVIOUS
<1>1. inbox' = << >>
  BY DEF Leave
<1>2. Len(inbox') = 0
  BY <1>1
<1>3. ~ghost'.said /\ ghost'.ended = "no"
  BY DEF Leave, NoGhost
<1>4. ~QuitWaits'
  BY <1>2 DEF QuitWaits
<1>5. QED
  BY <1>2, <1>3, <1>4 DEF QuitInv, QuitIsHeard, QuitWasSaid

\* Steps that neither receive nor bring anything.
LEMMA QuitQuiet ==
    ASSUME QuitInv, inbox' = inbox, ghost'.said = ghost.said, ghost'.glued = ghost.glued,
           ghost'.ended = ghost.ended, cliEnd = "reset" => cliEnd' = "reset",
           at = "close" => at' = "close"
    PROVE  QuitInv'
  BY DEF QuitInv, QuitIsHeard, QuitWasSaid, QuitWaits

\* A client speaks.
LEMMA QuitSays == ASSUME SessionInv, QuitInv, ClientSays PROVE QuitInv'
<1>1. inbox \in Seq(Item) /\ Len(inbox) \in Nat /\ ghost \in Ghosts
  BY DEF SessionInv, SessionTypeOK
<1>2. PICK m \in Messages :
        /\ inbox' = inbox \o Pieces(m)
        /\ ghost' = [ghost EXCEPT !.said = @ \/ m = Quit]
  BY DEF ClientSays
<1>3. at' = at /\ cliEnd' = cliEnd /\ cliEnd # "reset"
  BY DEF ClientSays
<1> DEFINE n == Len(inbox)
           p == Pieces(m)
<1>4. p \in Seq(Item) /\ Len(p) = Len(m) /\ Len(m) \in Nat /\ m \in Seq({"hi", "ex", "it"})
  BY PiecesAre, SessionAssumption
<1>5. \A x \in 1 .. Len(m) : p[x].text = m[x] /\ (p[x].last <=> x = Len(m))
  BY PiecesAre
<1>6. /\ Len(inbox') = n + Len(m)
      /\ \A x \in 1 .. n + Len(m) : inbox'[x] = IF x <= n THEN inbox[x] ELSE p[x - n]
  <2>1. /\ Len(inbox \o p) = Len(inbox) + Len(p)
        /\ \A x \in 1 .. Len(inbox) + Len(p) :
             (inbox \o p)[x] = IF x <= Len(inbox) THEN inbox[x] ELSE p[x - Len(inbox)]
    BY <1>1, <1>4, ConcatProperties
  <2>2. QED
    BY <1>2, <1>4, <2>1
<1>7. /\ ghost'.said = (ghost.said \/ m = Quit) /\ ghost'.glued = ghost.glued
      /\ ghost'.ended = ghost.ended
  BY <1>1, <1>2 DEF Ghosts
<1>8. n > 0 => inbox[n].last
  BY <1>3 DEF QuitInv
<1>9. Len(inbox') > 0 => inbox'[Len(inbox')].last
  <2>1. CASE Len(m) = 0
    BY <1>1, <1>6, <1>8, <2>1
  <2>2. CASE Len(m) > 0
    <3>1. inbox'[n + Len(m)] = p[Len(m)]
      BY <1>1, <1>4, <1>6, <2>2
    <3>2. Len(m) \in 1 .. Len(m)
      BY <1>4, <2>2
    <3>3. p[Len(m)].last
      BY <1>5, <3>2
    <3>4. QED
      BY <1>6, <3>1, <3>3
  <2>3. QED
    BY <1>4, <2>1, <2>2
<1>10. QuitWaits => QuitWaits'
  <2>1. ASSUME NEW x \in 1 .. n - 1, QuitAt(inbox, x)
        PROVE  x \in 1 .. Len(inbox') - 1 /\ QuitAt(inbox', x)
    <3>1. /\ x \in 1 .. Len(inbox') - 1 /\ inbox'[x] = inbox[x] /\ inbox'[x + 1] = inbox[x + 1]
          /\ x > 1 => inbox'[x - 1] = inbox[x - 1]
      BY <1>1, <1>4, <1>6
    <3>2. QED
      BY <2>1, <3>1 DEF QuitAt
  <2>2. QED
    BY <2>1, QuitWaitsAt DEF QuitWaits, QuitAt
<1>11. m = Quit => QuitWaits'
  <2> SUFFICES ASSUME m = Quit PROVE QuitWaits'
    OBVIOUS
  <2>1. Len(m) = 2 /\ m[1] = "ex" /\ m[2] = "it"
    BY DEF Quit
  <2>2. n + 1 \in 1 .. Len(inbox') - 1
    BY <1>1, <1>6, <2>1
  <2>3. inbox'[n + 1] = p[1] /\ inbox'[n + 2] = p[2] /\ (n > 0 => inbox'[n] = inbox[n])
    BY <1>1, <1>6, <2>1
  <2>4. p[1].text = "ex" /\ ~p[1].last /\ p[2].text = "it" /\ p[2].last
    BY <1>5, <2>1
  <2>5. QED
    BY <1>1, <1>8, <2>2, <2>3, <2>4 DEF QuitWaits
<1>12. QuitWaits' /\ ~QuitWaits => m = Quit
  <2> SUFFICES ASSUME NEW x \in 1 .. Len(inbox') - 1,
                      inbox'[x].text = "ex", ~inbox'[x].last,
                      inbox'[x + 1].text = "it", inbox'[x + 1].last,
                      x > 1 => inbox'[x - 1].last,
                      ~QuitWaits
               PROVE  m = Quit
    BY DEF QuitWaits
  <2>0. x \in Nat /\ x >= 1 /\ x < n + Len(m)
    BY <1>1, <1>4, <1>6
  <2>1. ~(x < n)
    <3>1. ASSUME x < n PROVE FALSE
      <4>1. /\ x \in 1 .. n - 1 /\ inbox'[x] = inbox[x] /\ inbox'[x + 1] = inbox[x + 1]
            /\ x > 1 => inbox'[x - 1] = inbox[x - 1]
        BY <1>1, <1>4, <1>6, <2>0, <3>1
      <4>2. QED
        BY <4>1 DEF QuitWaits
    <3>2. QED
      BY <3>1
  <2>2. x # n
    <3>1. ASSUME x = n PROVE FALSE
      <4>1. inbox'[x] = inbox[n] /\ n > 0
        BY <1>1, <1>4, <1>6, <2>0, <3>1
      <4>2. QED
        BY <1>8, <4>1
    <3>2. QED
      BY <3>1
  <2>3. x > n
    BY <1>1, <2>0, <2>1, <2>2
  <2> DEFINE y == x - n
  <2>4. y \in Nat /\ y >= 1 /\ y < Len(m) /\ x = n + y
    BY <1>1, <1>4, <2>0, <2>3
  <2>5. inbox'[x] = p[y] /\ inbox'[x + 1] = p[y + 1]
    BY <1>1, <1>4, <1>6, <2>0, <2>4
  <2> HIDE DEF y
  <2>6. y \in 1 .. Len(m) /\ y + 1 \in 1 .. Len(m)
    BY <1>4, <2>4
  <2>7. m[y] = "ex" /\ m[y + 1] = "it" /\ y + 1 = Len(m)
    BY <1>5, <2>5, <2>6
  <2>8. y = 1
    <3>1. ASSUME y > 1 PROVE FALSE
      <4>1. x > 1 /\ inbox'[x - 1] = p[y - 1]
        BY <1>1, <1>4, <1>6, <2>0, <2>4, <3>1 DEF y
      <4>2. y - 1 \in 1 .. Len(m) /\ y - 1 # Len(m)
        BY <1>4, <2>4, <3>1
      <4>3. QED
        BY <1>5, <4>1, <4>2
    <3>2. QED
      BY <2>4, <3>1
  <2>9. Len(m) = 2 /\ m[1] = "ex" /\ m[2] = "it"
    BY <2>7, <2>8
  <2>10. QED
    BY <1>4, <2>9 DEF Quit
<1>13. QED
  BY <1>3, <1>7, <1>9, <1>10, <1>11, <1>12 DEF QuitInv, QuitIsHeard, QuitWasSaid

\* A recv() that returns one message takes the first, and is right about it.
LEMMA QuitReceive == ASSUME SessionInv, QuitInv, RecvMessage PROVE QuitInv'
<1>1. inbox \in Seq(Item) /\ Len(inbox) \in Nat /\ ghost \in Ghosts
  BY DEF SessionInv, SessionTypeOK
<1> DEFINE n == Len(inbox)
<1>2. PICK k \in 1 .. n :
        LET msg  == SubSeq(inbox, 1, k)
            quit == Texts(msg) = Quit
        IN  /\ inbox' = SubSeq(inbox, k + 1, n)
            /\ at' = IF quit THEN "close" ELSE "prompt"
            /\ ghost' = [ghost EXCEPT
                           !.glued = @ \/ {x \in 1..k : msg[x].last} # {k},
                           !.ended = IF quit THEN "client" ELSE @]
  BY DEF RecvMessage
<1> DEFINE msg  == SubSeq(inbox, 1, k)
           quit == Texts(msg) = Quit
           odd  == {x \in 1..k : msg[x].last} # {k}
<1>3. at = "recv" /\ cliEnd' = cliEnd
  BY DEF RecvMessage
<1>4. Len(msg) = k /\ DOMAIN msg = 1 .. k /\ \A x \in 1 .. k : msg[x] = inbox[x]
  <2>1. \A x \in 1 .. k : inbox[x] \in Item
    BY <1>1
  <2>2. /\ msg \in Seq(Item) /\ Len(msg) = k
        /\ \A x \in 1 .. k - 1 + 1 : msg[x] = inbox[1 + x - 1]
    BY <2>1, SubSeqProperties
  <2>3. QED
    BY <2>2
<1>5. /\ Len(inbox') = n - k
      /\ \A x \in 1 .. n - k : inbox'[x] = inbox[x + k]
  <2>1. \A x \in k + 1 .. n : inbox[x] \in Item
    BY <1>1
  <2>2. /\ Len(inbox') = IF k + 1 <= n THEN n - (k + 1) + 1 ELSE 0
        /\ \A x \in 1 .. n - (k + 1) + 1 : inbox'[x] = inbox[(k + 1) + x - 1]
    BY <1>1, <1>2, <2>1, SubSeqProperties
  <2>3. QED
    BY <1>1, <2>2
<1>6. /\ ghost'.said = ghost.said /\ ghost'.glued = (ghost.glued \/ odd)
      /\ ghost'.ended = (IF quit THEN "client" ELSE ghost.ended)
      /\ at' = IF quit THEN "close" ELSE "prompt"
  BY <1>1, <1>2 DEF Ghosts
<1>7. ~odd => inbox[k].last /\ \A x \in 1 .. k - 1 : ~inbox[x].last
  <2>1. ASSUME ~odd PROVE inbox[k].last
    BY <1>4, <2>1
  <2>2. ASSUME ~odd, NEW x \in 1 .. k - 1 PROVE ~inbox[x].last
    BY <1>4, <2>2
  <2>3. QED
    BY <2>1, <2>2
<1>8. quit <=> k = 2 /\ inbox[1].text = "ex" /\ inbox[2].text = "it"
  <2>1. quit => k = 2 /\ inbox[1].text = "ex" /\ inbox[2].text = "it"
    <3>1. SUFFICES ASSUME quit PROVE k = 2 /\ inbox[1].text = "ex" /\ inbox[2].text = "it"
      OBVIOUS
    <3>2. Texts(msg) = <<"ex", "it">> /\ DOMAIN Texts(msg) = 1 .. k
      BY <1>4, <3>1 DEF Texts, Quit
    <3>3. DOMAIN <<"ex", "it">> = 1 .. 2
      OBVIOUS
    <3>4. k = 2
      <4>1. 1 .. k = 1 .. 2
        BY <3>2, <3>3, Zenon
      <4>2. k \in 1 .. 2 /\ 2 \in 1 .. k
        BY <4>1
      <4>3. QED
        BY <4>2
    <3>5. Texts(msg)[1] = "ex" /\ Texts(msg)[2] = "it"
      BY <3>2
    <3>6. QED
      BY <1>4, <3>4, <3>5 DEF Texts
  <2>2. ASSUME k = 2, inbox[1].text = "ex", inbox[2].text = "it" PROVE quit
    <3>1. Texts(msg) = [x \in 1 .. 2 |-> msg[x].text]
      BY <1>4, <2>2 DEF Texts
    <3>2. \A x \in 1 .. 2 : msg[x].text = <<"ex", "it">>[x]
      BY <1>4, <2>2
    <3>3. <<"ex", "it">> = [x \in 1 .. 2 |-> <<"ex", "it">>[x]]
      OBVIOUS
    <3>4. [x \in 1 .. 2 |-> msg[x].text] = [x \in 1 .. 2 |-> <<"ex", "it">>[x]]
      BY <3>2, Zenon
    <3>5. QED
      BY <3>1, <3>3, <3>4, Zenon DEF Quit
  <2>3. QED
    BY <2>1, <2>2
<1> HIDE DEF msg, quit, odd
<1>9. cliEnd' # "reset" /\ Len(inbox') > 0 => inbox'[Len(inbox')].last
  BY <1>1, <1>3, <1>5 DEF QuitInv
<1>10. QuitWaits /\ ~odd => quit \/ QuitWaits'
  <2> SUFFICES ASSUME NEW x \in 1 .. n - 1, QuitAt(inbox, x), ~odd
               PROVE  quit \/ QuitWaits'
    BY QuitWaitsAt
  <2>1. ~inbox[x].last /\ inbox[x + 1].last /\ inbox[k].last /\ x # k
    BY <1>7 DEF QuitAt
  <2>2. CASE x < k
    <3>1. x + 1 = k
      BY <1>1, <1>7, <2>1, <2>2
    <3>2. x = 1
      BY <1>1, <1>7, <3>1 DEF QuitAt
    <3>3. QED
      BY <1>8, <3>1, <3>2 DEF QuitAt
  <2>3. CASE x > k
    <3> DEFINE y == x - k
    <3>1. y \in 1 .. Len(inbox') - 1 /\ inbox'[y] = inbox[x] /\ inbox'[y + 1] = inbox[x + 1]
      <4>1. y \in 1 .. n - k /\ y + 1 \in 1 .. n - k /\ y + k = x /\ y + 1 + k = x + 1
        BY <1>1, <2>3
      <4>2. y \in 1 .. Len(inbox') - 1
        BY <1>1, <1>5, <4>1
      <4> HIDE DEF y
      <4>3. inbox'[y] = inbox[y + k] /\ inbox'[y + 1] = inbox[y + 1 + k]
        BY <1>5, <4>1
      <4>4. QED
        BY <4>1, <4>2, <4>3
    <3>2. y > 1 => inbox'[y - 1] = inbox[x - 1] /\ x > 1
      BY <1>1, <1>5, <2>3
    <3> HIDE DEF y
    <3>3. QED
      BY <3>1, <3>2 DEF QuitAt, QuitWaits
  <2>4. QED
    BY <1>1, <2>1, <2>2, <2>3
<1>11. QuitWaits' /\ ~odd => QuitWaits
  <2> SUFFICES ASSUME NEW x \in 1 .. Len(inbox') - 1, ~odd,
                      inbox'[x].text = "ex", ~inbox'[x].last,
                      inbox'[x + 1].text = "it", inbox'[x + 1].last,
                      x > 1 => inbox'[x - 1].last
               PROVE  QuitWaits
    BY DEF QuitWaits
  <2> DEFINE y == x + k
  <2>1. y \in 1 .. n - 1 /\ inbox'[x] = inbox[y] /\ inbox'[x + 1] = inbox[y + 1]
    BY <1>1, <1>5
  <2>2. x > 1 => inbox'[x - 1] = inbox[y - 1]
    BY <1>1, <1>5
  <2>3. x = 1 => y - 1 = k
    OBVIOUS
  <2>4. x = 1 \/ x > 1
    BY <1>1, <1>5
  <2> HIDE DEF y
  <2>5. inbox[y - 1].last
    BY <1>7, <2>2, <2>3, <2>4
  <2>6. QED
    BY <2>1, <2>5 DEF QuitWaits
<1>12. ~odd /\ quit => QuitWaits
  BY <1>1, <1>7, <1>8 DEF QuitWaits
<1>13. ghost.glued \in BOOLEAN /\ ghost.said \in BOOLEAN
  BY <1>1 DEF Ghosts
<1>14. QED
  BY <1>3, <1>6, <1>9, <1>10, <1>11, <1>12, <1>13, Zenon
  DEF QuitInv, QuitIsHeard, QuitWasSaid

\* A reset loses what has not arrived.
LEMMA QuitReset == ASSUME SessionInv, QuitInv, Reset PROVE QuitInv'
<1>1. inbox \in Seq(Item) /\ Len(inbox) \in Nat
  BY DEF SessionInv, SessionTypeOK
<1>2. PICK k \in 0 .. Len(inbox) : inbox' = SubSeq(inbox, 1, k)
  BY DEF Reset
<1>3. ghost' = ghost /\ cliEnd' = "reset"
  BY DEF Reset
<1>4. Len(inbox') = k /\ \A x \in 1 .. k : inbox'[x] = inbox[x]
  <2>1. \A x \in 1 .. k : inbox[x] \in Item
    BY <1>1
  <2>2. /\ Len(inbox') = IF 1 <= k THEN k - 1 + 1 ELSE 0
        /\ \A x \in 1 .. k - 1 + 1 : inbox'[x] = inbox[1 + x - 1]
    BY <1>2, <2>1, SubSeqProperties
  <2>3. QED
    BY <1>1, <2>2
<1>5. QuitWaits' => QuitWaits
  <2> SUFFICES ASSUME NEW x \in 1 .. k - 1,
                      inbox'[x].text = "ex", ~inbox'[x].last,
                      inbox'[x + 1].text = "it", inbox'[x + 1].last,
                      x > 1 => inbox'[x - 1].last
               PROVE  QuitWaits
    BY <1>4 DEF QuitWaits
  <2>1. /\ x \in 1 .. Len(inbox) - 1 /\ inbox'[x] = inbox[x] /\ inbox'[x + 1] = inbox[x + 1]
        /\ x > 1 => inbox'[x - 1] = inbox[x - 1]
    BY <1>1, <1>4
  <2>2. QED
    BY <2>1 DEF QuitWaits
<1>6. QED
  BY <1>3, <1>5 DEF QuitInv, QuitIsHeard, QuitWasSaid

LEMMA QuitNext == SessionInv /\ QuitInv /\ [SessionNext]_allVars => QuitInv'
<1> SUFFICES ASSUME SessionInv, QuitInv, [SessionNext]_allVars PROVE QuitInv'
  OBVIOUS
<1>1. ghost \in Ghosts
  BY DEF SessionInv, SessionTypeOK
<1>2. CASE RecvMessage
  BY <1>2, QuitReceive
<1>3. CASE ClientSays
  BY <1>3, QuitSays
<1>4. CASE Reset
  BY <1>4, QuitReset
<1>5. CASE SetupFails \/ SigPipe \/ CloseSession
  BY <1>5, QuitLeave DEF SetupFails, SigPipe, CloseSession
<1>6. CASE ClientConnects \/ ClientLeaves \/ StdinEnds \/ Operator \/ Start \/ Listen
           \/ Accept \/ RecvNothing \/ HashRefused \/ OpenFile \/ StatFile \/ ReadChunk
  <2>1. inbox' = inbox /\ ghost' = ghost /\ (cliEnd = "reset" => cliEnd' = "reset")
    BY <1>6 DEF Go, ClientConnects, ClientLeaves, StdinEnds, Operator, Type, Start, Listen,
                Accept, RecvNothing, HashRefused, OpenFile, StatFile, ReadChunk, clientVars
  <2>2. at = "close" => at' = "close"
    BY <1>6 DEF Go, ClientConnects, ClientLeaves, StdinEnds, Operator, Type, Start, Listen,
                Accept, RecvNothing, HashRefused, OpenFile, StatFile, ReadChunk
  <2>3. QED
    BY <2>1, <2>2, QuitQuiet
<1>7. CASE FileChanges \/ Reply \/ Farewell \/ SendHeader \/ SendPiece \/ PieceFails
  <2>1. inbox' = inbox /\ cliEnd' = cliEnd
    BY <1>7 DEF Go, FileChanges, Reply, Farewell, Broken, Text, SendHeader, SendPiece,
                PieceFails, clientVars
  <2>2. at = "close" => at' = "close"
    BY <1>7 DEF FileChanges, Reply, Farewell, SendHeader, SendPiece, PieceFails
  <2>3. \/ ghost' = ghost
        \/ \E a : ghost' = [ghost EXCEPT !.slipped = a]
        \/ \E b : ghost' = [ghost EXCEPT !.spoiled = b]
    BY <1>7 DEF Go, FileChanges, Reply, Farewell, Broken, Text, SendHeader, SendPiece,
                PieceFails
  <2>4. /\ ghost'.said = ghost.said /\ ghost'.glued = ghost.glued
        /\ ghost'.ended = ghost.ended
    BY <1>1, <2>3 DEF Ghosts
  <2>5. QED
    BY <2>1, <2>2, <2>4, QuitQuiet
<1>8. CASE EdgeStep \/ UNCHANGED allVars
  <2>1. inbox' = inbox /\ ghost' = ghost /\ cliEnd' = cliEnd /\ at' = at
    BY <1>8 DEF EdgeStep, allVars, sessionVars, clientVars
  <2>2. QED
    BY <2>1, QuitQuiet
<1>9. QED
  BY <1>2, <1>3, <1>4, <1>5, <1>6, <1>7, <1>8 DEF SessionNext, SessionCall, World

LEMMA QuitInductive == SessionSpec => []QuitInv
<1>1. SessionInit /\ [][SessionNext]_allVars /\ []SessionInv => []QuitInv
  BY QuitInit, QuitNext, PTL
<1>2. QED
  BY <1>1, SessionInductive, PTL DEF SessionSpec

\* For any messages and any cuts: a client whose messages arrive one by one is heard.
THEOREM QuitsAreHeard == SessionSpec => []QuitIsHeard
  BY QuitInductive, PTL DEF QuitInv

\* And a session that ends as the client's was ended by it.
THEOREM QuitsWereSaid == SessionSpec => []QuitWasSaid
  BY QuitInductive, PTL DEF QuitInv
==============================================================================
