------------------------------ MODULE SgxSession ------------------------------
(***************************************************************************)
(* ocall_setup_connection (FileIOHash_MultMat/App/App.cpp:352-488): what   *)
(* the App does outside while the enclave waits for the ocall of           *)
(* e_call_setup_connection.  It serves one client: it receives a message,  *)
(* asks the operator for a line, has it hashed, sends a file when the line *)
(* says so, and sends the line.                                            *)
(*                                                                         *)
(* A line is the kind of text it is; lines are shorter than msg.  The      *)
(* client is external.  What it says is cut into pieces, "exit" into two,  *)
(* because recv() keeps no message boundaries; last marks the piece that   *)
(* ends a message, which the code cannot see.                              *)
(***************************************************************************)
EXTENDS EdgeCalls, Integers, Sequences, FiniteSetsExt

CONSTANTS
    AppCalls,    \* the ecalls the App makes
    Chunk,       \* chunkSize
    DiskSizes,   \* lengths example.txt may have; Absent when it is not there
    Messages,    \* what a client may say
    MaxInbox     \* bound: pieces that wait for recv()

Absent == -1
Quit   == <<"ex", "it">>

ASSUME SessionAssumption ==
    /\ AppCalls \subseteq Ecalls
    /\ Chunk \in Nat \ {0}
    /\ DiskSizes \subseteq Nat \union {Absent}
    /\ MaxInbox \in Nat
    /\ Messages \subseteq Seq({"hi", "ex", "it"})

VARIABLES
    at,        \* the call ocall_setup_connection is in, "out" when it is not running
    cliEnd,    \* the client's end of the connection
    inbox,     \* pieces that have arrived and are not received
    eof,       \* stdin has ended
    data,      \* data, the operator's line, which is then in msg too
    disk,      \* the length of example.txt now
    fileSize, i, ssize, j,  \* the locals of the same names
    pos,       \* how far file.read has got
    due,       \* history: announced bytes that have not been sent
    ghost      \* history: what has happened in this session

locals     == <<fileSize, i, ssize, j, pos>>
clientVars == <<cliEnd, inbox>>
sessionVars == <<at, clientVars, eof, data, disk, locals, due, ghost>>
allVars    == <<vars, sessionVars>>

Lines == {"", "text", "exit", "sendfile"}

\* in the block of data == "sendfile", with the file open
Sending == {"header", "read", "piece", "send"}
Ats == {"out", "socket", "accept", "recv", "prompt", "hash", "farewell", "stat", "open",
        "reply", "close"} \union Sending

NoGhost == [said    |-> FALSE,   \* the client has said "exit"
            glued   |-> FALSE,   \* a recv() returned something else than one message
            slipped |-> FALSE,   \* the file shrank, or a send() fell short or failed
            spoiled |-> FALSE,   \* text went out before the last announced byte
            ended   |-> "no"]    \* who ended the session

SessionInit ==
    /\ Init
    /\ at = "out" /\ cliEnd = "none" /\ inbox = << >>
    /\ eof = FALSE /\ data = "" /\ disk \in DiskSizes
    /\ fileSize = 0 /\ i = 0 /\ ssize = 0 /\ j = 0 /\ pos = 0
    /\ due = 0 /\ ghost = NoGhost

\* Nothing but the place in the code changes.
Go(from, to) ==
    /\ at = from /\ at' = to
    /\ UNCHANGED <<vars, clientVars, eof, data, disk, locals, due, ghost>>

------------------------------------------------------------------------------
(* The client, the operator and the file. *)

ClientConnects ==
    /\ at = "accept" /\ cliEnd = "none"
    /\ cliEnd' = "open"
    /\ UNCHANGED <<vars, at, inbox, eof, data, disk, locals, due, ghost>>

\* The pieces of a message as they are sent
Pieces(m) == [x \in DOMAIN m |-> [text |-> m[x], last |-> x = Len(m)]]

ClientSays ==
    /\ cliEnd = "open"
    /\ \E m \in Messages :
          /\ Len(inbox) + Len(m) <= MaxInbox
          /\ inbox' = inbox \o Pieces(m)
          /\ ghost' = [ghost EXCEPT !.said = @ \/ m = Quit]
    /\ UNCHANGED <<vars, at, cliEnd, eof, data, disk, locals, due>>

ClientLeaves ==
    /\ cliEnd = "open"
    /\ cliEnd' = "closed"
    /\ UNCHANGED <<vars, at, inbox, eof, data, disk, locals, due, ghost>>

\* The path is down, or the client's system answers data nobody will read; what
\* has not arrived is lost.
Reset ==
    /\ cliEnd \in {"open", "closed"}
    /\ cliEnd' = "reset"
    /\ \E k \in 0 .. Len(inbox) : inbox' = SubSeq(inbox, 1, k)
    /\ UNCHANGED <<vars, at, eof, data, disk, locals, due, ghost>>

StdinEnds ==
    /\ at # "out" /\ ~eof
    /\ eof' = TRUE
    /\ UNCHANGED <<vars, at, clientVars, data, disk, locals, due, ghost>>

\* Removing the file does not matter to the ifstream that is open.
FileChanges ==
    /\ disk' \in DiskSizes \ {disk}
    /\ Absent \in {disk, disk'} => at \notin Sending
    /\ ghost' = [ghost EXCEPT !.slipped =
                    @ \/ (at \in Sending \union {"open"} /\ disk' < fileSize)]
    /\ UNCHANGED <<vars, at, clientVars, eof, data, locals, due>>

------------------------------------------------------------------------------
(* The connection is set up. *)

\* sgx_ocall(2, NULL)
Start ==
    /\ pc = "connect" /\ at = "out" /\ OcallStarts
    /\ at' = "socket"
    /\ UNCHANGED <<clientVars, eof, data, disk, locals, due, ghost>>

\* socket(), bind(), listen()
Listen == Go("socket", "accept")

Accept == cliEnd # "none" /\ Go("accept", "recv")

\* the variables of a function that is not running
Leave ==
    /\ at' = "out" /\ cliEnd' = "none" /\ inbox' = << >>
    /\ data' = "" /\ fileSize' = 0 /\ i' = 0 /\ ssize' = 0 /\ j' = 0 /\ pos' = 0
    /\ due' = 0 /\ ghost' = NoGhost
    /\ UNCHANGED <<eof, disk>>

\* a call fails: exit() in the middle of the ecall
SetupFails ==
    /\ at \in {"socket", "accept"}
    /\ AppExits /\ Leave

------------------------------------------------------------------------------
(* One round of while (1). *)

Texts(s) == [x \in DOMAIN s |-> s[x].text]

QuitGoesOn ==
    /\ at = "recv"
    /\ \E k \in 1 .. Len(inbox) :
          LET msg  == SubSeq(inbox, 1, k)
              quit == Texts(msg) = Quit
          IN  /\ inbox' = SubSeq(inbox, k + 1, Len(inbox))
              /\ at' = "prompt"
              /\ ghost' = [ghost EXCEPT
                             !.glued = @ \/ {x \in 1..k : msg[x].last} # {k},
                             !.ended = IF quit THEN "client" ELSE @]
    /\ UNCHANGED <<vars, cliEnd, eof, data, disk, locals, due>>

QuitByPrefix ==
    /\ at = "recv"
    /\ \E k \in 1 .. Len(inbox) :
          LET msg  == SubSeq(inbox, 1, k)
              quit == msg[1].text = "ex"
          IN  /\ inbox' = SubSeq(inbox, k + 1, Len(inbox))
              /\ at' = IF quit THEN "close" ELSE "prompt"
              /\ ghost' = [ghost EXCEPT
                             !.glued = @ \/ {x \in 1..k : msg[x].last} # {k},
                             !.ended = IF quit THEN "client" ELSE @]
    /\ UNCHANGED <<vars, cliEnd, eof, data, disk, locals, due>>

\* recv() into a cleared msg; strcmp(msg, "exit") decides about all of it
RecvMessage ==
    /\ at = "recv"
    /\ \E k \in 1 .. Len(inbox) :
          LET msg  == SubSeq(inbox, 1, k)
              quit == Texts(msg) = Quit
          IN  /\ inbox' = SubSeq(inbox, k + 1, Len(inbox))
              /\ at' = IF quit THEN "close" ELSE "prompt"
              /\ ghost' = [ghost EXCEPT
                             !.glued = @ \/ {x \in 1..k : msg[x].last} # {k},
                             !.ended = IF quit THEN "client" ELSE @]
    /\ UNCHANGED <<vars, cliEnd, eof, data, disk, locals, due>>

\* the end of the stream, or an error, is an empty message
RecvNothing == inbox = << >> /\ cliEnd \in {"closed", "reset"} /\ Go("recv", "prompt")

\* getline(cin, data) and strcpy(msg, data.c_str())
Type(line) ==
    /\ at = "prompt"
    /\ eof => line = ""
    /\ data' = line
    /\ at' = "hash"
    /\ UNCHANGED <<vars, clientVars, eof, disk, locals, due, ghost>>

\* g_dyn_entry_table: the ecalls that each ocall may make
entry_table == [o \in Ocalls |-> {}]

AfterHash ==
    CASE at = "piece"                          -> "send"
      [] at = "hash" /\ data = "exit"          -> "farewell"
      [] at = "hash" /\ data = "sendfile"      -> "stat"
      [] at = "hash" /\ data \in {"", "text"}  -> "reply"

HashAllowed ==
    /\ at \in {"hash", "piece"}
    /\ IF ctx = "live"
       THEN ctx' = "freed" /\ hashed' = "pointer"
       ELSE UNCHANGED <<ctx, hashed>>
    /\ at' = AfterHash
    /\ UNCHANGED <<pc, call, len, arg, copy, heap, status, result, mem, outside, ms,
                   corrupt, history, enclave>>
    /\ UNCHANGED <<clientVars, eof, data, disk, locals, due, ghost>>

\* ecall_update_hash(global_eid, msg or a byte of buffer) from within the ocall:
\* refused by the table, or by the enclave's end; the status is not looked at
HashRefused ==
    /\ at \in {"hash", "piece"} /\ "ecall_update_hash" \notin entry_table["connect"]
    /\ Go(at, AfterHash)

\* A line goes out; announced bytes that are missing will be read from it.
Text(done) ==
    /\ at' = done
    /\ ghost' = [ghost EXCEPT !.spoiled = @ \/ (data # "" /\ due # 0)]
    /\ UNCHANGED <<vars, clientVars, eof, data, disk, locals, due>>

\* send() finds the connection reset: -1
Broken(done) == cliEnd = "reset" /\ Go(at, done)

\* bytesWritten += send(newSd, msg, strlen(msg), 0), an error like a count
Reply == at = "reply" /\ (Broken("recv") \/ (cliEnd # "reset" /\ Text("recv")))

ReplyGoesOn == at = "farewell" /\ (Broken("recv") \/ (cliEnd # "reset" /\ Text("recv")))

\* data == "exit": send(newSd, msg, strlen(msg), 0); break
Farewell == at = "farewell" /\ (Broken("close") \/ (cliEnd # "reset" /\ Text("close")))

\* SIGPIPE, for which no handler is installed
SigPipe ==
    /\ at \in {"reply", "farewell", "header", "send"} /\ cliEnd = "reset"
    /\ AppExits /\ Leave

------------------------------------------------------------------------------
(* data == "sendfile" *)

\* GetFileSize("example.txt"), or break
StatFile ==
    /\ at = "stat"
    /\ IF disk = Absent
       THEN at' = "close" /\ UNCHANGED <<fileSize, i>>
       ELSE at' = "open" /\ fileSize' = disk /\ i' = disk
    /\ UNCHANGED <<vars, clientVars, eof, data, disk, ssize, j, pos, due, ghost>>

\* std::ifstream file("example.txt"), or break
OpenFile == Go("open", IF disk = Absent THEN "close" ELSE "header")

\* "File sent." and on to the reply, which is "sendfile"
EndOfFile ==
    /\ at' = "reply"
    /\ fileSize' = 0 /\ i' = 0 /\ ssize' = 0 /\ j' = 0 /\ pos' = 0

WholeChunksOnly(left) ==
    IF left < Chunk THEN EndOfFile
                    ELSE at' = "read" /\ i' = left /\ UNCHANGED <<fileSize, ssize, j, pos>>

\* while (i != 0) with the value i is about to get
LoopTop(left) ==
    IF left = 0 THEN EndOfFile
                ELSE at' = "read" /\ i' = left /\ UNCHANGED <<fileSize, ssize, j, pos>>

\* send(newSd, &fileSize, sizeof(fileSize), 0), its result dropped
SendHeader ==
    /\ at = "header"
    /\ LoopTop(i)
    /\ due' = fileSize
    /\ \/ cliEnd # "reset" /\ UNCHANGED ghost
       \/ ghost' = [ghost EXCEPT !.slipped = TRUE]
    /\ UNCHANGED <<vars, clientVars, eof, data, disk>>

\* ssize = min(i, chunkSize); file.read, or errored and out of the loop
ReadChunk ==
    /\ at = "read"
    /\ LET n == Min({i, Chunk})
       IN  IF pos + n <= disk
           THEN /\ at' = "piece" /\ ssize' = n /\ j' = 0 /\ pos' = pos + n
                /\ UNCHANGED <<fileSize, i>>
           ELSE EndOfFile
    /\ UNCHANGED <<vars, clientVars, eof, data, disk, due, ghost>>

SendPieceRestarts ==
    /\ at = "send" /\ cliEnd # "reset"
    /\ \E l \in 1 .. ssize - j :
          /\ due' = due - l
          /\ ghost' = [ghost EXCEPT !.slipped = @ \/ l < ssize - j]
          /\ IF j + l < ssize
             THEN at' = "piece" /\ j' = 0 /\ UNCHANGED <<fileSize, i, ssize, pos>>
             ELSE LoopTop(i - l)
    /\ UNCHANGED <<vars, clientVars, eof, data, disk>>

\* l = send(newSd, &buffer[j], ssize - j, 0); j += l; the last l is subtracted
SendPiece ==
    /\ at = "send" /\ cliEnd # "reset"
    /\ \E l \in 1 .. ssize - j :
          /\ due' = due - l
          /\ ghost' = [ghost EXCEPT !.slipped = @ \/ l < ssize - j]
          /\ IF j + l < ssize
             THEN at' = "piece" /\ j' = j + l /\ UNCHANGED <<fileSize, i, ssize, pos>>
             ELSE LoopTop(i - l)
    /\ UNCHANGED <<vars, clientVars, eof, data, disk>>

\* l < 0: out of both loops
PieceFails ==
    /\ at = "send" /\ cliEnd = "reset"
    /\ EndOfFile
    /\ ghost' = [ghost EXCEPT !.slipped = TRUE]
    /\ UNCHANGED <<vars, clientVars, eof, data, disk, due>>

------------------------------------------------------------------------------
\* close() twice and return: to the enclave, or out of sgx_ecall if that is gone
CloseSession ==
    /\ at = "close"
    /\ (OcallReturns \/ Abandon) /\ Leave

\* What the App's thread does by itself in ocall_setup_connection
SessionCall ==
    \/ Start \/ Listen \/ Accept \/ SetupFails
    \/ RecvMessage \/ RecvNothing \/ HashRefused \/ Reply \/ Farewell \/ SigPipe
    \/ StatFile \/ OpenFile \/ SendHeader \/ ReadChunk \/ SendPiece \/ PieceFails
    \/ CloseSession

Operator == \E line \in Lines : Type(line)

World == ClientConnects \/ ClientSays \/ ClientLeaves \/ Reset \/ StdinEnds \/ FileChanges

\* The enclave and its other calls; the ocall ends with ocall_setup_connection.
EdgeStep ==
    /\ \/ \E e \in AppCalls : Ecall(e) \/ EcallOnDead(e)
       \/ Marshal \/ Function
       \/ pc # "connect" /\ Ocall
       \/ at = "out" /\ Abandon
       \/ DestroyEnclave \/ PowerLost \/ AbortOnCorruptHeap
    /\ UNCHANGED sessionVars

SessionNext == SessionCall \/ Operator \/ World \/ EdgeStep

SessionSpec == SessionInit /\ [][SessionNext]_allVars

(***************************************************************************)
(* The App's thread runs.  A client that says no more leaves some day, and *)
(* an operator who is asked again and again types "exit" some day.         *)
(***************************************************************************)
SessionFairSpec ==
    /\ SessionSpec
    /\ WF_allVars(SessionCall) /\ WF_allVars(Operator)
    /\ WF_allVars(ClientLeaves) /\ SF_allVars(Type("exit"))

------------------------------------------------------------------------------
(* Properties. *)

Item   == [text : {"hi", "ex", "it"}, last : BOOLEAN]
Ghosts == [said : BOOLEAN, glued : BOOLEAN, slipped : BOOLEAN, spoiled : BOOLEAN,
           ended : {"no", "client"}]

\* Type correctness; the connection and its data exist in a session only.
SessionTypeOK ==
    /\ at \in Ats /\ cliEnd \in {"none", "open", "closed", "reset"}
    /\ inbox \in Seq(Item) /\ Len(inbox) <= MaxInbox
    /\ eof \in BOOLEAN
    /\ data \in Lines /\ disk \in DiskSizes
    /\ fileSize \in Nat /\ i \in Nat /\ ssize \in 0..Chunk /\ j \in 0..Chunk
    /\ pos \in Nat /\ due \in Int
    /\ ghost \in Ghosts
    /\ at # "out" => outside /\ pc = "connect"

(***************************************************************************)
(* The session is what EdgeCalls takes for one ocall: whatever it does,    *)
(* also when the enclave dies meanwhile, the calls and the enclave behave  *)
(* as EdgeCalls says, so no nested ecall gets in (Enclave_t.c:468-479).    *)
(***************************************************************************)
CallsAreEdgeCalls == Spec

(***************************************************************************)
(* Each piece sent is the one the client has not had yet: the bytes that   *)
(* are due are those from buffer[j] on, however sends and reads were cut   *)
(* (App.cpp:450-469).                                                      *)
(***************************************************************************)
PiecesInOrder ==
    at \in {"piece", "send"} => j < ssize /\ due = fileSize - (pos - ssize + j)

(***************************************************************************)
(* The line that follows a file never lands where the client expects bytes *)
(* of the file, unless the file shrank or a send() fell short: then "File  *)
(* sent." is all the same and the client reads text for data.              *)
(***************************************************************************)
TextAfterFile == ghost.spoiled => ghost.slipped

\* The message "exit" waits to be received.
QuitWaits ==
    \E x \in 1 .. Len(inbox) - 1 :
       /\ inbox[x].text = "ex" /\ ~inbox[x].last
       /\ inbox[x + 1].text = "it" /\ inbox[x + 1].last
       /\ x > 1 => inbox[x - 1].last

(***************************************************************************)
(* As long as each recv() returns one message, "exit" is not overlooked:   *)
(* once said it waits to be received or has ended the session.             *)
(***************************************************************************)
QuitIsHeard ==
    ghost.said /\ ~ghost.glued /\ cliEnd # "reset" => QuitWaits \/ at = "close"

\* And nothing else is taken for it.
QuitWasSaid == ghost.ended = "client" /\ ~ghost.glued => ghost.said

\* The steps that the transfer of example.txt can still take: two for each byte
\* of a round at most, and two more.
fileVars == <<at, locals>>
RoundSteps == 2 * Chunk + 2
FileSteps ==
    CASE at = "open"   -> RoundSteps * (i + 1) + 2
      [] at = "header" -> RoundSteps * (i + 1) + 1
      [] at = "read"   -> RoundSteps * (i + 1)
      [] at = "piece"  -> RoundSteps * i + 2 * (ssize - j) + 1
      [] at = "send"   -> RoundSteps * i + 2 * (ssize - j)
      [] OTHER         -> 0

(***************************************************************************)
(* Each step of the transfer of a file leaves fewer to make, whatever      *)
(* becomes of the file, the client and the enclave: the operator is asked  *)
(* again, although i -= l may subtract too little (App.cpp:468).           *)
(***************************************************************************)
FileShrinks ==
    [][(at \in Sending \union {"open"}) => FileSteps' < FileSteps]_fileVars

(***************************************************************************)
(* A session ends, whatever the client does, unless stdin has ended: with  *)
(* it gone, an ended connection is polled for ever (App.cpp:407-425).      *)
(***************************************************************************)
SessionEnds == (at = "recv") ~> (at = "out" \/ eof)
==============================================================================
