# A specification of perf_SGX

perf_SGX measures what Intel SGX costs a file server that hashes a virtual
machine image and a matrix multiplication. These modules specify the programs it
measures: TLC checks them on small instances, TLAPS proves the safety properties
for every value of the constants.

## The system

| Part | State it keeps | Operations | What is hard about it |
| --- | --- | --- | --- |
| `File_transfer/file_server.cpp` | the loop of `transmit_image` (`i`, `j`, `l`, `buffer`, `errored`), the open image | create, bind, listen, accept; stat, read and send the image in chunks; append the time to `sc1_time.txt` | short sends, the image changing between `stat` and `read`, the client leaving, SIGPIPE |
| `File_transfer/file_client.cpp` | the loop of `receive_image` (`fileSize`, `i`, `j`, `l`, `buffer`, `errored`), the output file | connect, create the file; receive the size, receive and write chunks | segments that end anywhere, end of stream, unchecked results, disk errors |
| the TCP connection between them (external) | bytes sent, arrived and received, both ends | `send`, `recv`, close, reset | delivery at any pace and in any cut |
| `App.cpp` `initialize_enclave` | the token buffer, the token file in `$HOME` | open or create, read, create the enclave, save | runs that overlap, kills, a full disk |
| `App.cpp` `ocall_setup_connection` | a chat session with its socket, `msg`, byte counts | receive, reply, `sendfile`, `exit` | ecalls made from an ocall, unchecked results |
| edge calls: `Enclave_t.c`, `Enclave_u.c`, `Enclave.edl` | marshalled parameters, copies in the enclave's heap | ten ecalls, four ocalls | a failure between allocation, copy and call; nested calls; ten threads |
| `Enclave.cpp` SHA-256 | `ctx`, `sgx_ret`, the heap | `ecall_setup_sha256`, `ecall_update_hash` | the context's life over a sequence of calls |
| matrix multiplication: `App.cpp`, `Enclave.cpp` | `res`, loop counters | plain, per-element ecalls, `ecall_matmul_u` | ecalls that fail, NB against the fixed 256x256 copies, overflow |
| `performance_test/**/psutil_*.py` | the watched pid, the rows | find the process, sample it, write the csv at its end | the process ending or its pid being reused between two calls |

The server and the client interact through one TCP connection; everything else
they share is the convention that the size comes first and the image's bytes
follow. Runs of the App interact through the token file. The App and the enclave
call each other through the generated bridges. The monitors only look on.

What makes each part correct:

- the server sends the announced size and then the image's bytes in order, all
  of them when it reports no error, and it ends;
- the client writes a file whose bytes are the image's in order, the whole image
  when it meets no error, up to what the closing of the file could not write, and it
  ends, or its not ending has a nameable cause;
- the token file never mixes two tokens, an enclave is created from a cleared
  buffer or a token that somebody was given, and saving loses no token;
- every bridge gives back what it allocated on every path and runs its function
  on all its parameters or not at all, the status of an ecall tells whether its
  result is there, and nothing but hashing uses the enclave's heap up;
- the product over ecalls is the plain product until an ecall fails, and what a
  failure costs is confined to its cell;
- the product computed inside the enclave is the plain product too, while the
  matrices fit the copies, the floats are exact and the ecall lives;
- a session, whatever happens in it, is one ocall of the edge calls, sends the bytes
  it has announced in order and before any text, hears "exit", and ends;
- a monitor finds the process, records that process and no other, outlives it, and
  the CSV holds the rows of one monitor.

## The modules

| Module | Models |
| --- | --- |
| `TcpConnection` | the connection: external, from the calls the two programs make |
| `FileServer` | `file_server.cpp`: the constructor, `transmit_image`, `main` |
| `FileClient` | `file_client.cpp`: the constructor, `receive_image`, `main` |
| `FileTransfer` | the composition of the three, its properties and fairness |
| `FileTransferInv` | the inductive invariant |
| `FileTransferProofs` | its proof, and the theorems that follow |
| `MCFileTransfer` | values for TLC |
| `LaunchToken` | `initialize_enclave` in runs that share the token file |
| `LaunchTokenProofs` | theorems about it |
| `MCLaunchToken` | symmetry for TLC |
| `EdgeCalls` | proxies, bridges and stubs of the edge calls, the trusted functions and the enclave's heap |
| `EdgeCallsProofs` | its inductive invariant, and theorems |
| `MCEdgeCalls` | values for TLC |
| `SgxSession` | `ocall_setup_connection`, inside the ocall of `EdgeCalls` that runs it |
| `SgxSessionProofs` | that it implements `EdgeCalls`, and theorems about it |
| `MCSgxSession` | values for TLC |
| `MatMulPlain` | `mat_multiply_no_sgx` |
| `MatMulSgx` | `mat_multiply_with_sgx`, shown to follow `MatMulPlain` |
| `MatMulSgxProofs` | theorems about it |
| `MCMatMul` | values for TLC |
| `MatMulKernel` | `main`'s matrices and `ecall_matmul_u`, shown to follow `MatMulPlain` |
| `MatMulKernelProofs` | its inductive invariant, and theorems |
| `MCMatMulKernel` | values for TLC |
| `Sums` | the sum a counting loop adds up, which the two products' properties compare with |
| `SumsProofs` | induction over the natural numbers, and lemmas about sums and residues |
| `Monitors` | `psutil_sc2.py` and `psutil_sc2_system.py`, and the processes they watch |
| `MonitorsProofs` | its inductive invariants, and theorems |
| `MCMonitors` | values for TLC |

### FileTransfer and the code

`srvPc` and `cliPc` name the call each process is in. The variables are the
code's: `srvI`, `srvJ`, `srvLen` are `i`, `j` and `ssize` of `transmit_image`,
`cliI`, `cliJ`, `cliL`, `cliLen`, `cliSize` those of `receive_image`. `srvHdr` and
`cliHdr` hold the results of the header's `send()` and `recv()`, which the code
drops: nothing in the actions reads them, only properties do. `disk` is the
length of the image at this moment.

A byte is represented by where it comes from: byte `o` of the image is the number
`o`, the header's bytes are `-HdrLen .. -1`. A correct stream is then the integers
from `-HdrLen` on, and lost, repeated or misplaced bytes show as gaps, repeats or
descents. `wire` is every byte the server's `send()` calls have accepted. A
blocking `send()` is several steps: `SendTakes` (the kernel takes what there is room
for) and then a return, of everything or, with `ShortSends`, of what was taken so
far. `recv()` returns what has arrived, up to the count asked for; `Arrive` ends a
segment at any position in `Cuts`.

The code's own accounting is modelled as it is written: `i -= l` with the `l` of
the last call (`ChunkSendReturns`, `WriteChunk`), a `recv()` of 0 that leaves `j`
where it was (`RecvNothing`), an unset `fileSize` (`Decoded` chooses from `Garbage`),
a negative size that makes `ssize` negative and the inner loop empty (`NextChunk`).

An `ofstream` holds a small piece back. `out` is what `file.write` has accepted and
`saved` how much of it the file holds: a write leaves at most `StreamBuf` bytes behind
(`WriteBuffer`), and a disk error shows at a later write (`WriteFails`) or only in
`file.close()`, whose result nobody looks at (`EndOfImage`).

Left out: `transmit_file` and `receive_file`, which nothing calls; `sha256()`, whose
digest is dropped; the wording of messages; file descriptors used after a failed
`socket()` (the code tests `== 0`), which end in the failure of the next call and so
in `StartFails`.

### LaunchToken and the code

`pc[p]` names the call run `p` is in; a run's new token is represented by the run.
`fp`, `token`, `pos` are the code's `fp`, `token` and fread's count. `fopen` for reading
may fail although the file is there, and the code then goes on to `"wb"`, which empties
it (`OpenToRead`, `OpenToCreate`). `fread` is several
`read()` calls (`ReadSome`), so the file may change in between; `fwrite` fills
stdio's buffer and the only `write()` is that of `fclose` (`Save`), which a full
disk cuts short. `Killed` loses what is buffered. `sgx_create_enclave` is external:
it fails, leaves the token or replaces it. History variables record the token last
written in full (`saved`), whether a save has been cut short (`cut`), whether
runs have overlapped (`overlap`) and which could not open a file that was there
(`refused`); they only condition properties.

### EdgeCalls and the code

The bridges are generated from one template, so `ecall_table` keeps one row for each
(the lengths its buffers may have, their unit, whether they are copied back, where
the function starts) and the actions are the template's: `NothingToCopy`,
`RaggedLength`, `NoMemory` and `CopyIn` for each marshalled buffer in turn, then the
function, `CopyBack`, `FreeCopies` (the label `err`) and `Return` in the proxy. `pc`
names what comes next. `copy` holds the pointers `_in_a`, `_in_b` ... as the bytes
they point to, `heap` what is in use and for what, `result` what the enclave's copy or
`ms_retval` holds, `mem` what the App's variable holds. A buffer is its length; null
and empty are both 0, as they are to the bridges. `Lengths` contains 0, a length that
is not a whole number of ints, one int, and more than the heap. `arg` is what no bridge
looks at: the product's `NB`, and whether its `[user_check]` pointer `c` is good.

The trusted functions are a few labelled steps. `ecall_update_hash` closes the
state and keeps its address: `ctx` becomes `"freed"`. Using it again is undefined
behaviour: the allocator aborts, or the heap is `corrupt` and any later allocation
or release may abort. Each update then asks for the digest of the state it has closed,
which reads freed memory and may write to it, as some builds of the SDK finish the
hash in place (`NewDigest`). `history` records two updates in a row, failed setups and
such writes. A product with a null matrix or a bad `c` faults at its first cell; with
an `NB` above `Side` it reads past its copies and may fault or go on with what it
finds (`Fault`, `Multiply`).
The enclave may be lost to a power transition or crash at any step; the SDK's
runtime, allocator and SHA-256 are external. malloc fails when the bytes in use leave
no room, without fragmentation.

The App is one thread and makes any public ecall in any order. What the pointer
checks of the bridges would refuse is nothing the App has, so they always succeed; of
`c` there is no check.

### SgxSession and the code

`SgxSession` EXTENDS `EdgeCalls`: the enclave, its heap and the call under way are the
same variables, and `ocall_setup_connection` runs while that call stands in its ocall
(`outside`). `at` names the call the function is in. `fileSize`, `i`, `ssize` and `j` are
its locals, `pos` is how far `file.read` has got, `data` the operator's line. The
client, the operator and `example.txt` are external: they say, type and change what
they like.

`recv()` keeps no message boundaries. `inbox` holds pieces, "exit" is two of them,
and `RecvMessage` takes any number of those that wait, so that "exit" may come in
halves or together with something else. An empty `recv()`, which is what the end of
the stream and an error give, is compared like a message and answered
(`RecvNothing`).

The function hashes each line, and each byte of a file, by calling
`ecall_update_hash`. `entry_table` is `g_dyn_entry_table`, in which no ocall is
allowed an ecall; every such call is refused and its status dropped
(`HashRefused`). The bytes of one piece are refused alike, so they are one step.
`due`, the announced bytes that have not been sent, and `ghost` are history: they
record whether a `recv()` returned something other than one message, whether the file
shrank or a `send()` was short, and whether text was sent for a file's bytes.

A failed `socket()`, `bind()` or `accept()` calls `exit()` from inside the ocall, and a
`send()` on a connection that was reset raises SIGPIPE: both end the App
(`SetupFails`, `SigPipe`). A comment above the function says "this function is not the
actual implementation - ignore this" (`App.cpp:351`), and `main`'s own call of its ecall
(`App.cpp:633`) is commented out: it is the function the ocall runs all the same, and
the ecall is in the enclave's interface. The operator's lines are assumed to fit in
`msg[1500]`, into which `strcpy` copies them (`App.cpp:423`). Left out: what is
printed, and `bytesRead` and `bytesWritten`, which only the printing uses.

### MatMulSgx and the code

Both products are modelled as loops whose conditions are steps. `MultFails` and
`AddFails` are the ecalls that fail: the App ignores the status and reads the 0 it
set before, which `EdgeCalls` justifies (`StatusTellsResult`). The history variable
`lost` names the rounds of the k loop that a cell has lost.

### MatMulKernel and the code

`main` fills `a`, `b` and `c` (`Init`) and calls `ecall_matmul_u`, which goes over them as
one-dimensional arrays. `Enclave.edl` declares 256 x 256 floats, so the bridge copies
`Cap * Cap` elements of `a` and of `b` whatever `NB` is, while `c` is `user_check` and stays
the App's own. With a smaller `NB` the bridge reads beyond `a` and `b`; what it finds goes
into a part of the copies that no index reaches, and the model has no such part. With
a larger `NB` the function reads behind its copies: any member of `Junk`.

The arithmetic is that of the code on 64-bit builds, where nothing is kept in wider
registers: a product of two floats is rounded to a float, its sum with the double `tmp`
to a double, and the store to `c` to a float again (`Float` and `Double`: to the nearest,
ties to even). A float has every integer up to `Exact` (2^24), a double every one up to
`Wide` (2^53); the assumption 2 * `Cap` * `Exact` <= `Wide` holds of these with room to
spare, 2^33 against 2^53. `Ulps` are the distances of neighbours in both formats, 1 and
its doubles, up to one that is large enough for the largest sum a cell
can have: floats do not overflow here. The elements are integers, as `main`'s are.
`EcallFails` may come at any step, and `main`, which does not look at the status, then
prints what `c` holds.

`MatMulPlain` computes in ints with wrap-around and `c` in floats, so the two are
compared while no value has been above `Exact`, which is below `Modulus`.

### Monitors and the code

The modules follow `performance_test/sc2/sgx_1d`; the scripts for sc1 and in the other
folders differ in `process_name`, the CSV's name and the intervals. A process is
represented by the number of its birth, since its pid may be taken by another one.
The figures that are sampled are left out: a row is the process that had the pid
when the row was begun and when it was finished, and a row equal to the one before it
is not repeated, which bounds the rows without a limit on the scans. Every psutil
call is a step of its own, so a process can end, and its pid be taken, between
`pid_exists`, `Process(pid)` and the reading of its figures. One scan is one step.

Both scripts write `performance_sc2_r.csv`. `csv` is the set of those whose rows are in
it. The rows go out as Python's buffer fills and at the closing, at each writer's
own offset, so two writers at the same time may overwrite each other
(`WriteRows`). `own`, `reused`, `last` and `mixed` are history.

## The runs

Small sizes stand for the real ones: a header of 2 bytes for 8, chunks of 2 for
8192, socket buffers of 3, an `ofstream` that holds 1 byte back. A 5-byte image then takes two full chunks and a short
one, a send can block half way, and a segment can end inside the header, inside a
chunk and on a chunk's end, which are all the positions the code tells apart.

| Run | Checks | Shows |
| --- | --- | --- |
| `transfer_safety` | `StreamInOrder`, `CleanSendIsComplete`, `CleanReceiveIsExact`, `OutputInOrder`, `SpinHasCause`, `IInv` | with short sends, any cuts, resets, kills, disk errors and an image truncated, extended or removed at any time, no clean end hides a loss but that of an unchecked `close()`; and the proofs' invariant |
| `transfer_ends` | `ServerEnds`, `ClientEndsOrSpins`, `TransmitShrinks` | both processes end, or sit in one of the loops the code cannot leave; every step of the server's loop brings it nearer to its end |
| `loopback_completes` | `ImageArrives` | without faults and with one segment per send, as on loopback, the image arrives |
| `token_runs` | `FileHoldsOneToken`, `TokenIsWhole`, `LastTokenIsUsed`, `SavedTokenIsKept` | three runs, one after the other or overlapping, with kills, full disks and a file that cannot be opened for reading |
| `edge_calls` | `CallsReleaseAll`, `FunctionsSeeAllCopies`, `StatusTellsResult`, `MemoryOnlyLostToHashes`, `CrashHasCause`, `CorruptionHasCause`, `CallsReturn`, `CallsShrink` | any sequence of ecalls, with any `NB` and `c`, on a heap that a matrix product fills and a few hashes exhaust; every step of a call brings it nearer to its return |
| `session` | `PiecesInOrder`, `TextAfterFile`, `QuitIsHeard`, `QuitWasSaid`, `CallsAreEdgeCalls`, `SessionEnds`, `FileShrinks` | sessions with any cuts of messages and files, resets, a file that changes and an enclave that dies: each is one ocall of `EdgeCalls`, and ends |
| `matmul_ecalls` | `CellsAreSums`, `FollowsPlain` | 2 x 2 products of 3-bit ints, some of which overflow, with ecalls failing anywhere |
| `matmul_kernel` | `CellsAreNearest`, `CellsAreAccurate`, `AllOrNoneStray`, `FollowsPlain` | products of matrices smaller than the copies, as large and larger, with and without rounding, the ecall failing anywhere |
| `monitors` | `StopsOnlyAfterIt`, `RowsFollowIt`, `CsvOfLast`, `StopsAfterIt`, `FindsIt` | both monitors against processes that start, end and take pids again |

Every specification has a type invariant, and no run checks it: it is proved
(`TypeCorrect`, `TokenTypes`, `EdgeTypes`, `SessionTypes`, `MatMulTypes`, `KernelTypes`,
`MonitorsTypes`), and a slip that breaks one breaks a deeper property of the run as
well. `ReceiveShrinks`, which says of the client's loop what `TransmitShrinks` says of the
server's, is proved and in no run either.

Three runs end in a violation, each of what a comment or a message says:

| Run | Statement | What the code does |
| --- | --- | --- |
| `chunk_in_pieces` | "Receives data in to buffer until bufferSize value is met" | only the last piece of a chunk is written (`file_client.cpp:96`) |
| `missing_image` | "File size is 0" | -1 is announced (`file_server.cpp:113-124`) |
| `hash_input` | "Updates sha256 has calculation based on the input message" | the address of the pointer is hashed (`Enclave.cpp:138`) |

Three more disagreements have no run of their own. The server has the first one's
fault as well: `i` is reduced by the last piece of a chunk alone
(`file_server.cpp:142`), and `ocall_setup_connection` repeats it (`App.cpp:468`).
The client prints "File received on client!" after an error too
(`file_client.cpp:101`). And where a comment says "if there is no token, then create a
new one", a run that found no file truncates a token saved meanwhile
(`App.cpp:219`), which is why `SavedTokenIsKept` speaks of runs that do not overlap.

`CHECK_DEADLOCK FALSE` is set everywhere: processes end, and a client that spins on
a negative size is a stuttering step of the model, the App destroys its enclave and
exits, an ecall ends, monitors stop.

For the heap, two matrices fit and two with a hash do not, as in the 1 MB of
`Enclave.config.xml`; 8 units make every allocation of every bridge fail in some
state, alone and after another has succeeded. `NB` is 0, the side of the copies or one
more, which are the cases the code tells apart, with a good `c` and a bad one. A 2 x 2
product has two rounds
per cell, so that a failure can come first, last, or twice.

In `session` the file is missing, empty, or one whole chunk and a short one, and its
length changes between any of these at any step. The client says "exit",
something that contains it and something that begins like it; three pieces may wait,
so that "exit" can arrive glued to another message or in halves. The heap is the
smallest the assumptions allow: what the enclave does is `edge_calls`' subject.

In `matmul_kernel` the copies are 5 x 5 and the matrices 1 x 1, 5 x 5 and 6 x 6, below,
at and above them. A float has all integers up to 32, a double up to 512, so there are
products and sums that are exact in both, in a double only, and in neither. `Ulps` go up
to 8192, above four times the 36 places times 32. The fillings hold two values each:
`main`'s (all 1, all 2) are among them. Three roundings to 1 in 32 are 9.7 %, and sums kept in
a float would be 10.8 % off on the row 32, 31, 31, 31, 31 times a column 32, 1, 1, 1, 1: with
shorter rows they would not leave that bound.

In `monitors` two pids and two births let the watched pid be taken by another process
and a process with the right name start while another one lives.

What the passing runs say of the first two findings is not obvious: although
pieces are lost, neither loss ever goes with a normal end of the loop that lost
it. The server's `i` is then too large, so it runs into the end of the image and
sets `errored`; the client's `i` is too large as well, so it waits for bytes that do
not come. This is `CleanSendIsComplete` and `CleanReceiveIsExact`. The second speaks of
what the `ofstream` was given: without an error the file may still lack the bytes that
were held back until `file.close()`, up to `StreamBuf` of them, when the disk fails
there, and lacks none when it does not. Of the file after a failed write nothing is
claimed. It needs
the whole header to have gone out in one `send` and come in with one `recv`, and the
image not to grow (the history variable `grew`): a longer image could feed the
client the missing count.

`TokenIsWhole` holds until a save is cut short, `LastTokenIsUsed` and
`SavedTokenIsKept` for runs that do not overlap, the latter but for a run that could not
open the file for reading. `CrashHasCause` names what an App has to see to itself: `NB`,
`c`, null matrices and empty result buffers. `CorruptionHasCause` shows, as far as the SDK
leaves a closed state alone, that an App that sets up a state before each update is still not safe: the digests that are
never deleted fill the heap, `sgx_sha256_init` fails, `ecall_setup_sha256` does not
say so, and the next update uses the state closed before.

### Fairness

`FairSpec` assumes weak fairness of each process's calls and of `Arrive`: the
operating system schedules both processes and TCP retransmits. A process has at
most one call to make, so one weak fairness condition for each is enough. Nothing
is assumed of kills, resets, disk errors or changes of the image. What fairness
cannot give, and the code has to, is that its steps lead somewhere. This is in
`TransmitShrinks`, `ReceiveShrinks`, `CallsShrink` and `FileShrinks`: each counts the
steps that are left in a loop or in a call and says that every step takes some
away. They assume no fairness, and they are proved.

`ServerEnds` has an exception, a client with a negative count: it never receives and
never leaves, and the server's `send` stays blocked. `ClientEndsOrSpins` names the
two loops a client may stay in: polling an ended stream, and a negative count.

`FairSpec` of `EdgeCalls` assumes weak fairness of the one thread's own steps.
`CallsReturn` leaves out `ocall_setup_connection`, which waits for a client.

`SessionFairSpec` assumes weak fairness of the thread's own calls and of the operator,
who answers a prompt; of the client's leaving, without which the last `recv()` may
wait for ever; and strong fairness of typing "exit", because a prompt is left after
every line: an operator who is asked again and again some day ends the
session. Nothing is assumed of the file, the messages or the reset. `SessionEnds` needs
the last assumption: after the client has gone `recv()` returns at once, and the
loop prompts on until the operator or a missing file ends it. Once stdin has
ended no "exit" can be typed, and that is the exception the property makes.

`FairSpec` of `Monitors` assumes weak fairness of each monitor's loop and nothing of the
processes or the operator. `StopsAfterIt` has two exceptions, a monitor that is killed
and one whose pid another process has taken; `FindsIt` is about a process that keeps
running, since one that ends before a scan sees it is never found.

## The proofs

`FileTransferProofs` proves for all chunk, header and buffer sizes, all cuts and
all faults:

- `Inductive`: `IInv` always holds;
- `TypeCorrect`, `StreamStaysInOrder`, `CleanSendsAreComplete`, `OutputStaysInOrder`
  and `SpinsHaveACause`: the safety properties of `transfer_safety`;
- `CleanReceivesAreExact`: `CleanReceiveIsExact`;
- `TransmissionShrinks`: `TransmitShrinks`, and `ReceptionShrinks`: `ReceiveShrinks`.

None of the safety properties is inductive. Two relations carry the proof. For the server,
`srvI >= fileSize - srvPos` at the top of the loop, and in the middle of a chunk the
same with the chunk added: subtracting the last piece can only leave `i` too
large, so `i = 0` means that everything has been read, and `srvJ = srvLen` that it
has been sent. For the client, `HdrLen + Len(out) + Pending <= rcvd`, with the
content of `out` and `buffer` known exactly when the two are equal: dropping bytes
puts the output behind the stream for good, and the end of the loop, which
needs `Len(out) = fileSize`, then needs more than `fileSize` bytes to have been
received, which the server, having announced `fileSize`, does not send
(`ImageBound`). Flags and control points are proved first (`FlagsInvariant`)
and apart from the counters. Then comes one lemma per action that touches the
stream or the output (`SendTakesInv`, `RecvHeaderInv`, `RecvDataInv`,
`WriteChunkInv`), one for the others of each process, and `InvNext` puts them
together.

`LoopSteps` is what a loop over chunks has left: a fixed number of steps for each
byte that is still counted, which is enough for a chunk. It falls because each chunk
takes at least one byte off the count, which is all that `i -= l` of a last piece can
promise (`LoopStepsFall`). For the client this is `ChunkInv`: with a positive count a
chunk is written only after a piece of 1 or more. `ReceiveShrinks` leaves out exactly
the two loops that `ClientEndsOrSpins` excepts: the empty `recv()` and the negative count.

The assumptions are those on the constants in `TcpConnection`, `FileServer`
and `FileClient`.

`LaunchTokenProofs` proves, for any number of runs and any token size,
`TokenTypes`, `FileNeverMixes`, `TokensAreWhole`, `SavedTokensAreKept` and
`LastTokensAreUsed`. The
invariant `TokenInv` adds that a run about to save holds its own token; the key
lemma is `Saved`: the one write leaves a prefix of that token and nothing of the
content before it. `AllOrNothing` adds that, until a save is cut short, the file and
fread's count are empty or whole; `OneByOne` that, without overlap, at most one run
is under way, and a run about to create the file finds nothing in it or could not open
it; `LastToken`
that a file of full length then holds the token last saved, and that the run reading
it has read nothing yet or all of it.

`EdgeCallsProofs` proves, for every size of the heap, the matrices, the states and
the digests, and for all lengths the App may pass, every safety property of
`edge_calls`. They need two assumptions of `HeapAssumption`: two matrices fit in the
heap, and so does a digest with the byte that is copied for it. `EdgeInv` follows the
bridge from label to label: which copies exist and what they add up to
(`Marshalled`), that the labels are those of the call's own function (`CallsMatch`),
where the result is (`ResultSoFar`), that `ctx` points to memory that is accounted for
(`HeapInv`), and that a stale `ctx` is one that no setup has renewed (`HashInv`). `Table`
states once what the ten rows have in common, so that no later step looks at them.
`CallsGetShorter` is `CallsShrink`, and `CallsAreShort` says that a call takes at most 25
steps, counting an ocall as its beginning and its end: `Stage` numbers the labels
from the copying of the first buffer down to the return, and an enclave ends once.

`MatMulSgxProofs` proves `MatMulTypes` and `ProductFollowsPlain` for all sizes, all
matrices and every modulus: until an ecall fails, `point1` is the product of its
round (`PointInv`), so each `add_enclave` is a step of `MatMulPlain` and each
`mult_enclave` a stuttering one. `FinishedCellsAreSums` is `CellsAreSums`, which speaks
of failing ecalls too. Its invariant `SumsInv` says of the cell in work that it is the
sum of the rounds so far without those in `lost`, of a finished one that it is the
whole sum and of the others that they have lost nothing (`CellInv`). Whether a residue
is taken in each round or once at the end makes no difference (`ResidueOfSum`).

`SumsProofs` serves this proof and the next. The library's induction theorems take
an operator, so induction is stated here for sets (`NatSetInduction`) and follows from
the well-foundedness of `<`: a set of naturals has a least one. With it, the
recursion in `Sum` is shown to have a solution (`SumsExist`, `SumsAgree`), which gives the
equation for one more term (`SumStep`), and from that the lemmas on types, bounds,
equal terms and errors of sums.

`SgxSessionProofs` proves for all chunk sizes, files, messages and cuts first
`SessionRefinesCalls`: every step of a session is a step of `EdgeCalls` or leaves its
variables alone. `EdgeCalls` is thereby the abstract specification of the ocall, and
what `EdgeCallsProofs` shows holds during a session (`SessionEdgeInv`). For
`SessionTypes`, `PiecesStayInOrder` and `TextComesAfterFile` the invariant is
`SessionInv`: `Offsets` relates `due` to `pos`, `ssize` and `j` inside a chunk, and
`InStep` says that `i` is `due` as long as nothing has slipped, so that the loop ends
with nothing due. `QuitsAreHeard` and `QuitsWereSaid` follow from `QuitInv`: what
waits ends with a whole message unless the connection was reset, and an "exit"
that waits has been said. `TransfersShrink` is `FileShrinks`: whatever becomes of the file,
the client and the enclave, a transfer ends and the operator is asked again.
`SessionsKeepPromises` draws what the refinement is for: `CallsReleaseAll`,
`StatusTellsResult` and `CallsShrink` hold of a specification whose ocall is a whole
session, where no step of the session makes the enclave's call longer.

`MatMulKernelProofs` proves `KernelTypes`, `StraysAreAllOrNone` and `KernelFollowsPlain`
for every side, every `Cap`, all fillings and every precision of the two formats. `KernelInv` adds to the
types that `written` counts the cells behind the loops' place (`Progress`), that
`tmp` is at most `Exact` until a value is `big` (`Precise`), and which cells
have strayed (`Strays`). The lemmas before it are the arithmetic of rows and columns:
a place in the square is one row and one column, and with an `NB` above `Cap` each cell
needs an index of `Cap * Cap` or more.

`CellsAreRoundedOnce` (`CellsAreNearest`) and `CellsAreWithinThreeRoundings`
(`CellsAreAccurate`) need `Summed`: `tmp` is `Close` to the sum of the rounded products so
far, equal to it while a double holds it and off by at most two parts in `Wide` for each
of them otherwise. A product more adds no more than that (`OneMoreProduct`), and with no
more than `Cap` of them the assumption 2 * `Cap` * `Exact` <= `Wide` keeps all these errors
below one part in `Exact` (`SumIsClose`): this is what the double is worth. `RoundIsClose`
says that a rounding is off by no more than one part in the largest integer its format
has all integers up to, as the distance of its numbers is never twice as large as it has
to be (`UlpIsTight`) and the nearest one no more than half of it away (`NearestIsNear`);
`SumError` that the errors of the products add up no faster than the products;
`ThreeRoundings` puts the errors of the products, the sums and the store together. That
no value lies beyond the largest number is `RangeOfSums`, from the assumption on `Ulps`.

`MonitorsProofs` proves `MonitorsTypes`, `StopsAreJustified`, `CsvIsOfLast` and
`RowsFollowTheProcess` for any pids and any number of processes. `MonitorsInv` adds
that a process has one pid (`OnePid`), that a monitor past its scan has found one
(`Found`), that its pid is that process's or nobody's until it is in `reused`
(`Taken`), and who may be writing (`WritesAlone`). `RowsInv` carries the rows: what
has been sampled so far, and that the row in work is of the process found.

Only model-checked are the liveness properties: `ServerEnds`, `ClientEndsOrSpins`,
`ImageArrives`, `CallsReturn`, `SessionEnds`, `StopsAfterIt` and `FindsIt`. They rest on
fairness, and so on ENABLED, of which TLAPS proves nothing here. For the loops of
the two programs, the calls and the transfer of a file the other half is proved,
that no run of their steps goes on for ever (of the client's, but for its two loops).
Every other property of every passing
run is a theorem.

## Not modelled

Every part of the system that keeps state has its module. What is left out, and why:

- `transmit_file` and `receive_file`, which nothing calls: so `file_server` and
  `file_client` count as modelled in part. The same loops, as they are called, are in
  `FileServer`, `FileClient` and `SgxSession`.
- The digest that `file_server.cpp:157` computes over `strlen` of a binary buffer: it is
  dropped, so nothing can depend on which bytes it covers.
- What only shows in a report: the time that is appended to `sc1_time.txt` after a
  failed transfer too (`file_server.cpp:181`), and the message after a failed receive
  (`file_client.cpp:101`). `errored` is in the model; no code reads it.
- The figures the monitors sample, and the wording of everything printed.
- `print_error_message` (a table look-up that prints), `Matmul/matmul.cpp` (the loop of
  `mat_multiply_no_sgx` again), `Matmul/mat-mat.cc` (does not compile), `file_size.cpp`
  (prints one `stat`), the build files, and the code in `App.cpp` that is commented
  out (`SendBuffer`, `SendFile`, `RecvBuffer` and their callers).

Two abstract specifications were considered and not written. One of a whole
transfer (the output is a prefix of the image, and finally the image) would say again
what `OutputInOrder` and `CleanReceiveIsExact` say: with pieces lost the detailed system
implements it only up to the first loss. One of a single ecall (it fails and changes
nothing, or succeeds and delivers) would say again what `StatusTellsResult` and
`FunctionsSeeAllCopies` say. The abstract specifications that remain are `EdgeCalls`
for a session and `MatMulPlain` for the two products of the enclave.
