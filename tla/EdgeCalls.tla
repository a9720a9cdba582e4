------------------------------ MODULE EdgeCalls ------------------------------
(***************************************************************************)
(* The calls between the App and its enclave: the proxies of Enclave_u.c,  *)
(* the bridges of Enclave_t.c, the trusted functions of Enclave.cpp that   *)
(* they call, and the heap these share.                                    *)
(*                                                                         *)
(* The App has one thread and makes any public ecall at any time.  A       *)
(* buffer is its length: 0 stands for a null pointer and for a zero        *)
(* length, which every bridge treats alike.  The App passes pointers to    *)
(* its own memory, so the pointer checks of the bridges succeed; c of      *)
(* ecall_matmul_u is [user_check], and no bridge looks at it.              *)
(*                                                                         *)
(* Undefined behaviour: an update of a SHA state that has been freed       *)
(* writes to freed memory and frees it again.  Either the allocator        *)
(* notices and aborts, or the heap is corrupt from then on and any later   *)
(* malloc or free may abort.  The digest of a freed state is read from     *)
(* freed memory, which some builds of the SDK write to as well.  A read    *)
(* past the copies of the matrices faults or finds something.              *)
(***************************************************************************)
EXTENDS Naturals

CONSTANTS
    HeapMaxSize,  \* of Enclave.config.xml
    MatrixBytes,  \* 65536 * sizeof(float)
    Side,         \* 256, the side of the matrices that many floats hold
    Sides,        \* the NB the App may give, 0 for each that is not positive
    IntBytes,     \* sizeof(int)
    StateBytes,   \* a SHA-256 state of the SDK
    DigestBytes,  \* SGX_SHA256_HASH_SIZE
    Lengths       \* the lengths the App may give for strings and results

ASSUME HeapAssumption ==
    /\ {HeapMaxSize, MatrixBytes, IntBytes, StateBytes, DigestBytes} \subseteq Nat \ {0}
    /\ Lengths \subseteq Nat /\ Side \in Nat /\ Sides \subseteq Nat
    /\ 2 * MatrixBytes <= HeapMaxSize /\ 1 + DigestBytes <= HeapMaxSize

VARIABLES
    pc,       \* what the call under way does next
    call,     \* the last ecall made
    len,      \* its marshalled buffers' lengths
    arg,      \* NB, and whether c points to NB * NB floats
    copy,     \* bytes allocated for the copy of each (_in_a, _in_b ...), 0 if null
    heap,     \* bytes of the enclave's heap in use, by purpose
    status,   \* the status the bridge is going to return
    result,   \* the result in the enclave's copy, or in ms_retval
    mem,      \* the result in the App's memory
    outside,  \* an ocall is running in the App
    ms,       \* sgx_ocalloc's frame on the untrusted stack is in use
    ctx,      \* what the global ctx points to
    hashed,   \* what the state at ctx has absorbed
    enclave,  \* state of the enclave
    corrupt,  \* the heap's structures have been overwritten
    history   \* ghost: what has led here

state == <<heap, ctx, hashed, corrupt, history>>
vars == <<pc, call, len, arg, copy, status, result, mem, outside, ms, enclave, state>>

------------------------------------------------------------------------------
(* What edger8r has generated for each trusted function: the lengths its   *)
(* two buffers may have, their unit, whether the buffer is copied back,    *)
(* and the label of the function's first step.                             *)

sgx_ecall_matmul_u ==
    [a |-> {0, MatrixBytes}, b |-> {0, MatrixBytes}, unit |-> 1, out |-> FALSE,
     body |-> "multiply"]
sgx_mult_enclave ==
    [a |-> {0}, b |-> {0}, unit |-> 1, out |-> FALSE, body |-> "compute"]
sgx_add_enclave ==
    [a |-> {0}, b |-> {0}, unit |-> 1, out |-> FALSE, body |-> "compute"]
sgx_add_in_enclave ==
    [a |-> Lengths, b |-> {0}, unit |-> IntBytes, out |-> TRUE, body |-> "print"]
sgx_sub_in_enclave ==
    [a |-> Lengths, b |-> {0}, unit |-> IntBytes, out |-> TRUE, body |-> "print"]
sgx_e_call_hello ==
    [a |-> Lengths, b |-> {0}, unit |-> 1, out |-> FALSE, body |-> "pass"]
sgx_e_call_bytes ==
    [a |-> Lengths, b |-> {0}, unit |-> 1, out |-> FALSE, body |-> "pass"]
sgx_e_call_setup_connection ==
    [a |-> {0}, b |-> {0}, unit |-> 1, out |-> FALSE, body |-> "connect"]
sgx_ecall_update_hash ==
    [a |-> {0, 1}, b |-> {0}, unit |-> 1, out |-> FALSE, body |-> "update"]
sgx_ecall_setup_sha256 ==
    [a |-> {0}, b |-> {0}, unit |-> 1, out |-> FALSE, body |-> "init"]

ecall_table ==
    [ecall_matmul_u          |-> sgx_ecall_matmul_u,
     mult_enclave            |-> sgx_mult_enclave,
     add_enclave             |-> sgx_add_enclave,
     add_in_enclave          |-> sgx_add_in_enclave,
     sub_in_enclave          |-> sgx_sub_in_enclave,
     e_call_hello            |-> sgx_e_call_hello,
     e_call_bytes            |-> sgx_e_call_bytes,
     e_call_setup_connection |-> sgx_e_call_setup_connection,
     ecall_update_hash       |-> sgx_ecall_update_hash,
     ecall_setup_sha256      |-> sgx_ecall_setup_sha256]

Ecalls  == DOMAIN ecall_table
Bridge  == ecall_table[call]
NoArg   == [NB |-> 0, c |-> TRUE]
Params  == {"a", "b"}
Ocalls  == {"print", "report", "pass", "connect", "show"}
Bodies  == Ocalls \union
           {"multiply", "product", "compute", "store", "update", "new", "init"}
Pcs     == {"idle", "back", "err", "return"} \union Params \union Bodies
Uses    == {"params", "state", "digest"}
Dead    == [crashed |-> "ENCLAVE_CRASHED", lost |-> "ENCLAVE_LOST"]

Used     == heap["params"] + heap["state"] + heap["digest"]
Fits(n)  == Used + n <= HeapMaxSize
Malloc(use, n) == heap' = [heap EXCEPT ![use] = @ + n]

Init ==
    /\ pc = "idle" /\ call = "e_call_hello" /\ status = "SUCCESS"
    /\ len = [p \in Params |-> 0] /\ copy = [p \in Params |-> 0] /\ arg = NoArg
    /\ heap = [u \in Uses |-> 0]
    /\ result = "junk" /\ mem = "old"
    /\ outside = FALSE /\ ms = FALSE
    /\ ctx = "null" /\ hashed = "nothing"
    /\ enclave = "up" /\ corrupt = FALSE
    /\ history = [updated |-> FALSE, misused |-> FALSE, initFailed |-> FALSE,
                  wrote |-> FALSE]

------------------------------------------------------------------------------
(* The App's side. *)

\* a proxy fills ms in and enters the enclave; ms_retval is not initialised
Ecall(e) ==
    /\ pc = "idle" /\ enclave = "up"
    /\ call' = e
    /\ \E x \in ecall_table[e].a, y \in ecall_table[e].b :
          len' = [p \in Params |-> IF p = "a" THEN x ELSE y]
    /\ arg' \in IF e = "ecall_matmul_u" THEN [NB : Sides, c : BOOLEAN] ELSE {NoArg}
    /\ pc' = "a" /\ status' = "SUCCESS"
    /\ result' = "junk" /\ mem' = "old"
    /\ history' = [history EXCEPT !.updated = @ /\ e # "ecall_setup_sha256"]
    /\ UNCHANGED <<copy, outside, ms, enclave, heap, ctx, hashed, corrupt>>

\* sgx_ecall does not get into an enclave that has crashed or been lost
EcallOnDead(e) ==
    /\ pc = "idle" /\ enclave \in DOMAIN Dead
    /\ call' = e /\ len' = [p \in Params |-> 0] /\ arg' = NoArg
    /\ status' = Dead[enclave] /\ mem' = "old"
    /\ UNCHANGED <<pc, copy, result, outside, ms, enclave, state>>

\* the proxy returns; mult_enclave's and add_enclave's hand ms_retval over
Return ==
    /\ pc = "return" /\ enclave = "up"
    /\ pc' = "idle"
    /\ mem' = IF status = "SUCCESS" /\ Bridge.body = "compute" THEN result ELSE mem
    /\ UNCHANGED <<call, len, arg, copy, status, result, outside, ms, enclave, state>>

AbandonCrashed ==
    /\ pc # "idle" /\ enclave = "crashed"
    /\ pc' = "idle" /\ status' = Dead[enclave]
    /\ outside' = FALSE /\ ms' = FALSE
    /\ UNCHANGED <<call, len, arg, copy, result, mem, enclave, state>>

\* sgx_ecall returns from an enclave that died during the call
Abandon ==
    /\ pc # "idle" /\ enclave \in DOMAIN Dead
    /\ pc' = "idle" /\ status' = Dead[enclave]
    /\ outside' = FALSE /\ ms' = FALSE
    /\ UNCHANGED <<call, len, arg, copy, result, mem, enclave, state>>

\* main's sgx_destroy_enclave
DestroyEnclave ==
    /\ pc = "idle" /\ enclave # "gone"
    /\ enclave' = "gone"
    /\ UNCHANGED <<pc, call, len, arg, copy, status, result, mem, outside, ms, state>>

\* SGX_ERROR_ENCLAVE_LOST: a power transition takes the enclave away
PowerLost ==
    /\ enclave = "up"
    /\ enclave' = "lost"
    /\ UNCHANGED <<pc, call, len, arg, copy, status, result, mem, outside, ms, state>>

------------------------------------------------------------------------------
(* The bridges: copies in, the function, copies back, free.               *)

\* to the next of the marshalled buffers, or to the function
After(p) == IF p = "a" THEN "b" ELSE Bridge.body

\* goto err
Fail(s) == status' = s /\ pc' = "err"

NothingToCopy(p) ==
    /\ pc = p /\ enclave = "up" /\ len[p] = 0
    /\ pc' = After(p)
    /\ UNCHANGED <<call, len, arg, copy, status, result, mem, outside, ms, enclave, state>>

RaggedLength(p) ==
    /\ pc = p /\ enclave = "up" /\ len[p] % Bridge.unit # 0
    /\ Fail("INVALID_PARAMETER")
    /\ UNCHANGED <<call, len, arg, copy, result, mem, outside, ms, enclave, state>>

NoMemoryGoesOn(p) ==
    /\ pc = p /\ enclave = "up" /\ len[p] % Bridge.unit = 0 /\ ~Fits(len[p])
    /\ status' = "OUT_OF_MEMORY" /\ pc' = After(p)
    /\ UNCHANGED <<call, len, arg, copy, result, mem, outside, ms, enclave, state>>

NoMemoryRetries(p) ==
    /\ pc = p /\ enclave = "up" /\ len[p] % Bridge.unit = 0 /\ ~Fits(len[p])
    /\ status' = "OUT_OF_MEMORY"
    /\ UNCHANGED <<pc, call, len, arg, copy, result, mem, outside, ms, enclave, state>>

NoMemory(p) ==
    /\ pc = p /\ enclave = "up" /\ len[p] # 0
    /\ len[p] % Bridge.unit = 0 /\ ~Fits(len[p])
    /\ Fail("OUT_OF_MEMORY")
    /\ UNCHANGED <<call, len, arg, copy, result, mem, outside, ms, enclave, state>>

\* malloc, then memcpy_s for [in] and memset for [out]; memcpy_s and the
\* check of a string's end may fail
CopyIn(p) ==
    /\ pc = p /\ enclave = "up" /\ len[p] # 0
    /\ len[p] % Bridge.unit = 0 /\ Fits(len[p])
    /\ Malloc("params", len[p])
    /\ copy' = [copy EXCEPT ![p] = len[p]]
    /\ \/ pc' = After(p) /\ UNCHANGED status
       \/ ~Bridge.out /\ Fail("UNEXPECTED")
    /\ result' = IF Bridge.out THEN "zeros" ELSE result
    /\ UNCHANGED <<call, len, arg, mem, outside, ms, enclave, ctx, hashed, corrupt,
                   history>>

CopyBackUnchecked ==
    /\ pc = "back" /\ enclave = "up"
    /\ mem' \in IF Bridge.out /\ copy["a"] # 0 THEN {result, mem} ELSE {mem}
    /\ pc' = "err"
    /\ UNCHANGED <<call, len, arg, copy, status, result, outside, ms, enclave, state>>

\* memcpy_s to the App's buffer
CopyBack ==
    /\ pc = "back" /\ enclave = "up"
    /\ \/ Bridge.out /\ copy["a"] # 0 /\ mem' = result /\ UNCHANGED status
       \/ Bridge.out /\ copy["a"] # 0 /\ status' = "UNEXPECTED" /\ UNCHANGED mem
       \/ (~Bridge.out \/ copy["a"] = 0) /\ UNCHANGED <<mem, status>>
    /\ pc' = "err"
    /\ UNCHANGED <<call, len, arg, copy, result, outside, ms, enclave, state>>

FreeFirstCopy ==
    /\ pc = "err" /\ enclave = "up"
    /\ heap' = [heap EXCEPT !["params"] = @ - copy["a"]]
    /\ copy' = [p \in Params |-> 0]
    /\ pc' = "return"
    /\ UNCHANGED <<call, len, arg, status, result, mem, outside, ms, enclave,
                   ctx, hashed, corrupt, history>>

\* err: every copy that was made is freed
FreeCopies ==
    /\ pc = "err" /\ enclave = "up"
    /\ heap' = [heap EXCEPT !["params"] = @ - (copy["a"] + copy["b"])]
    /\ copy' = [p \in Params |-> 0]
    /\ pc' = "return"
    /\ UNCHANGED <<call, len, arg, status, result, mem, outside, ms, enclave,
                   ctx, hashed, corrupt, history>>

------------------------------------------------------------------------------
(* The trusted functions. *)

\* What a product needs that has any cell: both matrices, and a c it may store to.
CanMultiply == copy["a"] # 0 /\ copy["b"] # 0 /\ arg.c

\* ecall_matmul_u: c is [user_check], its elements are the App's memory; with an NB
\* above Side the matrices are read past their copies
Multiply ==
    /\ pc = "multiply" /\ enclave = "up"
    /\ arg.NB > 0 => CanMultiply
    /\ mem' = "partial" /\ pc' = "product"
    /\ UNCHANGED <<call, len, arg, copy, status, result, outside, ms, enclave, state>>

LastProduct ==
    /\ pc = "product" /\ enclave = "up"
    /\ mem' = "new" /\ pc' = "back"
    /\ UNCHANGED <<call, len, arg, copy, status, result, outside, ms, enclave, state>>

\* mult_enclave and add_enclave return their value
Compute ==
    /\ pc = "compute" /\ enclave = "up"
    /\ result' = "new" /\ pc' = "back"
    /\ UNCHANGED <<call, len, arg, copy, status, mem, outside, ms, enclave, state>>

\* *sum = num1 + num2, between two calls of printf
Store ==
    /\ pc = "store" /\ enclave = "up" /\ copy["a"] # 0
    /\ result' = "new" /\ pc' = "report"
    /\ UNCHANGED <<call, len, arg, copy, status, mem, outside, ms, enclave, state>>

\* an access through a null pointer, a bad c, or past the heap that is mapped
Fault ==
    /\ enclave = "up"
    /\ \/ pc = "multiply" /\ arg.NB > 0 /\ ~CanMultiply
       \/ pc \in {"multiply", "product"} /\ arg.NB > Side
       \/ pc = "store" /\ copy["a"] = 0
    /\ enclave' = "crashed"
    /\ UNCHANGED <<pc, call, len, arg, copy, status, result, mem, outside, ms, state>>

SetupOnce ==
    /\ pc = "init" /\ enclave = "up"
    /\ \/ /\ ctx = "null" /\ Fits(StateBytes) /\ Malloc("state", StateBytes)
          /\ ctx' = "live" /\ hashed' = "nothing" /\ UNCHANGED history
       \/ /\ ctx # "null" /\ UNCHANGED <<heap, ctx, hashed, history>>
       \/ /\ ~Fits(StateBytes)
          /\ history' = [history EXCEPT !.initFailed = TRUE]
          /\ UNCHANGED <<heap, ctx, hashed>>
    /\ pc' = "back"
    /\ UNCHANGED <<call, len, arg, copy, status, result, mem, outside, ms, enclave, corrupt>>

\* ecall_setup_sha256: sgx_sha256_init allocates a state and sets ctx to it,
\* or leaves ctx alone; its error stays in sgx_ret
SetupSha256 ==
    /\ pc = "init" /\ enclave = "up"
    /\ \/ /\ Fits(StateBytes) /\ Malloc("state", StateBytes)
          /\ ctx' = "live" /\ hashed' = "nothing" /\ UNCHANGED history
       \/ /\ ~Fits(StateBytes)
          /\ history' = [history EXCEPT !.initFailed = TRUE]
          /\ UNCHANGED <<heap, ctx, hashed>>
    /\ pc' = "back"
    /\ UNCHANGED <<call, len, arg, copy, status, result, mem, outside, ms, enclave, corrupt>>

\* ecall_update_hash: sgx_sha256_update is given the address of the pointer;
\* then the state is closed, and ctx keeps its address
UpdateHash ==
    /\ pc = "update" /\ enclave = "up"
    /\ history' = [history EXCEPT !.updated = TRUE, !.misused = @ \/ history.updated]
    /\ \/ /\ ctx = "live"
          /\ ctx' = "freed" /\ hashed' = "pointer"
          /\ heap' = [heap EXCEPT !["state"] = @ - StateBytes]
          /\ UNCHANGED <<corrupt, enclave>>
       \/ /\ ctx = "freed"
          /\ corrupt' = TRUE /\ enclave' \in {"up", "crashed"}
          /\ UNCHANGED <<ctx, hashed, heap>>
       \/ /\ ctx = "null"
          /\ UNCHANGED <<ctx, hashed, heap, corrupt, enclave>>
    /\ pc' = "new"
    /\ UNCHANGED <<call, len, arg, copy, status, result, mem, outside, ms>>

\* new char[32], never deleted, for sgx_sha256_get_hash of the closed state, which
\* may finish the hash in place; bad_alloc ends in abort()
NewDigest ==
    /\ pc = "new" /\ enclave = "up"
    /\ \/ /\ Fits(DigestBytes)
          /\ Malloc("digest", DigestBytes)
          /\ pc' = "show"
          /\ \/ UNCHANGED <<corrupt, history>>
             \/ /\ ctx = "freed"
                /\ corrupt' = TRUE
                /\ history' = [history EXCEPT !.wrote = TRUE]
          /\ UNCHANGED enclave
       \/ ~Fits(DigestBytes) /\ enclave' = "crashed"
          /\ UNCHANGED <<heap, pc, corrupt, history>>
    /\ UNCHANGED <<call, len, arg, copy, status, result, mem, outside, ms, ctx, hashed>>

\* malloc and free on a corrupt heap may abort
AbortOnCorruptHeap ==
    /\ corrupt /\ enclave = "up"
    /\ \/ pc \in {"init", "new"}
       \/ pc \in Params /\ len[pc] # 0
       \/ pc = "err" /\ \E p \in Params : copy[p] # 0
    /\ enclave' = "crashed"
    /\ UNCHANGED <<pc, call, len, arg, copy, status, result, mem, outside, ms, state>>

------------------------------------------------------------------------------
(* Ocalls.  The trusted functions drop the status of each. *)

\* where the function goes on after an ocall
Resume == [print |-> "store", report |-> "back", pass |-> "back", connect |-> "back",
           show |-> "back"]

\* sgx_ocalloc and the copy of the arguments succeed and the App's function
\* starts; ocall_setup_connection has no arguments
OcallStarts ==
    /\ pc \in Ocalls /\ enclave = "up" /\ ~outside
    /\ outside' = TRUE /\ ms' = (pc # "connect")
    /\ UNCHANGED <<pc, call, len, arg, copy, status, result, mem, enclave, state>>

\* sgx_ocalloc or memcpy_s fails: sgx_ocfree, and an error nobody looks at
OcallFails ==
    /\ pc \in Ocalls \ {"connect"} /\ enclave = "up" /\ ~outside
    /\ pc' = Resume[pc]
    /\ UNCHANGED <<call, len, arg, copy, status, result, mem, outside, ms, enclave, state>>

OcallReturns ==
    /\ outside /\ enclave = "up"
    /\ outside' = FALSE /\ ms' = FALSE
    /\ pc' = Resume[pc]
    /\ UNCHANGED <<call, len, arg, copy, status, result, mem, enclave, state>>

\* ocall_setup_connection gives up on its socket with exit()
AppExits ==
    /\ outside /\ pc = "connect"
    /\ outside' = FALSE /\ pc' = "idle" /\ enclave' = "gone"
    /\ UNCHANGED <<call, len, arg, copy, status, result, mem, ms, state>>

------------------------------------------------------------------------------
Marshal ==
    \/ \E p \in Params : NothingToCopy(p) \/ RaggedLength(p) \/ NoMemory(p) \/ CopyIn(p)
    \/ CopyBack \/ FreeCopies \/ Return

Function ==
    \/ Multiply \/ LastProduct \/ Compute \/ Store \/ Fault
    \/ SetupSha256 \/ UpdateHash \/ NewDigest

Ocall == OcallStarts \/ OcallFails \/ OcallReturns

\* what the call under way does by itself
Progress == Marshal \/ Function \/ Abandon \/ (pc # "connect" /\ Ocall)

Next ==
    \/ \E e \in Ecalls : Ecall(e) \/ EcallOnDead(e)
    \/ Marshal \/ Function \/ Ocall \/ Abandon
    \/ DestroyEnclave \/ PowerLost \/ AppExits \/ AbortOnCorruptHeap

Spec == Init /\ [][Next]_vars

\* the thread that made the call goes on running
FairSpec == Spec /\ WF_vars(Progress)

------------------------------------------------------------------------------
(* Properties. *)

\* Type correctness of the bridges' and the trusted functions' state.
TypeOK ==
    /\ pc \in Pcs /\ call \in Ecalls
    /\ len \in [Params -> Nat] /\ copy \in [Params -> Nat]
    /\ arg \in [NB : Nat, c : BOOLEAN]
    /\ heap \in [Uses -> Nat]
    /\ status \in {"SUCCESS", "INVALID_PARAMETER", "OUT_OF_MEMORY", "UNEXPECTED",
                   "ENCLAVE_LOST", "ENCLAVE_CRASHED"}
    /\ result \in {"junk", "zeros", "new"} /\ mem \in {"old", "partial", "new"}
    /\ outside \in BOOLEAN /\ ms \in BOOLEAN
    /\ ctx \in {"null", "live", "freed"} /\ hashed \in {"nothing", "message", "pointer"}
    /\ enclave \in {"up", "crashed", "lost", "gone"} /\ corrupt \in BOOLEAN
    /\ history \in [updated : BOOLEAN, misused : BOOLEAN, initFailed : BOOLEAN,
                   wrote : BOOLEAN]

Alive == enclave = "up"

\* Whichever way a bridge takes to its end, no copy of a parameter and no
\* frame of an ocall outlives the call.
CallsReleaseAll == pc = "idle" /\ Alive => heap["params"] = 0 /\ ~ms

\* A trusted function runs only on a complete set of copies: one failed
\* malloc or copy keeps it from running at all.
FunctionsSeeAllCopies ==
    pc \in Bodies /\ Alive => \A p \in Params : copy[p] = len[p]

\* The functions that hand a result back to the App.
HasResult == Bridge.body \in {"multiply", "compute", "print"}

\* What a status tells the caller, who has set its result to a known value:
\* after success the result is there, after a failure the old value is.  Only
\* a dying enclave may have written to memory it shares, and not even that
\* spoils mult_enclave and add_enclave, which the product relies on.
StatusTellsResult ==
    pc = "idle" =>
       /\ status = "SUCCESS" /\ HasResult => mem = "new"
       /\ status # "SUCCESS" /\ (Alive \/ Bridge.body = "compute") => mem = "old"

\* Bytes of the heap that no call under way has allocated.
Kept == heap["state"] + heap["digest"]

\* The heap of Enclave.config.xml is large enough for every call: one that is
\* refused for memory asks for more than the heap, or finds SHA states and
\* digests in it.
MemoryOnlyLostToHashes ==
    status = "OUT_OF_MEMORY" => Kept > 0 \/ len["a"] > HeapMaxSize

\* A product whose caller has not seen to what no bridge checks: NB, the [user_check]
\* c, and that neither matrix is a null pointer (Enclave_t.c:91-153).
BadProduct ==
    /\ Bridge.body = "multiply" /\ arg.NB > 0
    /\ arg.NB > Side \/ ~arg.c \/ \E p \in Params : len[p] = 0

\* An enclave crashes in a call only with SHA states or digests on its heap, with a
\* corrupt heap, or for a caller who gives a product what the bridge does not check,
\* or add_in_enclave and sub_in_enclave no room for the result: a malloc that fails
\* for the call's own parameters never does it.
CrashHasCause ==
    enclave = "crashed" /\ pc # "idle" =>
       \/ corrupt \/ Kept > 0
       \/ BadProduct
       \/ Bridge.body = "print" /\ len["a"] = 0

\* As far as sgx_sha256_get_hash leaves the closed state it is given alone, the heap
\* is corrupted only by two updates with no setup in between, or by an update after
\* a setup whose failure ecall_setup_sha256 does not report.
CorruptionHasCause ==
    corrupt => history.misused \/ history.initFailed \/ history.wrote

\* Enclave.cpp:129: "Updates sha256 has calculation based on the input message".
HashIsOfMessage == hashed \in {"nothing", "message"}

\* How far each label is from the end of its call.
Stage ==
    [idle |-> 0, return |-> 1, err |-> 2, back |-> 3,
     product |-> 4, compute |-> 4, report |-> 4, show |-> 4, pass |-> 4, connect |-> 4,
     init |-> 4, multiply |-> 5, store |-> 5, new |-> 5, print |-> 6, update |-> 6,
     b |-> 7, a |-> 8]

\* The steps a call can still take: three at each label, two of them an ocall's,
\* and the end of the enclave.
StepsLeft == 3 * Stage[pc] - (IF outside THEN 1 ELSE 0) + (IF Alive THEN 1 ELSE 0)

\* No call of the enclave goes round in circles: every step made during it, by
\* whomever and on whatever path through proxy, bridge and function (Enclave_u.c:108-208,
\* Enclave_t.c:91-455, Enclave.cpp:64-155), leaves fewer to make.
CallsShrink == [][pc # "idle" => StepsLeft' < StepsLeft]_vars

\* Every ecall returns, or is in the session of ocall_setup_connection.
CallsReturn == pc # "idle" ~> (pc = "idle" \/ pc = "connect")
==============================================================================
