--------------------------- MODULE EdgeCallsProofs ---------------------------
(***************************************************************************)
(* Proofs about EdgeCalls, for every size of the heap and of the buffers.  *)
(***************************************************************************)
EXTENDS EdgeCalls, TLAPS

------------------------------------------------------------------------------
(* The invariant. *)

\* What history records.
HistoryType ==
    history \in [updated : BOOLEAN, misused : BOOLEAN, initFailed : BOOLEAN, wrote : BOOLEAN]

\* The bridges' copies and the memory they account for.
Marshalled ==
    Alive =>
       /\ heap["params"] = copy["a"] + copy["b"]
       /\ pc \in {"idle", "a", "return"} => copy["a"] = 0 /\ copy["b"] = 0
       /\ pc = "b" => copy["a"] = len["a"] /\ copy["b"] = 0
       /\ pc \in Bodies \union {"back"} => copy["a"] = len["a"] /\ copy["b"] = len["b"]

\* An ocall is always one that a function has asked for.
OcallsNest ==
    /\ outside => pc \in Ocalls
    /\ ms => outside /\ pc # "connect"

\* The function that each label belongs to, by its first label.
StartOf ==
    [multiply |-> "multiply", product |-> "multiply", compute |-> "compute",
     print |-> "print", store |-> "print", report |-> "print", pass |-> "pass",
     connect |-> "connect", update |-> "update", new |-> "update", show |-> "update",
     init |-> "init"]

\* The call under way is inside its own function, with lengths of its own.
CallsMatch ==
    /\ pc \in Bodies => Bridge.body = StartOf[pc]
    /\ Alive /\ pc # "idle" => len["a"] \in Bridge.a /\ len["b"] \in Bridge.b

\* Where the result is, at each point of the call.
ResultSoFar ==
    /\ pc \in Params \union Bodies \union {"back"} => status = "SUCCESS"
    /\ pc # "idle" /\ Bridge.body = "compute" => mem = "old"
    /\ Alive /\ pc \in (Params \union Bodies) \ {"product"} => mem = "old"
    /\ Alive /\ pc = "report" => result = "new" /\ copy["a"] # 0
    /\ Alive /\ pc = "back" =>
          /\ mem = IF Bridge.body = "multiply" THEN "new" ELSE "old"
          /\ Bridge.body \in {"compute", "print"} => result = "new"
          /\ Bridge.body = "print" => copy["a"] # 0
    /\ Alive /\ pc \in {"err", "return"} =>
          /\ mem = IF Bridge.body \in {"multiply", "print"} /\ status = "SUCCESS"
                   THEN "new" ELSE "old"
          /\ Bridge.body = "compute" /\ status = "SUCCESS" => result = "new"
    /\ StatusTellsResult

\* The heap is not overdrawn, and holds the state that ctx points to.
HeapInv ==
    /\ Used <= HeapMaxSize
    /\ ctx = "live" => heap["state"] >= StateBytes
    /\ MemoryOnlyLostToHashes
    /\ CrashHasCause

\* A stale ctx has been used up by an update, and no setup has renewed it.
HashInv ==
    /\ CorruptionHasCause
    /\ Alive /\ ctx = "freed" =>
          \/ history.updated \/ history.initFailed
          \/ Bridge.body = "init" /\ pc \in {"a", "b", "init"}

EdgeInv ==
    TypeOK /\ Marshalled /\ OcallsNest /\ CallsMatch /\ ResultSoFar /\ HeapInv /\ HashInv

Starts == {"multiply", "compute", "print", "pass", "connect", "update", "init"}

\* What holds of every row of the table of bridges.
RowOK(row) ==
    /\ row.body \in Starts
    /\ row.unit \in Nat \ {0} /\ row.a \subseteq Nat /\ row.b \subseteq Nat
    /\ row.out \in BOOLEAN /\ (row.out <=> row.body = "print")
    /\ row.body # "print" => row.unit = 1
    /\ row.body = "multiply" => row.a = {0, MatrixBytes} /\ row.b = {0, MatrixBytes}
    /\ row.body # "multiply" => row.b = {0}
    /\ row.body \in {"compute", "connect", "init"} => row.a = {0}
    /\ row.body = "update" => row.a = {0, 1}

\* Every bridge of the table is of the form the proofs use.
LEMMA Table == \A e \in Ecalls : RowOK(ecall_table[e])
<1>1. MatrixBytes \in Nat /\ IntBytes \in Nat \ {0} /\ Lengths \subseteq Nat
  BY HeapAssumption
<1>2. /\ RowOK(sgx_ecall_matmul_u) /\ RowOK(sgx_mult_enclave) /\ RowOK(sgx_add_enclave)
      /\ RowOK(sgx_add_in_enclave) /\ RowOK(sgx_sub_in_enclave) /\ RowOK(sgx_e_call_hello)
      /\ RowOK(sgx_e_call_bytes) /\ RowOK(sgx_e_call_setup_connection)
      /\ RowOK(sgx_ecall_update_hash) /\ RowOK(sgx_ecall_setup_sha256)
  BY <1>1 DEF RowOK, Starts, sgx_ecall_matmul_u, sgx_mult_enclave, sgx_add_enclave,
     sgx_add_in_enclave, sgx_sub_in_enclave, sgx_e_call_hello, sgx_e_call_bytes,
     sgx_e_call_setup_connection, sgx_ecall_update_hash, sgx_ecall_setup_sha256
<1>3. QED
  BY <1>2 DEF Ecalls, ecall_table

\* The same of the call under way, and the labels it may be at.
LEMMA OfTheCall ==
    ASSUME TypeOK
    PROVE  /\ RowOK(Bridge) /\ Bridge.body \in Bodies
           /\ Params = {"a", "b"} /\ Uses = {"params", "state", "digest"}
           /\ {HeapMaxSize, MatrixBytes, IntBytes, StateBytes, DigestBytes} \subseteq Nat \ {0}
           /\ 2 * MatrixBytes <= HeapMaxSize /\ 1 + DigestBytes <= HeapMaxSize
BY Table, HeapAssumption DEF TypeOK, Bridge, RowOK, Starts, Bodies, Ocalls, Params, Uses

\* At the start no call is under way and the heap is empty.
LEMMA EdgeInit == Init => EdgeInv
<1> SUFFICES ASSUME Init PROVE EdgeInv
  OBVIOUS
<1>1. HeapMaxSize \in Nat
  BY HeapAssumption
<1>2. TypeOK
  BY DEF Init, TypeOK, NoArg, Pcs, Ecalls, ecall_table
<1>3. Marshalled /\ OcallsNest
  BY DEF Init, Marshalled, OcallsNest, Params, Uses, Bodies, Ocalls
<1>4. CallsMatch
  BY DEF Init, CallsMatch, Bodies, Ocalls
<1>5. ResultSoFar
  BY DEF Init, ResultSoFar, StatusTellsResult, HasResult, Bridge, ecall_table,
         sgx_e_call_hello,
     Bodies, Ocalls, Params
<1>6. HeapInv /\ HashInv
  BY <1>1
     DEF Init, HeapInv, HashInv, Used, Uses, MemoryOnlyLostToHashes, CrashHasCause, BadProduct,
         CorruptionHasCause
<1>7. QED
  BY <1>2, <1>3, <1>4, <1>5, <1>6 DEF EdgeInv

\* An enclave that dies leaves everything else as it is.
LEMMA FaultInv ==
    ASSUME EdgeInv, Fault \/ AbortOnCorruptHeap \/ PowerLost \/ DestroyEnclave
    PROVE  EdgeInv'
<1>1. TypeOK'
  BY DEF EdgeInv, TypeOK, Fault, AbortOnCorruptHeap, PowerLost, DestroyEnclave, state
<1>2. Marshalled'
  BY DEF Marshalled, Alive, Fault, AbortOnCorruptHeap, PowerLost, DestroyEnclave
<1>3. OcallsNest'
  BY DEF EdgeInv, OcallsNest, Fault, AbortOnCorruptHeap, PowerLost, DestroyEnclave
<1>4. CallsMatch'
  BY DEF EdgeInv, CallsMatch, Alive, Bridge, Fault, AbortOnCorruptHeap, PowerLost,
         DestroyEnclave
<1>5. ResultSoFar'
  BY DEF EdgeInv, ResultSoFar, StatusTellsResult, HasResult, Alive, Bridge, Fault,
         AbortOnCorruptHeap, PowerLost, DestroyEnclave
<1>6. HeapInv'
  <2>1. CASE Fault
    <3>1. /\ Alive /\ pc \in Bodies /\ Bridge.body = StartOf[pc]
          /\ \A p \in Params : copy[p] = len[p]
      BY <2>1 DEF EdgeInv, Fault, Alive, Marshalled, CallsMatch, Bodies, Params
    <3>2. BadProduct \/ (Bridge.body = "print" /\ len["a"] = 0)
      <4>1. CASE pc = "multiply" /\ arg.NB > 0 /\ ~CanMultiply
        BY <3>1, <4>1 DEF BadProduct, CanMultiply, StartOf, Params
      <4>2. CASE pc \in {"multiply", "product"} /\ arg.NB > Side
        <5>1. arg.NB > 0
          BY <4>2, HeapAssumption DEF EdgeInv, TypeOK
        <5>2. QED
          BY <3>1, <4>2, <5>1 DEF BadProduct, StartOf
      <4>3. CASE pc = "store" /\ copy["a"] = 0
        BY <3>1, <4>3 DEF StartOf, Params
      <4>4. QED
        BY <2>1, <4>1, <4>2, <4>3 DEF Fault
    <3>3. BadProduct' \/ (Bridge'.body = "print" /\ len'["a"] = 0)
      BY <2>1, <3>2 DEF Fault, BadProduct, Bridge, state
    <3>4. QED
      BY <2>1, <3>3
         DEF EdgeInv, HeapInv, Used, Kept, MemoryOnlyLostToHashes, CrashHasCause, Fault, state
  <2>2. CASE AbortOnCorruptHeap
    BY <2>2
       DEF EdgeInv, HeapInv, Used, Kept, MemoryOnlyLostToHashes, CrashHasCause, BadProduct,
           AbortOnCorruptHeap, state
  <2>3. CASE PowerLost
    BY <2>3
       DEF EdgeInv, HeapInv, Used, Kept, MemoryOnlyLostToHashes, CrashHasCause, BadProduct,
           PowerLost, state
  <2>4. CASE DestroyEnclave
    BY <2>4
       DEF EdgeInv, HeapInv, Used, Kept, MemoryOnlyLostToHashes, CrashHasCause, BadProduct,
           DestroyEnclave, state
  <2>5. QED
    BY <2>1, <2>2, <2>3, <2>4
<1>7. HashInv'
  BY DEF EdgeInv, HashInv, CorruptionHasCause, Alive, Fault, AbortOnCorruptHeap,
         PowerLost, DestroyEnclave, state
<1>8. QED
  BY <1>1, <1>2, <1>3, <1>4, <1>5, <1>6, <1>7 DEF EdgeInv

\* The App leaves a call that has lost its enclave, or exits within it.
LEMMA AbandonInv ==
    ASSUME EdgeInv, Abandon \/ AppExits
    PROVE  EdgeInv'
<1>1. TypeOK'
  <2>1. CASE Abandon
    <3>1. /\ pc' \in Pcs /\ call' \in Ecalls /\ len' \in [Params -> Nat]
         /\ copy' \in [Params -> Nat] /\ heap' \in [Uses -> Nat]
      BY <2>1 DEF EdgeInv, TypeOK, Pcs, Abandon, state
    <3>2. /\ status' \in {"SUCCESS", "INVALID_PARAMETER", "OUT_OF_MEMORY", "UNEXPECTED",
                     "ENCLAVE_LOST", "ENCLAVE_CRASHED"}
         /\ result' \in {"junk", "zeros", "new"} /\ mem' \in {"old", "partial", "new"}
         /\ ctx' \in {"null", "live", "freed"}
         /\ hashed' \in {"nothing", "message", "pointer"}
         /\ enclave' \in {"up", "crashed", "lost", "gone"}
      BY <2>1, OfTheCall DEF EdgeInv, TypeOK, Abandon, Dead, state
    <3>3. outside' \in BOOLEAN /\ ms' \in BOOLEAN /\ corrupt' \in BOOLEAN
      BY <2>1, Zenon DEF EdgeInv, TypeOK, Abandon, Dead, state
    <3>4. HistoryType' /\ arg' \in [NB : Nat, c : BOOLEAN]
      BY <2>1, Zenon DEF EdgeInv, TypeOK, HistoryType, Abandon, Dead, state
    <3>5. QED
      BY <3>1, <3>2, <3>3, <3>4 DEF TypeOK, HistoryType
  <2>2. CASE AppExits
    <3>1. /\ pc' \in Pcs /\ call' \in Ecalls /\ len' \in [Params -> Nat]
         /\ copy' \in [Params -> Nat] /\ heap' \in [Uses -> Nat]
      BY <2>2 DEF EdgeInv, TypeOK, Pcs, AppExits, state
    <3>2. /\ status' \in {"SUCCESS", "INVALID_PARAMETER", "OUT_OF_MEMORY", "UNEXPECTED",
                     "ENCLAVE_LOST", "ENCLAVE_CRASHED"}
         /\ result' \in {"junk", "zeros", "new"} /\ mem' \in {"old", "partial", "new"}
         /\ ctx' \in {"null", "live", "freed"}
         /\ hashed' \in {"nothing", "message", "pointer"}
         /\ enclave' \in {"up", "crashed", "lost", "gone"}
      BY <2>2, OfTheCall DEF EdgeInv, TypeOK, AppExits, state
    <3>3. outside' \in BOOLEAN /\ ms' \in BOOLEAN /\ corrupt' \in BOOLEAN
      BY <2>2, Zenon DEF EdgeInv, TypeOK, AppExits, state
    <3>4. HistoryType' /\ arg' \in [NB : Nat, c : BOOLEAN]
      BY <2>2, Zenon DEF EdgeInv, TypeOK, HistoryType, AppExits, state
    <3>5. QED
      BY <3>1, <3>2, <3>3, <3>4 DEF TypeOK, HistoryType
  <2>3. QED
    BY <2>1, <2>2
<1>2. Marshalled'
  BY DEF Marshalled, Alive, Abandon, AppExits, Dead
<1>3. OcallsNest'
  BY DEF EdgeInv, OcallsNest, Abandon, AppExits
<1>4. CallsMatch'
  BY DEF CallsMatch, Bodies, Ocalls, Abandon, AppExits
<1>5. ResultSoFar'
  <2>1. CASE Abandon
    BY <2>1
       DEF EdgeInv, ResultSoFar, StatusTellsResult, Alive, Bodies, Ocalls, Params,
           Bridge, Abandon, Dead
  <2>2. CASE AppExits
    BY <2>2
       DEF EdgeInv, ResultSoFar, StatusTellsResult, HasResult, Alive, Bodies, Ocalls,
           Bridge, CallsMatch, StartOf, AppExits
  <2>3. QED
    BY <2>1, <2>2
<1>6. HeapInv'
  BY DEF EdgeInv, HeapInv, Used, Kept, MemoryOnlyLostToHashes, CrashHasCause, BadProduct,
         Abandon, AppExits, Dead, state
<1>7. HashInv'
  BY DEF EdgeInv, HashInv, CorruptionHasCause, Alive, Abandon, AppExits, Dead, state
<1>8. QED
  BY <1>1, <1>2, <1>3, <1>4, <1>5, <1>6, <1>7 DEF EdgeInv

\* A call on a dead enclave comes back with the old result.
LEMMA EcallOnDeadInv ==
    ASSUME EdgeInv, (\E e \in Ecalls : EcallOnDead(e))
    PROVE  EdgeInv'
<1>1. TypeOK'
  BY DEF EdgeInv, TypeOK, EcallOnDead, NoArg, Dead, state
<1>2. Marshalled'
  BY DEF Marshalled, Alive, EcallOnDead, Dead
<1>3. OcallsNest'
  BY DEF EdgeInv, OcallsNest, EcallOnDead
<1>4. CallsMatch'
  BY DEF CallsMatch, Bodies, Ocalls, EcallOnDead
<1>5. ResultSoFar'
  BY DEF ResultSoFar, StatusTellsResult, Bodies, Ocalls, Params, EcallOnDead, Dead
<1>6. HeapInv'
  BY DEF EdgeInv, HeapInv, Used, MemoryOnlyLostToHashes, CrashHasCause, BadProduct, EcallOnDead,
         Dead, state
<1>7. HashInv'
  BY DEF EdgeInv, HashInv, CorruptionHasCause, Alive, EcallOnDead, state
<1>8. QED
  BY <1>1, <1>2, <1>3, <1>4, <1>5, <1>6, <1>7 DEF EdgeInv

\* A new call starts with no copies and with lengths its bridge knows.
LEMMA EcallInv ==
    ASSUME EdgeInv, (\E e \in Ecalls : Ecall(e))
    PROVE  EdgeInv'
<1>1. TypeOK'
  <2>1. /\ pc' \in Pcs /\ call' \in Ecalls /\ len' \in [Params -> Nat]
       /\ copy' \in [Params -> Nat] /\ heap' \in [Uses -> Nat]
    BY Table DEF EdgeInv, TypeOK, Pcs, Params, RowOK, Ecall
  <2>2. /\ status' \in {"SUCCESS", "INVALID_PARAMETER", "OUT_OF_MEMORY", "UNEXPECTED",
                   "ENCLAVE_LOST", "ENCLAVE_CRASHED"}
       /\ result' \in {"junk", "zeros", "new"} /\ mem' \in {"old", "partial", "new"}
       /\ ctx' \in {"null", "live", "freed"}
       /\ hashed' \in {"nothing", "message", "pointer"}
       /\ enclave' \in {"up", "crashed", "lost", "gone"}
    BY OfTheCall DEF EdgeInv, TypeOK, Ecall, state
  <2>3. outside' \in BOOLEAN /\ ms' \in BOOLEAN /\ corrupt' \in BOOLEAN
    BY Zenon DEF EdgeInv, TypeOK, Ecall, state
  <2>4. HistoryType' /\ arg' \in [NB : Nat, c : BOOLEAN]
    <3>1. HistoryType'
      BY Zenon DEF EdgeInv, TypeOK, HistoryType, Ecall, state
    <3>2. PICK e \in Ecalls : Ecall(e)
      OBVIOUS
    <3>3. [NB : Sides, c : BOOLEAN] \subseteq [NB : Nat, c : BOOLEAN]
      BY HeapAssumption
    <3>4. NoArg \in [NB : Nat, c : BOOLEAN]
      BY DEF NoArg
    <3>5. arg' \in [NB : Nat, c : BOOLEAN]
      <4>1. CASE e = "ecall_matmul_u"
        BY <3>2, <3>3, <4>1 DEF Ecall
      <4>2. CASE e # "ecall_matmul_u"
        BY <3>2, <3>4, <4>2 DEF Ecall
      <4>3. QED
        BY <4>1, <4>2
    <3>6. QED
      BY <3>1, <3>5
  <2>5. QED
    BY <2>1, <2>2, <2>3, <2>4 DEF TypeOK, HistoryType
<1>2. Marshalled'
  BY DEF EdgeInv, Marshalled, Alive, Bodies, Ocalls, Ecall
<1>3. OcallsNest'
  BY DEF EdgeInv, OcallsNest, Ocalls, Ecall
<1>4. CallsMatch'
  BY DEF CallsMatch, Bodies, Ocalls, Params, Bridge, Ecall
<1>5. ResultSoFar'
  BY DEF ResultSoFar, StatusTellsResult, Ecall
<1>6. HeapInv'
  BY DEF EdgeInv, HeapInv, Used, MemoryOnlyLostToHashes, CrashHasCause, BadProduct, Ecall
<1>7. HashInv'
  <2>1. PICK e \in Ecalls : Ecall(e)
    OBVIOUS
  <2>2. /\ history'.misused = history.misused /\ history'.initFailed = history.initFailed
        /\ e # "ecall_setup_sha256" => history'.updated = history.updated
    BY <2>1 DEF EdgeInv, TypeOK, Ecall
  <2>3. e = "ecall_setup_sha256" => Bridge'.body = "init" /\ pc' = "a"
    BY <2>1 DEF Ecall, Bridge, ecall_table, sgx_ecall_setup_sha256
  <2>4. QED
    BY <2>1, <2>2, <2>3 DEF EdgeInv, HashInv, CorruptionHasCause, Alive, Ecall
<1>8. QED
  BY <1>1, <1>2, <1>3, <1>4, <1>5, <1>6, <1>7 DEF EdgeInv

\* Steps of the bridges that allocate nothing, the failures among them.
LEMMA NothingInv ==
    ASSUME EdgeInv, (\E p \in Params : NothingToCopy(p) \/ RaggedLength(p) \/ NoMemory(p))
    PROVE  EdgeInv'
<1>1. TypeOK'
  BY OfTheCall
     DEF EdgeInv, TypeOK, Pcs, NothingToCopy, RaggedLength, NoMemory, After, Fail,
         state
<1>2. Marshalled'
  BY OfTheCall
     DEF EdgeInv, Marshalled, Alive, TypeOK, Bodies, Ocalls, Params, Uses,
         NothingToCopy, RaggedLength, NoMemory, After, Fail, Fits, state, RowOK,
         Starts
<1>3. OcallsNest'
  BY DEF EdgeInv, OcallsNest, Ocalls, Params, NothingToCopy, RaggedLength, NoMemory
<1>4. CallsMatch'
  BY OfTheCall
     DEF EdgeInv, CallsMatch, StartOf, Alive, Bodies, Ocalls, Bridge, NothingToCopy,
         RaggedLength, NoMemory, After, Fail, RowOK, Starts
<1>5. ResultSoFar'
  BY OfTheCall
     DEF EdgeInv, ResultSoFar, StatusTellsResult, Alive, Bodies, Ocalls,
         NothingToCopy, RaggedLength, NoMemory, After, Fail, RowOK, Starts
<1>6. HeapInv'
  <2>1. CASE (\E p \in Params : NothingToCopy(p))
    BY <2>1
       DEF EdgeInv, HeapInv, Used, Kept, MemoryOnlyLostToHashes, CrashHasCause, BadProduct,
           NothingToCopy, state
  <2>2. CASE (\E p \in Params : RaggedLength(p))
    BY <2>2
       DEF EdgeInv, HeapInv, Used, MemoryOnlyLostToHashes, CrashHasCause, BadProduct,
           RaggedLength, Fail, state
  <2>3. CASE (\E p \in Params : NoMemory(p))
    BY <2>3, OfTheCall
       DEF EdgeInv, HeapInv, Used, Kept, MemoryOnlyLostToHashes, CrashHasCause, BadProduct,
           Marshalled, Alive, TypeOK, Params, Uses, CallsMatch, NoMemory, Fits, state,
           RowOK
  <2>4. QED
    BY <2>1, <2>2, <2>3
<1>7. HashInv'
  <2>1. CASE (\E p \in Params : NothingToCopy(p))
    BY <2>1
       DEF EdgeInv, HashInv, CorruptionHasCause, Alive, Bridge, NothingToCopy, After,
           state
  <2>2. CASE (\E p \in Params : RaggedLength(p))
    BY <2>2, OfTheCall
       DEF EdgeInv, HashInv, CorruptionHasCause, Alive, CallsMatch, RaggedLength,
           state, RowOK
  <2>3. CASE (\E p \in Params : NoMemory(p))
    BY <2>3, OfTheCall
       DEF EdgeInv, HashInv, CorruptionHasCause, Alive, CallsMatch, NoMemory, state,
           RowOK
  <2>4. QED
    BY <2>1, <2>2, <2>3
<1>8. QED
  BY <1>1, <1>2, <1>3, <1>4, <1>5, <1>6, <1>7 DEF EdgeInv

\* A copy is accounted for in the heap and recorded in its pointer.
LEMMA CopyInInv ==
    ASSUME EdgeInv, (\E p \in Params : CopyIn(p))
    PROVE  EdgeInv'
<1>1. TypeOK'
  BY OfTheCall DEF EdgeInv, TypeOK, Pcs, CopyIn, After, Fail, Malloc
<1>2. Marshalled'
  BY OfTheCall
     DEF EdgeInv, Marshalled, Alive, TypeOK, Bodies, Ocalls, Params, Uses, CopyIn,
         After, Fail, Fits, Malloc, state, RowOK, Starts
<1>3. OcallsNest'
  BY DEF EdgeInv, OcallsNest, Ocalls, Params, CopyIn
<1>4. CallsMatch'
  BY OfTheCall
     DEF EdgeInv, CallsMatch, StartOf, Alive, Bodies, Ocalls, Bridge, CopyIn, After,
         Fail, RowOK
<1>5. ResultSoFar'
  BY OfTheCall
     DEF EdgeInv, ResultSoFar, StatusTellsResult, Alive, Bodies, Ocalls, CopyIn,
         After, Fail, RowOK, Starts
<1>6. HeapInv'
  BY OfTheCall
     DEF EdgeInv, HeapInv, Used, Kept, MemoryOnlyLostToHashes, CrashHasCause, BadProduct,
         TypeOK,
         Bodies, Ocalls, Params, CopyIn, Fail, Fits, Malloc, RowOK
<1>7. HashInv'
  BY OfTheCall
     DEF EdgeInv, HashInv, CorruptionHasCause, Alive, CallsMatch, CopyIn, RowOK
<1>8. QED
  BY <1>1, <1>2, <1>3, <1>4, <1>5, <1>6, <1>7 DEF EdgeInv

\* The way out of a bridge: the result goes back, the copies are freed.
LEMMA CopyBackInv ==
    ASSUME EdgeInv, CopyBack \/ FreeCopies \/ Return
    PROVE  EdgeInv'
<1>1. TypeOK'
  <2>1. CASE CopyBack
    BY <2>1, OfTheCall
       DEF EdgeInv, TypeOK, Pcs, ResultSoFar, Alive, CopyBack, state, RowOK
  <2>2. CASE FreeCopies
    BY <2>2 DEF EdgeInv, TypeOK, Pcs, Uses, Marshalled, Alive, FreeCopies
  <2>3. CASE Return
    BY <2>3 DEF EdgeInv, TypeOK, Pcs, ResultSoFar, Alive, Return, state
  <2>4. QED
    BY <2>1, <2>2, <2>3
<1>2. Marshalled'
  <2>1. CASE CopyBack
    BY <2>1 DEF EdgeInv, Marshalled, Alive, CopyBack, state
  <2>2. CASE FreeCopies
    BY <2>2
       DEF EdgeInv, Marshalled, Alive, TypeOK, Bodies, Ocalls, Params, Uses,
           FreeCopies
  <2>3. CASE Return
    BY <2>3 DEF EdgeInv, Marshalled, Alive, Bodies, Ocalls, Return, state
  <2>4. QED
    BY <2>1, <2>2, <2>3
<1>3. OcallsNest'
  BY DEF EdgeInv, OcallsNest, Ocalls, CopyBack, FreeCopies, Return
<1>4. CallsMatch'
  BY DEF EdgeInv, CallsMatch, Alive, Bodies, Ocalls, Bridge, CopyBack, FreeCopies,
         Return
<1>5. ResultSoFar'
  BY OfTheCall
     DEF EdgeInv, ResultSoFar, StatusTellsResult, HasResult, Alive, TypeOK,
         Marshalled, Bodies, Ocalls, Params, Bridge, CopyBack, FreeCopies, Return,
         state, RowOK, Starts
<1>6. HeapInv'
  BY OfTheCall
     DEF EdgeInv, HeapInv, Used, Kept, MemoryOnlyLostToHashes, CrashHasCause, BadProduct,
         TypeOK,
         Bodies, Ocalls, Uses, Bridge, CopyBack, FreeCopies, Return, state, RowOK
<1>7. HashInv'
  BY OfTheCall
     DEF EdgeInv, HashInv, CorruptionHasCause, Alive, TypeOK, Bodies, Ocalls, Params,
         Bridge, CopyBack, FreeCopies, Return, state, RowOK, Starts
<1>8. QED
  BY <1>1, <1>2, <1>3, <1>4, <1>5, <1>6, <1>7 DEF EdgeInv

\* The functions that compute a result.
LEMMA FunctionInv ==
    ASSUME EdgeInv, Multiply \/ LastProduct \/ Compute \/ Store
    PROVE  EdgeInv'
<1>1. TypeOK'
  BY DEF EdgeInv, TypeOK, Pcs, Bodies, Ocalls, Multiply, LastProduct, Compute, Store,
         state
<1>2. Marshalled'
  BY DEF EdgeInv, Marshalled, Alive, Bodies, Multiply, LastProduct, Compute, Store,
         state
<1>3. OcallsNest'
  BY DEF EdgeInv, OcallsNest, Ocalls, Multiply, LastProduct, Compute, Store
<1>4. CallsMatch'
  BY DEF EdgeInv, CallsMatch, StartOf, Alive, Bodies, Ocalls, Bridge, Multiply,
         LastProduct, Compute, Store
<1>5. ResultSoFar'
  <2>1. CASE Multiply
    BY <2>1
       DEF EdgeInv, ResultSoFar, StatusTellsResult, Bodies, Bridge, CallsMatch,
           StartOf, Multiply
  <2>2. CASE LastProduct
    BY <2>2
       DEF EdgeInv, ResultSoFar, StatusTellsResult, Bodies, Ocalls, Params, Bridge,
           CallsMatch, StartOf, LastProduct
  <2>3. CASE Compute
    BY <2>3
       DEF EdgeInv, ResultSoFar, StatusTellsResult, Bodies, Bridge, CallsMatch,
           StartOf, Compute
  <2>4. CASE Store
    BY <2>4 DEF EdgeInv, ResultSoFar, StatusTellsResult, Alive, Bodies, Store
  <2>5. QED
    BY <2>1, <2>2, <2>3, <2>4
<1>6. HeapInv'
  BY DEF EdgeInv, HeapInv, Used, Kept, MemoryOnlyLostToHashes, CrashHasCause, BadProduct,
         Multiply, LastProduct, Compute, Store, state
<1>7. HashInv'
  BY DEF EdgeInv, HashInv, CorruptionHasCause, Alive, Multiply, LastProduct, Compute,
         Store, state
<1>8. QED
  BY <1>1, <1>2, <1>3, <1>4, <1>5, <1>6, <1>7 DEF EdgeInv

\* sgx_sha256_init succeeds or leaves ctx alone.
LEMMA SetupInv ==
    ASSUME EdgeInv, SetupSha256
    PROVE  EdgeInv'
<1>1. TypeOK'
  <2>1. /\ pc' \in Pcs /\ call' \in Ecalls /\ len' \in [Params -> Nat]
       /\ copy' \in [Params -> Nat] /\ heap' \in [Uses -> Nat]
    BY OfTheCall DEF EdgeInv, TypeOK, Pcs, SetupSha256, Malloc
  <2>2. /\ status' \in {"SUCCESS", "INVALID_PARAMETER", "OUT_OF_MEMORY", "UNEXPECTED",
                   "ENCLAVE_LOST", "ENCLAVE_CRASHED"}
       /\ result' \in {"junk", "zeros", "new"} /\ mem' \in {"old", "partial", "new"}
       /\ ctx' \in {"null", "live", "freed"}
       /\ hashed' \in {"nothing", "message", "pointer"}
       /\ enclave' \in {"up", "crashed", "lost", "gone"}
    BY OfTheCall DEF EdgeInv, TypeOK, SetupSha256, state, Malloc
  <2>3. outside' \in BOOLEAN /\ ms' \in BOOLEAN /\ corrupt' \in BOOLEAN
    BY Zenon DEF EdgeInv, TypeOK, SetupSha256, state
  <2>4. HistoryType' /\ arg' \in [NB : Nat, c : BOOLEAN]
    BY Zenon DEF EdgeInv, TypeOK, HistoryType, SetupSha256, state
  <2>5. QED
    BY <2>1, <2>2, <2>3, <2>4 DEF TypeOK, HistoryType
<1>2. Marshalled'
  BY DEF EdgeInv, Marshalled, Alive, TypeOK, Bodies, Uses, SetupSha256, Malloc
<1>3. OcallsNest'
  BY DEF EdgeInv, OcallsNest, Ocalls, SetupSha256
<1>4. CallsMatch'
  BY DEF EdgeInv, CallsMatch, Alive, Bodies, Ocalls, Bridge, SetupSha256
<1>5. ResultSoFar'
  BY DEF EdgeInv, ResultSoFar, StatusTellsResult, Alive, Bodies, Bridge, CallsMatch,
         StartOf, SetupSha256
<1>6. HeapInv'
  BY OfTheCall
     DEF EdgeInv, HeapInv, Used, Kept, MemoryOnlyLostToHashes, CrashHasCause, BadProduct,
         TypeOK,
         SetupSha256, Fits, Malloc
<1>7. HashInv'
  BY DEF EdgeInv, HashInv, CorruptionHasCause, TypeOK, SetupSha256
<1>8. QED
  BY <1>1, <1>2, <1>3, <1>4, <1>5, <1>6, <1>7 DEF EdgeInv

\* The update closes the state ctx points to and leaves a digest.
LEMMA UpdateInv ==
    ASSUME EdgeInv, UpdateHash \/ NewDigest
    PROVE  EdgeInv'
<1>1. TypeOK'
  <2>1. CASE UpdateHash
    <3>1. /\ pc' \in Pcs /\ call' \in Ecalls /\ len' \in [Params -> Nat]
         /\ copy' \in [Params -> Nat] /\ heap' \in [Uses -> Nat]
      BY <2>1, OfTheCall DEF EdgeInv, TypeOK, Pcs, Bodies, UpdateHash, HeapInv
    <3>2. /\ status' \in {"SUCCESS", "INVALID_PARAMETER", "OUT_OF_MEMORY", "UNEXPECTED",
                     "ENCLAVE_LOST", "ENCLAVE_CRASHED"}
         /\ result' \in {"junk", "zeros", "new"} /\ mem' \in {"old", "partial", "new"}
         /\ ctx' \in {"null", "live", "freed"}
         /\ hashed' \in {"nothing", "message", "pointer"}
         /\ enclave' \in {"up", "crashed", "lost", "gone"}
      BY <2>1, OfTheCall DEF EdgeInv, TypeOK, UpdateHash, state, HeapInv
    <3>3. outside' \in BOOLEAN /\ ms' \in BOOLEAN /\ corrupt' \in BOOLEAN
      BY <2>1, Zenon DEF EdgeInv, TypeOK, UpdateHash, state
    <3>4. HistoryType' /\ arg' \in [NB : Nat, c : BOOLEAN]
      BY <2>1, Zenon DEF EdgeInv, TypeOK, HistoryType, UpdateHash, state
    <3>5. QED
      BY <3>1, <3>2, <3>3, <3>4 DEF TypeOK, HistoryType
  <2>2. CASE NewDigest
    <3>1. /\ pc' \in Pcs /\ call' \in Ecalls /\ len' \in [Params -> Nat]
         /\ copy' \in [Params -> Nat] /\ heap' \in [Uses -> Nat]
      BY <2>2, OfTheCall DEF EdgeInv, TypeOK, Pcs, Bodies, Ocalls, NewDigest, Malloc
    <3>2. /\ status' \in {"SUCCESS", "INVALID_PARAMETER", "OUT_OF_MEMORY", "UNEXPECTED",
                     "ENCLAVE_LOST", "ENCLAVE_CRASHED"}
         /\ result' \in {"junk", "zeros", "new"} /\ mem' \in {"old", "partial", "new"}
         /\ ctx' \in {"null", "live", "freed"}
         /\ hashed' \in {"nothing", "message", "pointer"}
         /\ enclave' \in {"up", "crashed", "lost", "gone"}
      BY <2>2, OfTheCall DEF EdgeInv, TypeOK, NewDigest, state, Malloc
    <3>3. outside' \in BOOLEAN /\ ms' \in BOOLEAN /\ corrupt' \in BOOLEAN
      BY <2>2, Zenon DEF EdgeInv, TypeOK, NewDigest, state
    <3>4. HistoryType' /\ arg' \in [NB : Nat, c : BOOLEAN]
      BY <2>2, Zenon DEF EdgeInv, TypeOK, HistoryType, NewDigest, state
    <3>5. QED
      BY <3>1, <3>2, <3>3, <3>4 DEF TypeOK, HistoryType
  <2>3. QED
    BY <2>1, <2>2
<1>2. Marshalled'
  BY DEF EdgeInv, Marshalled, Alive, TypeOK, Bodies, Uses, UpdateHash, NewDigest, Malloc
<1>3. OcallsNest'
  BY DEF EdgeInv, OcallsNest, Ocalls, UpdateHash, NewDigest
<1>4. CallsMatch'
  BY DEF EdgeInv, CallsMatch, StartOf, Alive, Bodies, Bridge, UpdateHash, NewDigest
<1>5. ResultSoFar'
  BY DEF EdgeInv, ResultSoFar, StatusTellsResult, Alive, Bodies, UpdateHash, NewDigest
<1>6. HeapInv'
  <2>1. CASE UpdateHash
    BY <2>1, OfTheCall
       DEF EdgeInv, HeapInv, Used, MemoryOnlyLostToHashes, CrashHasCause, BadProduct,
         TypeOK,
           Bodies, ResultSoFar, UpdateHash
  <2>2. CASE NewDigest
    BY <2>2, OfTheCall
       DEF EdgeInv, HeapInv, Used, Kept, MemoryOnlyLostToHashes, CrashHasCause, BadProduct,
           Marshalled, Alive, TypeOK, Bodies, CallsMatch, StartOf, NewDigest, Fits,
           Malloc, RowOK
  <2>3. QED
    BY <2>1, <2>2
<1>7. HashInv'
  <2>1. CASE UpdateHash
    BY <2>1 DEF EdgeInv, HashInv, CorruptionHasCause, Alive, TypeOK, UpdateHash
  <2>2. CASE NewDigest
    <3>1. CASE UNCHANGED <<corrupt, history>>
      BY <2>2, <3>1 DEF EdgeInv, HashInv, CorruptionHasCause, Alive, NewDigest
    <3>2. CASE history' = [history EXCEPT !.wrote = TRUE]
      <4>1. /\ history'.wrote /\ history'.updated = history.updated
            /\ history'.misused = history.misused
            /\ history'.initFailed = history.initFailed
        BY <3>2 DEF EdgeInv, TypeOK
      <4>2. ctx' = ctx /\ (Alive' => Alive) /\ pc = "new" /\ call' = call
        BY <2>2 DEF NewDigest, Alive
      <4>3. QED
        BY <4>1, <4>2 DEF EdgeInv, HashInv, CorruptionHasCause
    <3>3. QED
      BY <2>2, <3>1, <3>2 DEF NewDigest
  <2>3. QED
    BY <2>1, <2>2
<1>8. QED
  BY <1>1, <1>2, <1>3, <1>4, <1>5, <1>6, <1>7 DEF EdgeInv

\* Ocalls change nothing inside the enclave.
LEMMA OcallInv ==
    ASSUME EdgeInv, Ocall
    PROVE  EdgeInv'
<1>1. TypeOK'
  <2>1. CASE OcallStarts
    <3>1. /\ pc' \in Pcs /\ call' \in Ecalls /\ len' \in [Params -> Nat]
         /\ copy' \in [Params -> Nat] /\ heap' \in [Uses -> Nat]
      BY <2>1 DEF EdgeInv, TypeOK, OcallStarts, state
    <3>2. /\ status' \in {"SUCCESS", "INVALID_PARAMETER", "OUT_OF_MEMORY", "UNEXPECTED",
                     "ENCLAVE_LOST", "ENCLAVE_CRASHED"}
         /\ result' \in {"junk", "zeros", "new"} /\ mem' \in {"old", "partial", "new"}
         /\ ctx' \in {"null", "live", "freed"}
         /\ hashed' \in {"nothing", "message", "pointer"}
         /\ enclave' \in {"up", "crashed", "lost", "gone"}
      BY <2>1, OfTheCall DEF EdgeInv, TypeOK, OcallStarts, state
    <3>3. outside' \in BOOLEAN /\ ms' \in BOOLEAN /\ corrupt' \in BOOLEAN
      BY <2>1, Zenon DEF EdgeInv, TypeOK, OcallStarts, state
    <3>4. HistoryType' /\ arg' \in [NB : Nat, c : BOOLEAN]
      BY <2>1, Zenon DEF EdgeInv, TypeOK, HistoryType, OcallStarts, state
    <3>5. QED
      BY <3>1, <3>2, <3>3, <3>4 DEF TypeOK, HistoryType
  <2>2. CASE OcallFails
    <3>1. /\ pc' \in Pcs /\ call' \in Ecalls /\ len' \in [Params -> Nat]
         /\ copy' \in [Params -> Nat] /\ heap' \in [Uses -> Nat]
      BY <2>2 DEF EdgeInv, TypeOK, Pcs, Bodies, Ocalls, OcallFails, state, Resume
    <3>2. /\ status' \in {"SUCCESS", "INVALID_PARAMETER", "OUT_OF_MEMORY", "UNEXPECTED",
                     "ENCLAVE_LOST", "ENCLAVE_CRASHED"}
         /\ result' \in {"junk", "zeros", "new"} /\ mem' \in {"old", "partial", "new"}
         /\ ctx' \in {"null", "live", "freed"}
         /\ hashed' \in {"nothing", "message", "pointer"}
         /\ enclave' \in {"up", "crashed", "lost", "gone"}
      BY <2>2, OfTheCall DEF EdgeInv, TypeOK, OcallFails, state, Resume
    <3>3. outside' \in BOOLEAN /\ ms' \in BOOLEAN /\ corrupt' \in BOOLEAN
      BY <2>2, Zenon DEF EdgeInv, TypeOK, OcallFails, state
    <3>4. HistoryType' /\ arg' \in [NB : Nat, c : BOOLEAN]
      BY <2>2, Zenon DEF EdgeInv, TypeOK, HistoryType, OcallFails, state
    <3>5. QED
      BY <3>1, <3>2, <3>3, <3>4 DEF TypeOK, HistoryType
  <2>3. CASE OcallReturns
    <3>1. /\ pc' \in Pcs /\ call' \in Ecalls /\ len' \in [Params -> Nat]
         /\ copy' \in [Params -> Nat] /\ heap' \in [Uses -> Nat]
      BY <2>3
         DEF EdgeInv, TypeOK, Pcs, Bodies, Ocalls, OcallReturns, state, Resume,
             OcallsNest
    <3>2. /\ status' \in {"SUCCESS", "INVALID_PARAMETER", "OUT_OF_MEMORY", "UNEXPECTED",
                     "ENCLAVE_LOST", "ENCLAVE_CRASHED"}
         /\ result' \in {"junk", "zeros", "new"} /\ mem' \in {"old", "partial", "new"}
         /\ ctx' \in {"null", "live", "freed"}
         /\ hashed' \in {"nothing", "message", "pointer"}
         /\ enclave' \in {"up", "crashed", "lost", "gone"}
      BY <2>3 DEF EdgeInv, TypeOK, OcallReturns, state
    <3>3. outside' \in BOOLEAN /\ ms' \in BOOLEAN /\ corrupt' \in BOOLEAN
      BY <2>3, Zenon DEF EdgeInv, TypeOK, OcallReturns, state
    <3>4. HistoryType' /\ arg' \in [NB : Nat, c : BOOLEAN]
      BY <2>3, Zenon DEF EdgeInv, TypeOK, HistoryType, OcallReturns, state
    <3>5. QED
      BY <3>1, <3>2, <3>3, <3>4 DEF TypeOK, HistoryType
  <2>4. QED
    BY <2>1, <2>2, <2>3 DEF Ocall
<1>2. Marshalled'
  <2>1. CASE OcallStarts
    BY <2>1 DEF EdgeInv, Marshalled, Alive, OcallStarts, state
  <2>2. CASE OcallFails
    BY <2>2 DEF EdgeInv, Marshalled, Alive, Bodies, Ocalls, OcallFails, Resume, state
  <2>3. CASE OcallReturns
    BY <2>3
       DEF EdgeInv, Marshalled, Alive, Bodies, Ocalls, OcallsNest, OcallReturns,
           Resume, state
  <2>4. QED
    BY <2>1, <2>2, <2>3 DEF Ocall
<1>3. OcallsNest'
  BY DEF EdgeInv, OcallsNest, TypeOK, Ocall, OcallStarts, OcallFails, OcallReturns
<1>4. CallsMatch'
  <2>1. CASE OcallStarts
    BY <2>1 DEF EdgeInv, CallsMatch, Alive, Bridge, OcallStarts
  <2>2. CASE OcallFails
    BY <2>2
       DEF EdgeInv, CallsMatch, StartOf, Alive, Bodies, Ocalls, Bridge, OcallFails,
           Resume
  <2>3. CASE OcallReturns
    BY <2>3
       DEF EdgeInv, CallsMatch, StartOf, Alive, Bodies, Ocalls, Bridge, OcallsNest,
           OcallReturns, Resume
  <2>4. QED
    BY <2>1, <2>2, <2>3 DEF Ocall
<1>5. ResultSoFar'
  <2>1. CASE OcallStarts
    BY <2>1
       DEF EdgeInv, ResultSoFar, StatusTellsResult, HasResult, Alive, Bridge,
           OcallStarts
  <2>2. CASE OcallFails
    BY <2>2
       DEF EdgeInv, ResultSoFar, StatusTellsResult, Alive, Bodies, Ocalls, Bridge,
           CallsMatch, StartOf, OcallFails, Resume
  <2>3. CASE OcallReturns
    BY <2>3
       DEF EdgeInv, ResultSoFar, StatusTellsResult, Alive, Bodies, Ocalls, Bridge,
           OcallsNest, CallsMatch, StartOf, OcallReturns, Resume
  <2>4. QED
    BY <2>1, <2>2, <2>3 DEF Ocall
<1>6. HeapInv'
  BY DEF EdgeInv, HeapInv, Used, Kept, MemoryOnlyLostToHashes, CrashHasCause, BadProduct, Ocall,
         OcallStarts, OcallFails, OcallReturns, state
<1>7. HashInv'
  <2>1. CASE OcallStarts
    BY <2>1 DEF EdgeInv, HashInv, CorruptionHasCause, Alive, Bridge, OcallStarts, state
  <2>2. CASE OcallFails
    BY <2>2 DEF EdgeInv, HashInv, CorruptionHasCause, Alive, Ocalls, OcallFails, state
  <2>3. CASE OcallReturns
    BY <2>3
       DEF EdgeInv, HashInv, CorruptionHasCause, Alive, Ocalls, OcallsNest,
           OcallReturns, state
  <2>4. QED
    BY <2>1, <2>2, <2>3 DEF Ocall
<1>8. QED
  BY <1>1, <1>2, <1>3, <1>4, <1>5, <1>6, <1>7 DEF EdgeInv

\* Every step of the App and of the enclave keeps the invariant.
LEMMA EdgeNext == EdgeInv /\ [Next]_vars => EdgeInv'
<1> SUFFICES ASSUME EdgeInv, [Next]_vars PROVE EdgeInv'
  OBVIOUS
<1>1. CASE \E e \in Ecalls : Ecall(e)
  BY <1>1, EcallInv
<1>2. CASE \E e \in Ecalls : EcallOnDead(e)
  BY <1>2, EcallOnDeadInv
<1>3. CASE Marshal
  BY <1>3, NothingInv, CopyInInv, CopyBackInv DEF Marshal
<1>4. CASE Function
  BY <1>4, FunctionInv, FaultInv, SetupInv, UpdateInv DEF Function
<1>5. CASE Ocall
  BY <1>5, OcallInv
<1>6. CASE Abandon \/ AppExits
  BY <1>6, AbandonInv
<1>7. CASE DestroyEnclave \/ PowerLost \/ AbortOnCorruptHeap
  BY <1>7, FaultInv
<1>8. CASE UNCHANGED vars
  BY <1>8
     DEF vars, state, EdgeInv, TypeOK, Marshalled, OcallsNest, CallsMatch,
         ResultSoFar, 
     StatusTellsResult, HasResult, HeapInv, MemoryOnlyLostToHashes, CrashHasCause,
     BadProduct, HashInv, CorruptionHasCause, Alive, Bridge, Used, Kept
<1>9. QED
  BY <1>1, <1>2, <1>3, <1>4, <1>5, <1>6, <1>7, <1>8 DEF Next

------------------------------------------------------------------------------
(* The length of a call. *)

\* The stages of the labels, and the labels where each kind of step is made.
LEMMA StageOf ==
    /\ Stage["idle"] = 0 /\ Stage["return"] = 1 /\ Stage["err"] = 2 /\ Stage["back"] = 3
    /\ Stage["b"] = 7 /\ Stage["a"] = 8
    /\ \A l \in {"product", "compute", "report", "show", "pass", "connect", "init"} :
          Stage[l] = 4
    /\ \A l \in {"multiply", "store", "new"} : Stage[l] = 5
    /\ \A l \in {"print", "update"} : Stage[l] = 6
    /\ \A l \in Pcs : Stage[l] \in Nat /\ (l # "idle" => Stage[l] > 0)
BY DEF Stage, Pcs, Params, Bodies, Ocalls

\* A step that comes nearer to the end of the call, whatever it does besides.
LEMMA NextStage ==
    ASSUME TypeOK, TypeOK', Stage[pc'] < Stage[pc], Alive' => Alive
    PROVE  StepsLeft' < StepsLeft
<1>1. Stage[pc] \in Nat /\ Stage[pc'] \in Nat
  BY StageOf DEF TypeOK
<1>2. DEFINE A == IF outside THEN 1 ELSE 0
             B == IF outside' THEN 1 ELSE 0
             C == IF Alive THEN 1 ELSE 0
             D == IF Alive' THEN 1 ELSE 0
<1>3. A \in 0 .. 1 /\ B \in 0 .. 1 /\ C \in 0 .. 1 /\ D \in 0 .. 1 /\ D <= C
  OBVIOUS
<1>4. StepsLeft = 3 * Stage[pc] - A + C /\ StepsLeft' = 3 * Stage[pc'] - B + D
  BY DEF StepsLeft
<1> HIDE DEF A, B, C, D
<1>5. QED
  BY <1>1, <1>3, <1>4

\* The end of the enclave shortens the call that it takes place in.
LEMMA EndOfEnclave ==
    ASSUME TypeOK, Alive, ~Alive', UNCHANGED <<pc, outside>>
    PROVE  StepsLeft' < StepsLeft
<1>1. Stage[pc] \in Nat
  BY StageOf DEF TypeOK
<1>2. DEFINE A == IF outside THEN 1 ELSE 0
<1>3. A \in 0 .. 1
  OBVIOUS
<1>4. StepsLeft = 3 * Stage[pc] - A + 1 /\ StepsLeft' = 3 * Stage[pc] - A + 0
  BY DEF StepsLeft
<1> HIDE DEF A
<1>5. QED
  BY <1>1, <1>3, <1>4

\* The marshalling of a parameter leads on to the next one or to the function, and
\* both bring the call nearer to its end than the parameter is.
LEMMA AfterIsNearer ==
    ASSUME TypeOK, NEW p \in Params
    PROVE  Stage[After(p)] < Stage[p] /\ Stage["err"] < Stage[p]
<1>1. Stage[Bridge.body] \in Nat /\ Stage[Bridge.body] < 7
  BY OfTheCall, StageOf DEF RowOK, Starts
<1>2. QED
  BY <1>1, StageOf DEF After, Params

\* Every step that is made during a call brings it nearer to its end.
LEMMA ShrinkStep ==
    ASSUME EdgeInv, EdgeInv', Next, pc # "idle"
    PROVE  StepsLeft' < StepsLeft
<1>1. TypeOK /\ TypeOK'
  BY DEF EdgeInv
<1>2. ~(\E e \in Ecalls : Ecall(e) \/ EcallOnDead(e)) /\ ~DestroyEnclave
  BY DEF Ecall, EcallOnDead, DestroyEnclave
<1>3. CASE Marshal
  <2>1. Alive /\ Alive'
    BY <1>3 DEF Marshal, NothingToCopy, RaggedLength, NoMemory, CopyIn, CopyBack, FreeCopies,
                Return, Alive
  <2>2. ASSUME NEW p \in Params,
               NothingToCopy(p) \/ RaggedLength(p) \/ NoMemory(p) \/ CopyIn(p)
        PROVE  Stage[pc'] < Stage[pc]
    <3>1. pc = p /\ (pc' = After(p) \/ pc' = "err")
      BY <2>2 DEF NothingToCopy, RaggedLength, NoMemory, CopyIn, Fail
    <3>2. QED
      BY <1>1, <3>1, AfterIsNearer
  <2>3. ASSUME CopyBack \/ FreeCopies \/ Return
        PROVE  Stage[pc'] < Stage[pc]
    <3>1. \/ pc = "back" /\ pc' = "err"
          \/ pc = "err" /\ pc' = "return"
          \/ pc = "return" /\ pc' = "idle"
      BY <2>3 DEF CopyBack, FreeCopies, Return
    <3>2. QED
      BY <3>1, StageOf
  <2>4. Stage[pc'] < Stage[pc]
    BY <1>3, <2>2, <2>3 DEF Marshal
  <2>5. QED
    BY <1>1, <2>1, <2>4, NextStage
<1>4. CASE Function
  <2>1. Alive
    BY <1>4 DEF Function, Multiply, LastProduct, Compute, Store, Fault, SetupSha256, UpdateHash,
                NewDigest, Alive
  <2>2. CASE Multiply \/ LastProduct \/ Compute \/ Store \/ SetupSha256 \/ UpdateHash
    <3>1. \/ pc = "multiply" /\ pc' = "product"
          \/ pc = "store" /\ pc' = "report"
          \/ pc \in {"product", "compute", "init"} /\ pc' = "back"
          \/ pc = "update" /\ pc' = "new"
      BY <2>2 DEF Multiply, LastProduct, Compute, Store, SetupSha256, UpdateHash
    <3>2. Stage[pc'] < Stage[pc]
      BY <3>1, StageOf
    <3>3. QED
      BY <1>1, <2>1, <3>2, NextStage
  <2>3. CASE Fault
    BY <1>1, <2>1, <2>3, EndOfEnclave DEF Fault, Alive
  <2>4. CASE NewDigest
    <3>1. \/ pc = "new" /\ pc' = "show"
          \/ UNCHANGED <<pc, outside>> /\ ~Alive'
      BY <2>4 DEF NewDigest, Alive
    <3>2. CASE pc = "new" /\ pc' = "show"
      <4>1. Stage[pc'] < Stage[pc]
        BY <3>2, StageOf
      <4>2. QED
        BY <1>1, <2>1, <4>1, NextStage
    <3>3. QED
      BY <1>1, <2>1, <3>1, <3>2, EndOfEnclave
  <2>5. QED
    BY <1>4, <2>2, <2>3, <2>4 DEF Function
<1>5. CASE OcallStarts
  <2>1. Stage[pc] \in Nat
    BY <1>1, StageOf DEF TypeOK
  <2>2. DEFINE C == IF Alive THEN 1 ELSE 0
  <2>3. C \in 0 .. 1
    OBVIOUS
  <2>4. StepsLeft = 3 * Stage[pc] - 0 + C /\ StepsLeft' = 3 * Stage[pc] - 1 + C
    BY <1>5 DEF OcallStarts, StepsLeft, Alive
  <2> HIDE DEF C
  <2>5. QED
    BY <2>1, <2>3, <2>4
<1>6. CASE OcallFails \/ OcallReturns
  <2>1. pc \in Ocalls /\ pc' = Resume[pc] /\ (Alive' => Alive)
    BY <1>6 DEF OcallFails, OcallReturns, Alive, EdgeInv, OcallsNest
  <2>2. \/ pc = "print" /\ pc' = "store"
        \/ pc \in {"report", "pass", "connect", "show"} /\ pc' = "back"
    BY <2>1 DEF Ocalls, Resume
  <2>3. Stage[pc'] < Stage[pc]
    BY <2>2, StageOf
  <2>4. QED
    BY <1>1, <2>1, <2>3, NextStage
<1>7. CASE Abandon \/ AppExits
  <2>1. pc' = "idle" /\ (Alive' => Alive)
    BY <1>7 DEF Abandon, AppExits, Alive
  <2>2. Stage[pc'] < Stage[pc]
    BY <1>1, <2>1, StageOf DEF TypeOK
  <2>3. QED
    BY <1>1, <2>1, <2>2, NextStage
<1>8. CASE PowerLost \/ AbortOnCorruptHeap
  BY <1>1, <1>8, EndOfEnclave DEF PowerLost, AbortOnCorruptHeap, Alive
<1>9. QED
  BY <1>2, <1>3, <1>4, <1>5, <1>6, <1>7, <1>8 DEF Next, Ocall

------------------------------------------------------------------------------
(* The theorems. *)

\* EdgeInv holds in every state of every behaviour.
THEOREM EdgeInductive == Spec => []EdgeInv
BY EdgeInit, EdgeNext, PTL DEF Spec

\* Every variable of the bridges and of the trusted functions keeps its type.
THEOREM EdgeTypes == Spec => []TypeOK
<1>1. EdgeInv => TypeOK
  BY DEF EdgeInv
<1>2. QED
  BY <1>1, EdgeInductive, PTL

\* No bridge leaks: when no call is under way, no copy of a parameter is left on
\* the heap, and no frame of an ocall on the untrusted stack.
THEOREM CallsReleaseEverything == Spec => []CallsReleaseAll
<1>1. EdgeInv => CallsReleaseAll
  BY DEF EdgeInv, Marshalled, OcallsNest, CallsReleaseAll, Alive, Ocalls
<1>2. QED
  BY <1>1, EdgeInductive, PTL

\* No trusted function runs on part of its parameters.
THEOREM FunctionsSeeEverything == Spec => []FunctionsSeeAllCopies
<1>1. EdgeInv => FunctionsSeeAllCopies
  BY DEF EdgeInv, Marshalled, FunctionsSeeAllCopies, Alive, Params
<1>2. QED
  BY <1>1, EdgeInductive, PTL

\* The App can tell from the status of an ecall whether it has its result.
THEOREM StatusesTellResults == Spec => []StatusTellsResult
<1>1. EdgeInv => StatusTellsResult
  BY DEF EdgeInv, ResultSoFar
<1>2. QED
  BY <1>1, EdgeInductive, PTL

\* The heap has room for the parameters of every ecall, unless hashing has used
\* it up or the App passes more than it holds.
THEOREM MemoryIsOnlyLostToHashes == Spec => []MemoryOnlyLostToHashes
<1>1. EdgeInv => MemoryOnlyLostToHashes
  BY DEF EdgeInv, HeapInv
<1>2. QED
  BY <1>1, EdgeInductive, PTL

\* The enclave crashes in a call only for what the caller gave it and no bridge checks
\* (NB, c, an empty matrix, no room for a sum), or once hashing has left something on
\* its heap; whatever the size of the heap and of the matrices.
THEOREM CrashesHaveACause == Spec => []CrashHasCause
<1>1. EdgeInv => CrashHasCause
  BY DEF EdgeInv, HeapInv
<1>2. QED
  BY <1>1, EdgeInductive, PTL

\* The stale ctx does harm only after two updates in a row or a setup that failed, if
\* get_hash does not write to it.
THEOREM CorruptionHasACause == Spec => []CorruptionHasCause
<1>1. EdgeInv => CorruptionHasCause
  BY DEF EdgeInv, HashInv
<1>2. QED
  BY <1>1, EdgeInductive, PTL

\* Every step made during a call leaves fewer to make, and no more than 25 to begin
\* with: no path through the bridges, the functions and their ocalls is circular.
THEOREM CallsGetShorter == Spec => CallsShrink
<1>1. EdgeInv /\ EdgeInv' /\ [Next]_vars
        => [pc # "idle" => StepsLeft' < StepsLeft]_vars
  BY ShrinkStep
<1>2. QED
  BY <1>1, EdgeInductive, PTL DEF Spec, CallsShrink

\* The number of steps that a call can take, from the proxy's to its return.
THEOREM CallsAreShort == Spec => [](StepsLeft \in 0 .. 25)
<1>1. EdgeInv => StepsLeft \in 0 .. 25
  <2>1. SUFFICES ASSUME EdgeInv PROVE StepsLeft \in 0 .. 25
    OBVIOUS
  <2>2. Stage[pc] \in 0 .. 8 /\ (outside => Stage[pc] > 0)
    BY <2>1, StageOf DEF EdgeInv, TypeOK, Pcs, Params, Bodies, Ocalls, OcallsNest
  <2>3. DEFINE A == IF outside THEN 1 ELSE 0
               C == IF Alive THEN 1 ELSE 0
  <2>4. A \in 0 .. 1 /\ C \in 0 .. 1 /\ (A = 1 => Stage[pc] > 0)
    BY <2>2
  <2>5. StepsLeft = 3 * Stage[pc] - A + C
    BY DEF StepsLeft
  <2> HIDE DEF A, C
  <2>6. QED
    BY <2>2, <2>4, <2>5
<1>2. QED
  BY <1>1, EdgeInductive, PTL
==============================================================================
