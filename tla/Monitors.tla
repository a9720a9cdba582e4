------------------------------- MODULE Monitors -------------------------------
(***************************************************************************)
(* The two monitors of performance_test/sc2/sgx_1d: psutil_sc2.py, which   *)
(* samples the process called process_name, and psutil_sc2_system.py,      *)
(* which samples the machine and flags the rows taken while that process   *)
(* runs.  Both write performance_sc2_r.csv when they stop.                 *)
(*                                                                         *)
(* A process is the number of its birth; its pid may be taken by another   *)
(* one after it ends.  What is sampled is left out: a row is the process   *)
(* that had the pid when the row was begun and when it was finished.  A    *)
(* row equal to the one before it is not repeated.  The CSV is the set of  *)
(* those whose rows are in it.                                             *)
(***************************************************************************)
EXTENDS Naturals, Sequences

CONSTANTS
    Pids,
    MaxBirths    \* bound: processes that start

Monitor == {"process", "system"}
None == "False"       \* process_pid before a process is found
Nobody == 0

ASSUME MonitorsAssumption == MaxBirths \in Nat /\ None \notin Pids

VARIABLES
    holder,    \* holder[q]: the process that has pid q
    births,    \* processes that have started
    apps,      \* those of them that are called process_name
    pc,        \* pc[m]: what monitor m does next
    pid,       \* pid[m]: process_pid
    seen,      \* seen[m]: the process that had the pid when the row was begun
    data,      \* data[m]: the rows
    csv,       \* whose rows are in performance_sc2_r.csv
    own,       \* history: own[m], the process the scan found
    reused,    \* history: monitors whose pid has been taken by another process
    last,      \* history: the monitor that opened the CSV last
    mixed      \* history: both wrote at the same time, or one was killed writing

world   == <<holder, births, apps>>
loop    == <<pid, seen, data, own, reused>>
results == <<csv, last, mixed>>
vars    == <<world, pc, loop, results>>

Births  == 1..MaxBirths
Row     == [flag : BOOLEAN, from : {Nobody} \union Births, to : {Nobody} \union Births]
IdleRow == [flag |-> FALSE, from |-> Nobody, to |-> Nobody]

Writing == {"flush", "close"}
Over    == {"done", "killed"}
Stopped == {"truncate"} \union Writing \union Over
Pcs     == {"scan", "exists", "open", "sample"} \union Stopped

Init ==
    /\ holder = [q \in Pids |-> Nobody] /\ births = 0 /\ apps = {}
    /\ pc = [m \in Monitor |-> "scan"]
    /\ pid = [m \in Monitor |-> None] /\ own = [m \in Monitor |-> Nobody]
    /\ seen = [m \in Monitor |-> Nobody]
    /\ data = [m \in Monitor |-> << >>]
    /\ csv = {"old"} /\ last = "old" /\ mixed = FALSE
    /\ reused = {}

Lives(b) == \E q \in Pids : holder[q] = b

------------------------------------------------------------------------------
(* The processes. *)

Starts(q) ==
    /\ holder[q] = Nobody /\ births < MaxBirths
    /\ births' = births + 1
    /\ holder' = [holder EXCEPT ![q] = births']
    /\ apps' \in {apps, apps \union {births'}}
    /\ reused' = reused \union {m \in Monitor : pid[m] = q}
    /\ UNCHANGED <<pc, pid, seen, data, own, results>>

Ends(q) ==
    /\ holder[q] # Nobody
    /\ holder' = [holder EXCEPT ![q] = Nobody]
    /\ UNCHANGED <<births, apps, pc, loop, results>>

------------------------------------------------------------------------------
(* The loop. *)

Go(m, to) == pc' = [pc EXCEPT ![m] = to]

\* data.append(row)
AddRow(m, row) ==
    data' = [data EXCEPT ![m] =
               IF @ # << >> /\ @[Len(@)] = row THEN @ ELSE Append(@, row)]

NoRow(m) == IF m = "system" THEN AddRow(m, IdleRow) ELSE UNCHANGED data

\* Slip: a scan that finds none ends the loop
ScanOnce(m) ==
    /\ pc[m] = "scan"
    /\ \/ \E q \in Pids :
            /\ holder[q] \in apps
            /\ pid' = [pid EXCEPT ![m] = q] /\ own' = [own EXCEPT ![m] = holder[q]]
            /\ Go(m, "exists")
       \/ /\ \A q \in Pids : holder[q] \notin apps
          /\ Go(m, "truncate") /\ UNCHANGED <<pid, own>>
    /\ UNCHANGED <<world, seen, data, reused, results>>

\* for proc in psutil.process_iter(...).  A scan that finds none is followed by
\* the next one.
Scan(m) ==
    /\ pc[m] = "scan"
    /\ \/ \E q \in Pids :
            /\ holder[q] \in apps
            /\ pid' = [pid EXCEPT ![m] = q] /\ own' = [own EXCEPT ![m] = holder[q]]
            /\ Go(m, "exists") /\ UNCHANGED data
       \/ /\ \A q \in Pids : holder[q] \notin apps
          /\ NoRow(m)
          /\ UNCHANGED <<pc, pid, own>>
    /\ UNCHANGED <<world, seen, reused, results>>

\* Slip: the loop goes on without its break
PidExistsUnbroken(m) ==
    /\ pc[m] = "exists"
    /\ IF holder[pid[m]] # Nobody
       THEN /\ seen' = [seen EXCEPT ![m] = holder[pid[m]]] /\ UNCHANGED data
            /\ Go(m, IF m = "process" THEN "open" ELSE "sample")
       ELSE NoRow(m) /\ UNCHANGED <<pc, seen>>
    /\ UNCHANGED <<world, pid, own, reused, results>>

\* Slip: a pid that is gone is looked for again
PidExistsOrScan(m) ==
    /\ pc[m] = "exists"
    /\ IF holder[pid[m]] # Nobody
       THEN /\ seen' = [seen EXCEPT ![m] = holder[pid[m]]] /\ UNCHANGED data
            /\ Go(m, IF m = "process" THEN "open" ELSE "sample")
       ELSE Go(m, "scan") /\ NoRow(m) /\ UNCHANGED seen
    /\ UNCHANGED <<world, pid, own, reused, results>>

\* if psutil.pid_exists(process_pid): the process monitor then calls
\* monitor_process, the other one samples the machine; else: break
PidExists(m) ==
    /\ pc[m] = "exists"
    /\ \/ /\ holder[pid[m]] # Nobody
          /\ seen' = [seen EXCEPT ![m] = holder[pid[m]]]
          /\ Go(m, IF m = "process" THEN "open" ELSE "sample")
          /\ UNCHANGED data
       \/ /\ holder[pid[m]] = Nobody
          /\ Go(m, "truncate") /\ NoRow(m)
          /\ UNCHANGED seen
    /\ UNCHANGED <<world, pid, own, reused, results>>

\* psutil.Process(pid); monitor_process returns False when there is no such process
OpenProcess ==
    LET m == "process" IN
    /\ pc[m] = "open"
    /\ \/ /\ holder[pid[m]] # Nobody
          /\ seen' = [seen EXCEPT ![m] = holder[pid[m]]]
          /\ Go(m, "sample")
       \/ /\ holder[pid[m]] = Nobody
          /\ seen' = [seen EXCEPT ![m] = Nobody]
          /\ Go(m, "truncate")
    /\ UNCHANGED <<world, pid, data, own, reused, results>>

\* Slip: False on every exception
ReadProcessOrStop ==
    LET m == "process"
        now == holder[pid[m]]
    IN  /\ pc[m] = "sample"
        /\ seen' = [seen EXCEPT ![m] = Nobody]
        /\ \/ /\ now # Nobody /\ Go(m, "exists")
              /\ AddRow(m, [flag |-> TRUE, from |-> seen[m], to |-> now])
           \/ Go(m, "truncate") /\ UNCHANGED data
        /\ UNCHANGED <<world, pid, own, reused, results>>

\* What monitor_process reads from the process: a row, False when it has ended,
\* None on any other exception
ReadProcess ==
    LET m == "process"
        now == holder[pid[m]]
    IN  /\ pc[m] = "sample"
        /\ seen' = [seen EXCEPT ![m] = Nobody]
        /\ \/ /\ now # Nobody /\ Go(m, "exists")
              /\ AddRow(m, [flag |-> TRUE, from |-> seen[m], to |-> now])
           \/ now # Nobody /\ Go(m, "exists") /\ UNCHANGED data
           \/ now = Nobody /\ Go(m, "truncate") /\ UNCHANGED data
        /\ UNCHANGED <<world, pid, own, reused, results>>

\* The "True" row, whose sampling takes 0.1 s
SampleSystem ==
    LET m == "system" IN
    /\ pc[m] = "sample" /\ Go(m, "exists")
    /\ AddRow(m, [flag |-> TRUE, from |-> seen[m], to |-> holder[pid[m]]])
    /\ seen' = [seen EXCEPT ![m] = Nobody]
    /\ UNCHANGED <<world, pid, own, reused, results>>

------------------------------------------------------------------------------
(* The CSV. *)

\* Slip: mode 'a'
OpenToAppend(m) ==
    /\ pc[m] = "truncate" /\ Go(m, "flush")
    /\ last' = m
    /\ mixed' = (mixed \/ \E n \in Monitor : pc[n] \in Writing)
    /\ UNCHANGED <<world, loop, csv>>

\* open('performance_sc2_r.csv', 'w')
Truncate(m) ==
    /\ pc[m] = "truncate" /\ Go(m, "flush")
    /\ csv' = {} /\ last' = m
    /\ mixed' = (mixed \/ \E n \in Monitor : pc[n] \in Writing)
    /\ UNCHANGED <<world, loop>>

\* A full buffer, and what is left when the file is closed.  It is written where
\* the monitor's own bytes end, over what another one has written there.
WriteRows(m) ==
    /\ pc[m] \in Writing
    /\ Go(m, IF pc[m] = "flush" THEN "close" ELSE "done")
    /\ \E others \in SUBSET (csv \ {m}) : csv' = others \union {m}
    /\ UNCHANGED <<world, loop, last, mixed>>

\* The operator stops the monitor.
Killed(m) ==
    /\ pc[m] \notin Over /\ Go(m, "killed")
    /\ mixed' = (mixed \/ pc[m] \in Writing)
    /\ UNCHANGED <<world, loop, csv, last>>

------------------------------------------------------------------------------
Step(m) ==
    \/ Scan(m) \/ PidExists(m)
    \/ m = "process" /\ (OpenProcess \/ ReadProcess)
    \/ m = "system" /\ SampleSystem
    \/ Truncate(m) \/ WriteRows(m)

Next ==
    \/ \E q \in Pids : Starts(q) \/ Ends(q)
    \/ \E m \in Monitor : Step(m) \/ Killed(m)

Spec == Init /\ [][Next]_vars

\* A monitor's loop goes on; nothing is assumed of the processes or the operator.
FairSpec == Spec /\ \A m \in Monitor : WF_vars(Step(m))

------------------------------------------------------------------------------
(* Types of the state. *)
TypeOK ==
    /\ holder \in [Pids -> {Nobody} \union Births]
    /\ births \in 0..MaxBirths /\ apps \subseteq 1..births
    /\ pc \in [Monitor -> Pcs]
    /\ pid \in [Monitor -> {None} \union Pids]
    /\ own \in [Monitor -> {Nobody} \union Births]
    /\ seen \in [Monitor -> {Nobody} \union Births]
    /\ data \in [Monitor -> Seq(Row)]
    /\ csv \subseteq Monitor \union {"old"} /\ last \in Monitor \union {"old"}
    /\ mixed \in BOOLEAN /\ reused \subseteq Monitor

(* A monitor that leaves its loop by itself has found its process and that   *)
(* process has ended: neither an exception while sampling nor a scan that    *)
(* finds none ends it (the else and break of lines 44-57).                   *)
StopsOnlyAfterIt ==
    \A m \in Monitor : pc[m] \in Stopped \ {"killed"} => own[m] # Nobody /\ ~Lives(own[m])

\* The rows of m up to the end of the process it found.
FollowsIt(m) ==
    \A x \in DOMAIN data[m] : data[m][x].flag =>
        /\ data[m][x].from = own[m]
        /\ \A y \in x+1..Len(data[m]) :
              data[m][y].flag \/ (y = Len(data[m]) /\ pc[m] \in Stopped)
        /\ data[m][x].to # own[m] =>
              /\ m = "system" /\ data[m][x].to = Nobody
              /\ \A y \in x+1..Len(data[m]) : ~data[m][y].flag

(* The rows follow the process found, as long as its pid is not taken by     *)
(* another one: "True" rows are of that process from beginning to end, only  *)
(* the last one of the system monitor may outlast it, and no idle row comes  *)
(* between them or after them but the one that ends the loop.                *)
RowsFollowIt == \A m \in Monitor \ reused : FollowsIt(m)

(* Each monitor opens the CSV to replace it, so after the two have stopped   *)
(* it has the rows of the one that opened it last and none of the other's;   *)
(* one that is killed in its loop leaves it as it was.                       *)
CsvOfLast ==
    ~mixed /\ (\A m \in Monitor : pc[m] \notin Writing) => csv = {last}

(* A monitor whose process ends stops, unless it is killed or another        *)
(* process takes the pid (the breaks of lines 55 and 57).                    *)
StopsAfterIt ==
    \A m \in Monitor :
        (own[m] # Nobody /\ ~Lives(own[m])) ~> (pc[m] \in Over \/ m \in reused)

(* A monitor finds a process that keeps running, however many scans found    *)
(* none before: the scan is repeated while process_pid is False (line 43).   *)
FindsIt ==
    <>[](\E b \in apps : Lives(b)) =>
        \A m \in Monitor : <>(pid[m] # None \/ pc[m] = "killed")
==============================================================================
