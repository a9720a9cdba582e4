---------------------------- MODULE MonitorsProofs ----------------------------
(***************************************************************************)
(* Proofs about Monitors, for any pids and any number of processes.        *)
(***************************************************************************)
EXTENDS Monitors, TLAPS

------------------------------------------------------------------------------
(* The inductive invariant, part by part. *)

\* A process has one pid, and the process a monitor found has no other.
OnePid ==
    /\ \A q, r \in Pids : holder[q] = holder[r] => q = r \/ holder[q] = Nobody
    /\ \A q \in Pids : holder[q] <= births
    /\ \A m \in Monitor : own[m] <= births
    /\ \A m \in Monitor, q \in Pids : holder[q] = own[m] => q = pid[m] \/ own[m] = Nobody

\* Where a monitor is says whether it has a pid.
Found ==
    \A m \in Monitor :
        /\ pid[m] = None <=> own[m] = Nobody
        /\ pc[m] = "scan" => pid[m] = None
        /\ pc[m] \in {"exists", "open", "sample"} => pid[m] # None

\* Only the process found or none has the pid, unless another has taken it.
Taken ==
    \A m \in Monitor \ reused : pid[m] # None => holder[pid[m]] \in {own[m], Nobody}

\* While a monitor writes alone, the CSV has only its rows.
WritesAlone ==
    ~mixed => \A m \in Monitor : pc[m] \in Writing =>
        /\ last = m /\ csv \subseteq {m}
        /\ \A n \in Monitor : pc[n] \in Writing => n = m

MonitorsInv ==
    TypeOK /\ OnePid /\ Found /\ Taken /\ StopsOnlyAfterIt /\ WritesAlone /\ CsvOfLast

------------------------------------------------------------------------------
\* Appending to one list of rows, or leaving it as it is.
LEMMA AddRowType ==
    ASSUME data \in [Monitor -> Seq(Row)], NEW m \in Monitor, NEW row \in Row,
           AddRow(m, row)
    PROVE  /\ data' \in [Monitor -> Seq(Row)]
           /\ \A n \in Monitor \ {m} : data'[n] = data[n]
           /\ data'[m] = data[m] \/ data'[m] = Append(data[m], row)
BY DEF AddRow

\* An idle row is a row.
LEMMA NoRowType ==
    ASSUME data \in [Monitor -> Seq(Row)], NEW m \in Monitor, NoRow(m)
    PROVE  /\ data' \in [Monitor -> Seq(Row)]
           /\ \A n \in Monitor \ {m} : data'[n] = data[n]
           /\ data'[m] = data[m] \/ data'[m] = Append(data[m], IdleRow)
<1>1. IdleRow \in Row
  BY DEF IdleRow, Row
<1>2. QED
  BY <1>1, AddRowType DEF NoRow

\* The bound is a number, and pids are told from "no pid".
LEMMA Bounds == MaxBirths \in Nat /\ None \notin Pids
BY MonitorsAssumption DEF None

LEMMA MonitorsInit == Init => MonitorsInv
<1>1. SUFFICES ASSUME Init PROVE MonitorsInv
  OBVIOUS
<1>2. TypeOK
  <2>1. holder \in [Pids -> {Nobody} \union Births] /\ births \in 0..MaxBirths
    BY <1>1, Bounds DEF Init
  <2>2. apps \subseteq 1..births
    BY <1>1 DEF Init
  <2>3. pc \in [Monitor -> Pcs] /\ pid \in [Monitor -> {None} \union Pids]
    BY <1>1 DEF Init, Pcs
  <2>4. /\ own \in [Monitor -> {Nobody} \union Births]
        /\ seen \in [Monitor -> {Nobody} \union Births]
    BY <1>1 DEF Init
  <2>5. data \in [Monitor -> Seq(Row)]
    BY <1>1 DEF Init
  <2>6. /\ csv \subseteq Monitor \union {"old"} /\ last \in Monitor \union {"old"}
        /\ mixed \in BOOLEAN /\ reused \subseteq Monitor
    BY <1>1, Zenon DEF Init
  <2>7. QED
    BY <2>1, <2>2, <2>3, <2>4, <2>5, <2>6 DEF TypeOK
<1>3. OnePid /\ Found /\ Taken
  BY <1>1, Bounds DEF Init, OnePid, Found, Taken, Nobody
<1>4. StopsOnlyAfterIt /\ WritesAlone /\ CsvOfLast
  BY <1>1 DEF Init, StopsOnlyAfterIt, WritesAlone, CsvOfLast, Stopped, Writing, Over
<1>5. QED
  BY <1>2, <1>3, <1>4 DEF MonitorsInv

\* Every step leaves the state well-typed.
LEMMA TypeNext == TypeOK /\ OnePid /\ Found /\ [Next]_vars => TypeOK'
<1>1. SUFFICES ASSUME TypeOK, OnePid, Found, [Next]_vars PROVE TypeOK'
  OBVIOUS
<1> USE DEF TypeOK
<1>2. ASSUME NEW q \in Pids, Starts(q) PROVE TypeOK'
  <2>1. births' = births + 1 /\ births < MaxBirths /\ births \in Nat
    BY <1>1, <1>2, Bounds DEF Starts
  <2>2. births' \in Births /\ births' \in 0..MaxBirths /\ 1..births \subseteq 1..births'
    BY <2>1, Bounds DEF Births
  <2>3. holder' \in [Pids -> {Nobody} \union Births]
    BY <1>1, <1>2, <2>2 DEF Starts
  <2>4. apps' \subseteq 1..births'
    <3>1. births' \in 1..births'
      BY <2>1
    <3>2. QED
      BY <1>1, <1>2, <2>2, <3>1, Zenon DEF Starts
  <2>5. reused' \subseteq Monitor
    BY <1>1, <1>2 DEF Starts
  <2>6. UNCHANGED <<pc, pid, seen, data, own, csv, last, mixed>>
    BY <1>2 DEF Starts, results
  <2>7. QED
    BY <1>1, <2>2, <2>3, <2>4, <2>5, <2>6
<1>3. ASSUME NEW q \in Pids, Ends(q) PROVE TypeOK'
  BY <1>1, <1>3 DEF Ends, loop, results
<1>4. ASSUME NEW m \in Monitor, Scan(m) PROVE TypeOK'
  <2>1. UNCHANGED <<holder, births, apps, seen, reused, csv, last, mixed>>
    BY <1>4 DEF Scan, world, results
  <2>2. CASE NoRow(m) /\ UNCHANGED <<pc, pid, own>>
    <3>1. data' \in [Monitor -> Seq(Row)]
      BY <1>1, <2>2, NoRowType
    <3>2. QED
      BY <1>1, <2>1, <2>2, <3>1
  <2>3. CASE \E q \in Pids :
               /\ pid' = [pid EXCEPT ![m] = q] /\ own' = [own EXCEPT ![m] = holder[q]]
               /\ Go(m, "exists") /\ UNCHANGED data
    <3>1. pc' \in [Monitor -> Pcs]
      BY <1>1, <2>3 DEF Go, Pcs
    <3>2. /\ pid' \in [Monitor -> {None} \union Pids]
          /\ own' \in [Monitor -> {Nobody} \union Births]
      BY <1>1, <2>3
    <3>3. QED
      BY <1>1, <2>1, <2>3, <3>1, <3>2
  <2>4. QED
    BY <1>4, <2>2, <2>3, Zenon DEF Scan
<1>5. ASSUME NEW m \in Monitor, PidExists(m) PROVE TypeOK'
  <2>1. UNCHANGED <<holder, births, apps, pid, own, reused, csv, last, mixed>>
    BY <1>5 DEF PidExists, world, results
  <2>2. pid[m] \in Pids
    BY <1>1, <1>5 DEF PidExists, Found
  <2>3. pc' \in [Monitor -> Pcs]
    BY <1>1, <1>5 DEF PidExists, Go, Pcs, Stopped
  <2>4. seen' \in [Monitor -> {Nobody} \union Births]
    BY <1>1, <1>5, <2>2 DEF PidExists
  <2>5. data' \in [Monitor -> Seq(Row)]
    <3>1. UNCHANGED data \/ NoRow(m)
      BY <1>5, Zenon DEF PidExists
    <3>2. QED
      BY <1>1, <3>1, NoRowType
  <2>6. QED
    BY <1>1, <2>1, <2>3, <2>4, <2>5
<1>6. ASSUME OpenProcess PROVE TypeOK'
  <2>1. UNCHANGED <<holder, births, apps, pid, data, own, reused, csv, last, mixed>>
    BY <1>6 DEF OpenProcess, world, results
  <2>2. "process" \in Monitor /\ pc["process"] = "open"
    BY <1>6 DEF OpenProcess, Monitor
  <2>3. pid["process"] \in Pids
    BY <1>1, <2>2 DEF Found
  <2>4. pc' \in [Monitor -> Pcs]
    BY <1>1, <1>6, <2>2 DEF OpenProcess, Go, Pcs, Stopped
  <2>5. seen' \in [Monitor -> {Nobody} \union Births]
    BY <1>1, <1>6, <2>2, <2>3 DEF OpenProcess
  <2>6. QED
    BY <1>1, <2>1, <2>4, <2>5
<1>7. ASSUME ReadProcess PROVE TypeOK'
  <2>1. UNCHANGED <<holder, births, apps, pid, own, reused, csv, last, mixed>>
    BY <1>7 DEF ReadProcess, world, results
  <2>2. "process" \in Monitor /\ pc["process"] = "sample"
    BY <1>7 DEF ReadProcess, Monitor
  <2>3. pid["process"] \in Pids
    BY <1>1, <2>2 DEF Found
  <2>4. pc' \in [Monitor -> Pcs]
    BY <1>1, <1>7, <2>2 DEF ReadProcess, Go, Pcs, Stopped
  <2>5. seen' \in [Monitor -> {Nobody} \union Births]
    BY <1>1, <1>7, <2>2 DEF ReadProcess
  <2>6. data' \in [Monitor -> Seq(Row)]
    <3> DEFINE m   == "process"
               row == [flag |-> TRUE, from |-> seen[m], to |-> holder[pid[m]]]
    <3>1. row \in Row
      BY <1>1, <2>2, <2>3 DEF Row
    <3>2. UNCHANGED data \/ AddRow("process", row)
      BY <1>7, Zenon DEF ReadProcess
    <3>3. QED
      BY <1>1, <2>2, <3>1, <3>2, AddRowType
  <2>7. QED
    BY <1>1, <2>1, <2>4, <2>5, <2>6
<1>8. ASSUME SampleSystem PROVE TypeOK'
  <2>1. UNCHANGED <<holder, births, apps, pid, own, reused, csv, last, mixed>>
    BY <1>8 DEF SampleSystem, world, results
  <2>2. "system" \in Monitor /\ pc["system"] = "sample"
    BY <1>8 DEF SampleSystem, Monitor
  <2>3. pid["system"] \in Pids
    BY <1>1, <2>2 DEF Found
  <2>4. pc' \in [Monitor -> Pcs]
    BY <1>1, <1>8, <2>2 DEF SampleSystem, Go, Pcs
  <2>5. seen' \in [Monitor -> {Nobody} \union Births]
    BY <1>1, <1>8, <2>2 DEF SampleSystem
  <2>6. data' \in [Monitor -> Seq(Row)]
    <3> DEFINE row == [flag |-> TRUE, from |-> seen["system"], to |-> holder[pid["system"]]]
    <3>1. row \in Row
      BY <1>1, <2>2, <2>3 DEF Row
    <3>2. AddRow("system", row)
      BY <1>8 DEF SampleSystem
    <3>3. QED
      BY <1>1, <2>2, <3>1, <3>2, AddRowType
  <2>7. QED
    BY <1>1, <2>1, <2>4, <2>5, <2>6
<1>9. ASSUME NEW m \in Monitor, Truncate(m) PROVE TypeOK'
  <2>1. pc' \in [Monitor -> Pcs]
    BY <1>1, <1>9 DEF Truncate, Go, Pcs, Stopped, Writing
  <2>2. mixed' \in BOOLEAN
    BY <1>9, Zenon DEF Truncate
  <2>3. /\ csv' = {} /\ last' = m
        /\ UNCHANGED <<holder, births, apps, pid, seen, data, own, reused>>
    BY <1>9 DEF Truncate, world, loop
  <2>4. QED
    BY <1>1, <2>1, <2>2, <2>3
<1>10. ASSUME NEW m \in Monitor, WriteRows(m) PROVE TypeOK'
  <2>1. pc' \in [Monitor -> Pcs]
    BY <1>1, <1>10 DEF WriteRows, Go, Pcs, Stopped, Writing, Over
  <2>2. csv' \subseteq Monitor \union {"old"}
    BY <1>1, <1>10 DEF WriteRows
  <2>3. UNCHANGED <<holder, births, apps, pid, seen, data, own, reused, last, mixed>>
    BY <1>10 DEF WriteRows, world, loop
  <2>4. QED
    BY <1>1, <2>1, <2>2, <2>3
<1>11. ASSUME NEW m \in Monitor, Killed(m) PROVE TypeOK'
  <2>1. pc' \in [Monitor -> Pcs]
    BY <1>1, <1>11 DEF Killed, Go, Pcs, Stopped, Over
  <2>2. mixed' \in BOOLEAN
    BY <1>11, Zenon DEF Killed
  <2>3. UNCHANGED <<holder, births, apps, pid, seen, data, own, reused, csv, last>>
    BY <1>11 DEF Killed, world, loop
  <2>4. QED
    BY <1>1, <2>1, <2>2, <2>3
<1>12. CASE UNCHANGED vars
  BY <1>1, <1>12 DEF vars, world, loop, results
<1>13. QED
  BY <1>1, <1>2, <1>3, <1>4, <1>5, <1>6, <1>7, <1>8, <1>9, <1>10, <1>11, <1>12, Zenon
     DEF Next, Step


------------------------------------------------------------------------------
(* Steps of a monitor in its loop: what they leave alone. *)

\* A step of a monitor that has its pid already and neither begins nor ends to
\* write: the processes, the pids and the CSV are as before.
LEMMA LoopStep ==
    ASSUME MonitorsInv, NEW m \in Monitor, NEW to \in Pcs, Go(m, to),
           UNCHANGED <<world, pid, own, reused, results>>,
           pc[m] \in {"exists", "open", "sample"},
           to \in {"exists", "open", "sample", "truncate"},
           to = "truncate" => holder[pid[m]] = Nobody
    PROVE  OnePid' /\ Found' /\ Taken' /\ StopsOnlyAfterIt' /\ WritesAlone' /\ CsvOfLast'
<1>1. UNCHANGED <<holder, births, own, pid, reused, csv, last, mixed>>
  BY DEF world, results
<1>2. pc' \in [Monitor -> Pcs] /\ pc'[m] = to /\ \A n \in Monitor \ {m} : pc'[n] = pc[n]
  BY DEF Go, MonitorsInv, TypeOK
<1>3. OnePid' /\ Taken'
  BY <1>1 DEF MonitorsInv, OnePid, Taken
<1>4. Found'
  BY <1>1, <1>2 DEF MonitorsInv, Found
<1>5. StopsOnlyAfterIt'
  <2>1. ASSUME to = "truncate" PROVE own[m] # Nobody /\ ~Lives(own[m])
    <3>1. pid[m] # None /\ own[m] # Nobody
      BY DEF MonitorsInv, Found
    <3>2. \A q \in Pids : holder[q] = own[m] => q = pid[m]
      BY <3>1 DEF MonitorsInv, OnePid
    <3>3. QED
      BY <2>1, <3>1, <3>2 DEF Lives
  <2>2. \A n \in Monitor : Lives(own[n])' <=> Lives(own[n])
    BY <1>1 DEF Lives
  <2>3. to \in Stopped => to = "truncate"
    BY DEF Stopped, Writing, Over
  <2>4. QED
    BY <1>1, <1>2, <2>1, <2>2, <2>3 DEF MonitorsInv, StopsOnlyAfterIt
<1>6. \A n \in Monitor : pc'[n] \in Writing <=> pc[n] \in Writing
  BY <1>2 DEF Writing
<1>7. WritesAlone' /\ CsvOfLast'
  BY <1>1, <1>6 DEF MonitorsInv, WritesAlone, CsvOfLast
<1>8. QED
  BY <1>3, <1>4, <1>5, <1>7

\* Every step keeps the invariant.
LEMMA MonitorsNext == MonitorsInv /\ [Next]_vars => MonitorsInv'
<1>1. SUFFICES ASSUME MonitorsInv, [Next]_vars PROVE MonitorsInv'
  OBVIOUS
<1>2. TypeOK'
  BY <1>1, TypeNext DEF MonitorsInv
<1> DEFINE Rest == OnePid /\ Found /\ Taken /\ StopsOnlyAfterIt /\ WritesAlone /\ CsvOfLast
<1>3. ASSUME NEW q \in Pids, Starts(q) PROVE Rest'
  <2>1. births' = births + 1 /\ births \in Nat /\ births' # Nobody
    BY <1>1, <1>3, Bounds DEF Starts, MonitorsInv, TypeOK, Nobody
  <2>2. UNCHANGED <<pc, pid, own, csv, last, mixed>>
    BY <1>3 DEF Starts, results
  <2>3. /\ holder[q] = Nobody /\ holder'[q] = births'
        /\ \A r \in Pids \ {q} : holder'[r] = holder[r]
    BY <1>1, <1>3 DEF Starts, MonitorsInv, TypeOK
  <2>4. /\ \A r \in Pids : holder[r] \in Nat /\ holder[r] <= births
        /\ \A m \in Monitor : own[m] \in Nat /\ own[m] <= births
    BY <1>1 DEF MonitorsInv, TypeOK, OnePid, Births, Nobody
  <2>5. OnePid'
    <3>1. /\ \A r \in Pids : holder[r] # births' /\ holder[r] <= births'
          /\ \A m \in Monitor : own[m] # births' /\ own[m] <= births'
          /\ births' <= births'
      BY <2>1, <2>4
    <3>2. QED
      BY <1>1, <2>2, <2>3, <3>1 DEF MonitorsInv, OnePid
  <2>6. Found'
    BY <1>1, <2>2 DEF MonitorsInv, Found
  <2>7. Taken'
    <3>1. \A m \in Monitor : m \notin reused' => m \notin reused /\ pid[m] # q
      BY <1>3 DEF Starts
    <3>2. \A m \in Monitor : pid[m] # None => pid[m] \in Pids
      BY <1>1 DEF MonitorsInv, TypeOK
    <3>3. QED
      BY <1>1, <2>2, <2>3, <3>1, <3>2 DEF MonitorsInv, Taken
  <2>8. StopsOnlyAfterIt'
    <3>1. \A m \in Monitor : own[m] # births'
      BY <2>1, <2>4
    <3>2. \A m \in Monitor : Lives(own[m])' => Lives(own[m])
      BY <2>2, <2>3, <3>1 DEF Lives
    <3>3. QED
      BY <1>1, <2>2, <3>2 DEF MonitorsInv, StopsOnlyAfterIt
  <2>9. WritesAlone' /\ CsvOfLast'
    BY <1>1, <2>2 DEF MonitorsInv, WritesAlone, CsvOfLast
  <2>10. QED
    BY <2>5, <2>6, <2>7, <2>8, <2>9
<1>4. ASSUME NEW q \in Pids, Ends(q) PROVE Rest'
  <2>1. UNCHANGED <<births, pc, pid, own, reused, csv, last, mixed>>
    BY <1>4 DEF Ends, loop, results
  <2>2. holder'[q] = Nobody /\ \A r \in Pids \ {q} : holder'[r] = holder[r]
    BY <1>1, <1>4 DEF Ends, MonitorsInv, TypeOK
  <2>3. 0 <= births
    BY <1>1 DEF MonitorsInv, TypeOK
  <2>4. OnePid'
    BY <1>1, <2>1, <2>2, <2>3 DEF MonitorsInv, OnePid, Nobody
  <2>5. Found'
    BY <1>1, <2>1 DEF MonitorsInv, Found
  <2>6. Taken'
    BY <1>1, <2>1, <2>2 DEF MonitorsInv, TypeOK, Taken
  <2>7. StopsOnlyAfterIt'
    <3>1. \A m \in Monitor : own[m] # Nobody => (Lives(own[m])' => Lives(own[m]))
      BY <2>1, <2>2 DEF Lives
    <3>2. QED
      BY <1>1, <2>1, <3>1 DEF MonitorsInv, StopsOnlyAfterIt
  <2>8. WritesAlone' /\ CsvOfLast'
    BY <1>1, <2>1 DEF MonitorsInv, WritesAlone, CsvOfLast
  <2>9. QED
    BY <2>4, <2>5, <2>6, <2>7, <2>8
<1>5. ASSUME NEW m \in Monitor, Scan(m) PROVE Rest'
  <2>1. UNCHANGED <<holder, births, apps, reused, csv, last, mixed>> /\ pc[m] = "scan"
    BY <1>5 DEF Scan, world, results
  <2>2. CASE UNCHANGED <<pc, pid, own>>
    BY <1>1, <2>1, <2>2
       DEF MonitorsInv, OnePid, Found, Taken, StopsOnlyAfterIt, WritesAlone,
           CsvOfLast, Lives
  <2>3. ASSUME NEW q \in Pids, holder[q] \in apps,
               pid' = [pid EXCEPT ![m] = q], own' = [own EXCEPT ![m] = holder[q]],
               Go(m, "exists")
        PROVE  Rest'
    <3>1. holder[q] # Nobody /\ q # None
      BY <1>1, <2>3, Bounds DEF MonitorsInv, TypeOK, Nobody
    <3>2. /\ pc'[m] = "exists" /\ pid'[m] = q /\ own'[m] = holder[q]
          /\ \A n \in Monitor \ {m} :
                pc'[n] = pc[n] /\ pid'[n] = pid[n] /\ own'[n] = own[n]
      BY <1>1, <2>3 DEF Go, MonitorsInv, TypeOK
    <3>3. OnePid'
      BY <1>1, <2>1, <2>3, <3>1, <3>2 DEF MonitorsInv, OnePid
    <3>4. Found'
      BY <1>1, <3>1, <3>2 DEF MonitorsInv, Found
    <3>5. Taken'
      BY <1>1, <2>1, <3>1, <3>2 DEF MonitorsInv, Taken
    <3>6. StopsOnlyAfterIt'
      <4>1. \A n \in Monitor \ {m} : Lives(own[n])' <=> Lives(own[n])
        BY <2>1, <3>2 DEF Lives
      <4>2. QED
        BY <1>1, <3>2, <4>1 DEF MonitorsInv, StopsOnlyAfterIt, Stopped, Writing, Over
    <3>7. \A n \in Monitor : pc'[n] \in Writing <=> pc[n] \in Writing
      BY <2>1, <3>2 DEF Writing
    <3>8. WritesAlone' /\ CsvOfLast'
      BY <1>1, <2>1, <3>7 DEF MonitorsInv, WritesAlone, CsvOfLast
    <3>9. QED
      BY <3>3, <3>4, <3>5, <3>6, <3>8
  <2>4. QED
    BY <1>5, <2>2, <2>3, Zenon DEF Scan
<1>6. ASSUME NEW m \in Monitor, PidExists(m) PROVE Rest'
  <2>1. UNCHANGED <<world, pid, own, reused, results>> /\ pc[m] = "exists"
    BY <1>6 DEF PidExists
  <2>2. \/ Go(m, "open") \/ Go(m, "sample")
        \/ holder[pid[m]] = Nobody /\ Go(m, "truncate")
    BY <1>6 DEF PidExists
  <2>3. QED
    BY <1>1, <2>1, <2>2, LoopStep DEF Pcs, Stopped
<1>7. ASSUME OpenProcess PROVE Rest'
  <2>1. UNCHANGED <<world, pid, own, reused, results>> /\ pc["process"] = "open"
    BY <1>7 DEF OpenProcess
  <2>2. \/ Go("process", "sample")
        \/ holder[pid["process"]] = Nobody /\ Go("process", "truncate")
    BY <1>7 DEF OpenProcess
  <2>3. QED
    BY <1>1, <2>1, <2>2, LoopStep DEF Pcs, Stopped, Monitor
<1>8. ASSUME ReadProcess PROVE Rest'
  <2>1. UNCHANGED <<world, pid, own, reused, results>> /\ pc["process"] = "sample"
    BY <1>8 DEF ReadProcess
  <2>2. \/ Go("process", "exists")
        \/ holder[pid["process"]] = Nobody /\ Go("process", "truncate")
    BY <1>8 DEF ReadProcess
  <2>3. QED
    BY <1>1, <2>1, <2>2, LoopStep DEF Pcs, Stopped, Monitor
<1>9. ASSUME SampleSystem PROVE Rest'
  <2>1. UNCHANGED <<world, pid, own, reused, results>> /\ pc["system"] = "sample"
    BY <1>9 DEF SampleSystem
  <2>2. Go("system", "exists")
    BY <1>9 DEF SampleSystem
  <2>3. QED
    BY <1>1, <2>1, <2>2, LoopStep DEF Pcs, Stopped, Monitor
<1>10. ASSUME NEW m \in Monitor, NEW to \in Stopped, Go(m, to), pc[m] \notin Over,
              pc[m] \in Stopped \/ to = "killed",
              UNCHANGED <<holder, births, own, pid, reused>>
       PROVE  OnePid' /\ Found' /\ Taken' /\ StopsOnlyAfterIt'
  <2>1. pc'[m] = to /\ \A n \in Monitor \ {m} : pc'[n] = pc[n]
    BY <1>1, <1>10 DEF Go, MonitorsInv, TypeOK
  <2>2. OnePid' /\ Taken'
    BY <1>1, <1>10 DEF MonitorsInv, OnePid, Taken
  <2>3. Found'
    BY <1>1, <1>10, <2>1 DEF MonitorsInv, Found, Stopped, Writing, Over
  <2>4. \A n \in Monitor : Lives(own[n])' <=> Lives(own[n])
    BY <1>10 DEF Lives
  <2>5. pc[m] # "killed"
    BY <1>10 DEF Over
  <2>6. StopsOnlyAfterIt'
    BY <1>1, <1>10, <2>1, <2>4, <2>5 DEF MonitorsInv, StopsOnlyAfterIt
  <2>7. QED
    BY <2>2, <2>3, <2>6
<1>11. ASSUME NEW m \in Monitor, Truncate(m) PROVE Rest'
  <2>1. /\ pc[m] = "truncate" /\ Go(m, "flush") /\ csv' = {} /\ last' = m
        /\ UNCHANGED <<holder, births, own, pid, reused>>
    BY <1>11 DEF Truncate, world, loop
  <2>2. OnePid' /\ Found' /\ Taken' /\ StopsOnlyAfterIt'
    BY <1>10, <2>1 DEF Stopped, Writing, Over
  <2>3. pc'[m] = "flush" /\ \A n \in Monitor \ {m} : pc'[n] = pc[n]
    BY <1>1, <2>1 DEF Go, MonitorsInv, TypeOK
  <2>4. ~mixed' => \A n \in Monitor : pc[n] \notin Writing
    BY <1>11 DEF Truncate
  <2>5. WritesAlone'
    BY <2>1, <2>3, <2>4 DEF WritesAlone
  <2>6. CsvOfLast'
    BY <2>3 DEF CsvOfLast, Writing
  <2>7. QED
    BY <2>2, <2>5, <2>6
<1>12. ASSUME NEW m \in Monitor, WriteRows(m) PROVE Rest'
  <2>1. /\ pc[m] \in Writing /\ UNCHANGED <<last, mixed>>
        /\ UNCHANGED <<holder, births, own, pid, reused>>
    BY <1>12 DEF WriteRows, world, loop
  <2>2. PICK to \in {"close", "done"} : Go(m, to)
    BY <1>12 DEF WriteRows
  <2>3. OnePid' /\ Found' /\ Taken' /\ StopsOnlyAfterIt'
    BY <1>10, <2>1, <2>2 DEF Stopped, Writing, Over
  <2>4. pc'[m] = to /\ \A n \in Monitor \ {m} : pc'[n] = pc[n]
    BY <1>1, <2>2 DEF Go, MonitorsInv, TypeOK
  <2>5. ASSUME ~mixed
        PROVE  csv' = {m} /\ last = m /\ \A n \in Monitor : pc[n] \in Writing => n = m
    <3>1. last = m /\ csv \subseteq {m} /\ \A n \in Monitor : pc[n] \in Writing => n = m
      BY <1>1, <2>1, <2>5 DEF MonitorsInv, WritesAlone
    <3>2. PICK others \in SUBSET (csv \ {m}) : csv' = others \union {m}
      BY <1>12 DEF WriteRows
    <3>3. QED
      BY <3>1, <3>2
  <2>6. WritesAlone'
    BY <2>1, <2>4, <2>5 DEF WritesAlone
  <2>7. CsvOfLast'
    BY <2>1, <2>5 DEF CsvOfLast
  <2>8. QED
    BY <2>3, <2>6, <2>7
<1>13. ASSUME NEW m \in Monitor, Killed(m) PROVE Rest'
  <2>1. /\ pc[m] \notin Over /\ Go(m, "killed") /\ UNCHANGED <<csv, last>>
        /\ UNCHANGED <<holder, births, own, pid, reused>>
    BY <1>13 DEF Killed, world, loop
  <2>2. OnePid' /\ Found' /\ Taken' /\ StopsOnlyAfterIt'
    BY <1>10, <2>1 DEF Stopped, Over
  <2>3. pc'[m] = "killed" /\ \A n \in Monitor \ {m} : pc'[n] = pc[n]
    BY <1>1, <2>1 DEF Go, MonitorsInv, TypeOK
  <2>4. ~mixed' => ~mixed /\ pc[m] \notin Writing
    BY <1>13 DEF Killed
  <2>5. ~mixed' => \A n \in Monitor : pc'[n] \in Writing <=> pc[n] \in Writing
    BY <2>3, <2>4 DEF Writing
  <2>6. WritesAlone'
    BY <1>1, <2>1, <2>4, <2>5 DEF MonitorsInv, WritesAlone
  <2>7. CsvOfLast'
    BY <1>1, <2>1, <2>4, <2>5 DEF MonitorsInv, CsvOfLast
  <2>8. QED
    BY <2>2, <2>6, <2>7
<1>14. ASSUME UNCHANGED vars PROVE Rest'
  <2>1. UNCHANGED <<holder, births, pc, pid, own, reused, csv, last, mixed>>
    BY <1>14 DEF vars, world, loop, results
  <2>2. OnePid' /\ Found' /\ Taken'
    BY <1>1, <2>1 DEF MonitorsInv, OnePid, Found, Taken
  <2>3. StopsOnlyAfterIt' /\ WritesAlone' /\ CsvOfLast'
    BY <1>1, <2>1 DEF MonitorsInv, StopsOnlyAfterIt, WritesAlone, CsvOfLast, Lives
  <2>4. QED
    BY <2>2, <2>3
<1> HIDE DEF Rest
<1>15. Rest'
  BY <1>1, <1>3, <1>4, <1>5, <1>6, <1>7, <1>8, <1>9, <1>11, <1>12, <1>13, <1>14, Zenon
     DEF Next, Step
<1>16. QED
  BY <1>2, <1>15 DEF MonitorsInv, Rest

(* The invariant holds of every run of the two monitors. *)
THEOREM MonitorsInductive == Spec => []MonitorsInv
BY MonitorsInit, MonitorsNext, PTL DEF Spec

(* Types: any pids, any number of processes. *)
THEOREM MonitorsTypes == Spec => []TypeOK
<1>1. MonitorsInv => TypeOK
  BY DEF MonitorsInv
<1>2. QED
  BY <1>1, MonitorsInductive, PTL

(* Whatever processes start, end and take pids again, a monitor that leaves  *)
(* its loop by itself has found its process and outlived it.                 *)
THEOREM StopsAreJustified == Spec => []StopsOnlyAfterIt
<1>1. MonitorsInv => StopsOnlyAfterIt
  BY DEF MonitorsInv
<1>2. QED
  BY <1>1, MonitorsInductive, PTL

(* However the monitors' ends fall, the CSV has the rows of the one that     *)
(* opened it last, unless they write at the same time or one is killed       *)
(* writing.                                                                  *)
THEOREM CsvIsOfLast == Spec => []CsvOfLast
<1>1. MonitorsInv => CsvOfLast
  BY DEF MonitorsInv
<1>2. QED
  BY <1>1, MonitorsInductive, PTL


------------------------------------------------------------------------------
(* The rows. *)

\* What holds of the rows of a monitor whose pid has not been taken: without a
\* process there are only idle ones, the row being made is of the process found,
\* and a row that outlasted it is the last before the loop ends.
RowInv(m) ==
    /\ FollowsIt(m)
    /\ pid[m] = None => \A x \in DOMAIN data[m] : ~data[m][x].flag
    /\ pc[m] \in {"open", "sample"} => seen[m] = own[m]
    /\ \A x \in DOMAIN data[m] : data[m][x].flag /\ data[m][x].to # own[m] =>
          pc[m] \notin {"open", "sample"} /\ holder[pid[m]] = Nobody

RowsInv == \A m \in Monitor \ reused : RowInv(m)

\* The rows stay as they are.
LEMMA RowsStay ==
    ASSUME MonitorsInv, NEW m \in Monitor, RowInv(m),
           data'[m] = data[m], own'[m] = own[m], pid'[m] = pid[m],
           pc[m] \in Stopped => pc'[m] \in Stopped,
           pc'[m] \in {"open", "sample"} => seen'[m] = own[m],
           \A x \in DOMAIN data[m] : data[m][x].flag /\ data[m][x].to # own[m] =>
              pc'[m] \notin {"open", "sample"} /\ holder'[pid[m]] = Nobody
    PROVE  RowInv(m)'
<1>1. data[m] \in Seq(Row) /\ DOMAIN data[m] = 1..Len(data[m])
  BY DEF MonitorsInv, TypeOK
<1>2. FollowsIt(m)'
  BY DEF RowInv, FollowsIt
<1>3. QED
  BY <1>2 DEF RowInv

\* An idle row is added.
LEMMA RowsIdle ==
    ASSUME MonitorsInv, NEW m \in Monitor, RowInv(m),
           data'[m] = Append(data[m], IdleRow), own'[m] = own[m], pid'[m] = pid[m],
           UNCHANGED holder,
           pid[m] = None \/ pc'[m] \in Stopped, pc[m] \notin Stopped,
           pc'[m] \notin {"open", "sample"}
    PROVE  RowInv(m)'
<1> DEFINE n == Len(data[m])
<1>1. data[m] \in Seq(Row) /\ n \in Nat /\ DOMAIN data[m] = 1..n
  BY DEF MonitorsInv, TypeOK
<1>2. /\ data'[m] \in Seq(Row \union {IdleRow}) /\ DOMAIN data'[m] = 1..n+1
      /\ Len(data'[m]) = n + 1 /\ ~data'[m][n+1].flag
      /\ \A x \in 1..n : data'[m][x] = data[m][x]
  BY <1>1 DEF IdleRow
<1>3. \A x \in 1..n+1 : data'[m][x].flag => x \in 1..n
  BY <1>1, <1>2
<1>4. FollowsIt(m)'
  <2>1. SUFFICES ASSUME NEW x \in 1..n, data[m][x].flag
                 PROVE  /\ data[m][x].from = own[m]
                        /\ \A y \in x+1..n+1 :
                              data'[m][y].flag \/ (y = n + 1 /\ pc'[m] \in Stopped)
                        /\ data[m][x].to # own[m] =>
                              /\ m = "system" /\ data[m][x].to = Nobody
                              /\ \A y \in x+1..n+1 : ~data'[m][y].flag
    BY <1>2, <1>3 DEF FollowsIt
  <2>2. pc'[m] \in Stopped
    BY <1>1, <2>1 DEF RowInv
  <2>3. \A y \in x+1..n : data'[m][y] = data[m][y] /\ data[m][y].flag
    BY <1>1, <1>2, <2>1 DEF RowInv, FollowsIt
  <2>4. \A y \in x+1..n+1 : y = n + 1 \/ y \in x+1..n
    BY <1>1
  <2>5. /\ data[m][x].from = own[m]
        /\ data[m][x].to # own[m] =>
              /\ m = "system" /\ data[m][x].to = Nobody
              /\ \A y \in x+1..n : ~data[m][y].flag
    BY <1>1, <2>1 DEF RowInv, FollowsIt
  <2>6. QED
    BY <1>2, <2>2, <2>3, <2>4, <2>5
<1>5. QED
  BY <1>1, <1>2, <1>3, <1>4 DEF RowInv

\* A "True" row is added: of the process found, or of the system monitor when
\* that process has just ended.
LEMMA RowsMore ==
    ASSUME MonitorsInv, NEW m \in Monitor, RowInv(m), pc[m] = "sample",
           NEW to \in {Nobody, own[m]},
           to # own[m] => m = "system" /\ holder[pid[m]] = Nobody,
           data'[m] = Append(data[m], [flag |-> TRUE, from |-> seen[m], to |-> to]),
           own'[m] = own[m], pid'[m] = pid[m], UNCHANGED holder, pc'[m] = "exists"
    PROVE  RowInv(m)'
<1> DEFINE n == Len(data[m])
           row == [flag |-> TRUE, from |-> seen[m], to |-> to]
<1>1. data[m] \in Seq(Row) /\ n \in Nat /\ DOMAIN data[m] = 1..n
  BY DEF MonitorsInv, TypeOK
<1>2. row.flag /\ row.from = own[m] /\ row.to = to
  BY DEF RowInv
<1> HIDE DEF row
<1>3. /\ DOMAIN data'[m] = 1..n+1 /\ Len(data'[m]) = n + 1 /\ data'[m][n+1] = row
      /\ \A x \in 1..n : data'[m][x] = data[m][x]
  BY <1>1 DEF row
<1>4. pc[m] \notin Stopped
  BY DEF Stopped, Writing, Over
<1>5. \A x \in 1..n : data[m][x].flag => data[m][x].to = own[m]
  BY <1>1 DEF RowInv
<1>6. FollowsIt(m)'
  <2>1. SUFFICES ASSUME NEW x \in 1..n+1, data'[m][x].flag
                 PROVE  /\ data'[m][x].from = own[m]
                        /\ \A y \in x+1..n+1 : data'[m][y].flag
                        /\ data'[m][x].to # own[m] =>
                              /\ m = "system" /\ data'[m][x].to = Nobody
                              /\ \A y \in x+1..n+1 : ~data'[m][y].flag
    BY <1>3 DEF FollowsIt
  <2>2. CASE x = n + 1
    <3>1. \A y \in x+1..n+1 : FALSE
      BY <1>1, <2>2
    <3>2. QED
      BY <1>2, <1>3, <2>2, <3>1
  <2>3. CASE x \in 1..n
    <3>1. \A y \in x+1..n+1 : y = n + 1 \/ (y \in x+1..n /\ y \in 1..n)
      BY <1>1, <2>3
    <3>2. data[m][x].flag /\ data[m][x].from = own[m] /\ \A y \in x+1..n : data[m][y].flag
      BY <1>1, <1>3, <1>4, <2>1, <2>3 DEF RowInv, FollowsIt
    <3>3. QED
      BY <1>2, <1>3, <1>5, <2>3, <3>1, <3>2
  <2>4. x = n + 1 \/ x \in 1..n
    BY <1>1
  <2>5. QED
    BY <2>2, <2>3, <2>4, Zenon
<1>7. pid[m] # None
  BY DEF MonitorsInv, Found
<1>8. \A x \in 1..n+1 : data'[m][x].flag /\ data'[m][x].to # own[m] =>
        holder[pid[m]] = Nobody
  BY <1>1, <1>2, <1>3, <1>5
<1>9. QED
  BY <1>3, <1>6, <1>7, <1>8 DEF RowInv


LEMMA RowsInit == Init => RowsInv
BY DEF Init, RowsInv, RowInv, FollowsIt

\* Every step keeps the rows in order.
LEMMA RowsNext == MonitorsInv /\ RowsInv /\ [Next]_vars => RowsInv'
<1>1. SUFFICES ASSUME MonitorsInv, RowsInv, [Next]_vars,
                      NEW n \in Monitor, n \notin reused'
               PROVE  RowInv(n)'
  BY DEF RowsInv
<1> USE DEF MonitorsInv
<1>2. n \notin reused
  BY <1>1 DEF Next, Step, Starts, Ends, Scan, PidExists, OpenProcess, ReadProcess,
              SampleSystem, Truncate, WriteRows, Killed, loop, vars
<1>3. RowInv(n) /\ (pid[n] # None => pid[n] \in Pids)
  BY <1>1, <1>2 DEF RowsInv, TypeOK
<1>4. /\ pc[n] \in {"open", "sample"} => seen[n] = own[n]
      /\ \A x \in DOMAIN data[n] : data[n][x].flag /\ data[n][x].to # own[n] =>
            pc[n] \notin {"open", "sample"} /\ holder[pid[n]] = Nobody /\ pid[n] \in Pids
  BY <1>3 DEF RowInv
\* A step that leaves n, its pid's holder and its rows alone.
<1>5. ASSUME UNCHANGED <<holder, pid, own>>, pc'[n] = pc[n], data'[n] = data[n],
             seen'[n] = seen[n]
      PROVE  RowInv(n)'
  BY <1>1, <1>3, <1>4, <1>5, RowsStay
<1>6. ASSUME NEW q \in Pids, Starts(q) PROVE RowInv(n)'
  <2>1. UNCHANGED <<pc, pid, seen, data, own>> /\ pid[n] # q
    BY <1>1, <1>6 DEF Starts
  <2>2. \A r \in Pids \ {q} : holder'[r] = holder[r]
    BY <1>1, <1>6 DEF Starts, TypeOK
  <2>3. QED
    BY <1>1, <1>3, <1>4, <2>1, <2>2, RowsStay
<1>7. ASSUME NEW q \in Pids, Ends(q) PROVE RowInv(n)'
  <2>1. UNCHANGED <<pc, pid, seen, data, own>>
    BY <1>7 DEF Ends, loop
  <2>2. \A r \in Pids : holder[r] = Nobody => holder'[r] = Nobody
    BY <1>1, <1>7 DEF Ends, TypeOK
  <2>3. QED
    BY <1>1, <1>3, <1>4, <2>1, <2>2, RowsStay
<1>8. ASSUME NEW m \in Monitor, Scan(m) PROVE RowInv(n)'
  <2>1. UNCHANGED <<holder, seen>> /\ pc[m] = "scan" /\ pid[m] = None
    BY <1>1, <1>8 DEF Scan, world, Found
  <2>2. CASE NoRow(m) /\ UNCHANGED <<pc, pid, own>>
    <3>1. CASE n = m /\ data'[n] = Append(data[n], IdleRow)
      BY <1>1, <1>3, <2>1, <2>2, <3>1, RowsIdle DEF Stopped, Writing, Over
    <3>2. CASE data'[n] = data[n]
      BY <1>5, <2>1, <2>2, <3>2
    <3>3. QED
      BY <1>1, <2>2, <3>1, <3>2, NoRowType DEF TypeOK
  <2>3. ASSUME NEW q \in Pids, pid' = [pid EXCEPT ![m] = q],
               own' = [own EXCEPT ![m] = holder[q]], Go(m, "exists"), UNCHANGED data
        PROVE  RowInv(n)'
    <3>1. CASE n = m
      <4>1. \A x \in DOMAIN data[n] : ~data[n][x].flag
        BY <1>3, <2>1, <3>1 DEF RowInv
      <4>2. pc'[n] = "exists"
        BY <1>1, <2>3, <3>1 DEF Go, TypeOK
      <4>3. QED
        BY <2>3, <4>1, <4>2 DEF RowInv, FollowsIt
    <3>2. CASE n # m
      <4>1. pid'[n] = pid[n] /\ own'[n] = own[n] /\ pc'[n] = pc[n]
        BY <1>1, <2>3, <3>2 DEF Go, TypeOK
      <4>2. QED
        BY <1>1, <1>3, <1>4, <2>1, <2>3, <4>1, RowsStay
    <3>3. QED
      BY <3>1, <3>2
  <2>4. QED
    BY <1>8, <2>2, <2>3, Zenon DEF Scan
<1>9. ASSUME NEW m \in Monitor, PidExists(m) PROVE RowInv(n)'
  <2>1. UNCHANGED <<holder, pid, own>> /\ pc[m] = "exists"
    BY <1>9 DEF PidExists, world
  <2>2. CASE n # m
    <3>1. pc'[n] = pc[n] /\ seen'[n] = seen[n]
      BY <1>1, <1>9, <2>2 DEF PidExists, Go, TypeOK
    <3>2. data'[n] = data[n]
      BY <1>1, <1>9, <2>2, NoRowType DEF PidExists, TypeOK
    <3>3. QED
      BY <1>5, <2>1, <3>1, <3>2
  <2>3. CASE n = m /\ holder[pid[m]] # Nobody
    <3>1. /\ pc'[n] \in {"open", "sample"} /\ seen'[n] = holder[pid[n]] /\ data' = data
      BY <1>1, <1>9, <2>3 DEF PidExists, Go, TypeOK
    <3>2. holder[pid[n]] = own[n]
      BY <1>1, <1>2, <2>1, <2>3 DEF Taken, Found
    <3>3. pc[n] \notin Stopped
      BY <2>1, <2>3 DEF Stopped, Writing, Over
    <3>4. QED
      BY <1>1, <1>3, <1>4, <2>1, <2>3, <3>1, <3>2, <3>3, RowsStay
  <2>4. CASE n = m /\ holder[pid[m]] = Nobody
    <3>1. /\ pc'[n] = "truncate" /\ NoRow(n) /\ pc'[n] \in Stopped
          /\ pc[n] \notin Stopped
      BY <1>1, <1>9, <2>1, <2>4 DEF PidExists, Go, TypeOK, Stopped, Writing, Over
    <3>2. CASE data'[n] = data[n]
      BY <1>1, <1>3, <1>4, <2>1, <2>4, <3>1, <3>2, RowsStay
    <3>3. CASE data'[n] = Append(data[n], IdleRow)
      BY <1>1, <1>3, <2>1, <3>1, <3>3, RowsIdle
    <3>4. QED
      BY <1>1, <3>1, <3>2, <3>3, NoRowType DEF TypeOK
  <2>5. QED
    BY <2>2, <2>3, <2>4
<1>10. ASSUME OpenProcess PROVE RowInv(n)'
  <2>1. UNCHANGED <<holder, pid, data, own>> /\ pc["process"] = "open"
    BY <1>10 DEF OpenProcess, world
  <2>2. CASE n # "process"
    <3>1. pc'[n] = pc[n] /\ seen'[n] = seen[n]
      BY <1>1, <1>10, <2>2 DEF OpenProcess, Go, TypeOK
    <3>2. QED
      BY <1>5, <2>1, <3>1
  <2>3. CASE n = "process"
    <3>1. \/ /\ holder[pid[n]] # Nobody /\ pc'[n] = "sample" /\ seen'[n] = holder[pid[n]]
          \/ pc'[n] = "truncate"
      BY <1>1, <1>10, <2>3 DEF OpenProcess, Go, TypeOK
    <3>2. holder[pid[n]] \in {own[n], Nobody}
      BY <1>1, <1>2, <2>1, <2>3 DEF Taken, Found
    <3>3. pc[n] \notin Stopped
      BY <2>1, <2>3 DEF Stopped, Writing, Over
    <3>4. QED
      BY <1>1, <1>3, <1>4, <2>1, <2>3, <3>1, <3>2, <3>3, RowsStay
  <2>4. QED
    BY <2>2, <2>3
<1>11. ASSUME ReadProcess PROVE RowInv(n)'
  <2>1. UNCHANGED <<holder, pid, own>> /\ pc["process"] = "sample" /\ "process" \in Monitor
    BY <1>11 DEF ReadProcess, world, Monitor
  <2>2. CASE n # "process"
    <3>1. pc'[n] = pc[n] /\ seen'[n] = seen[n]
      BY <1>1, <1>11, <2>2 DEF ReadProcess, Go, TypeOK
    <3>2. data'[n] = data[n]
      BY <1>1, <1>11, <2>2 DEF ReadProcess, AddRow, TypeOK
    <3>3. QED
      BY <1>5, <2>1, <3>1, <3>2
  <2>3. CASE n = "process"
    <3> DEFINE row == [flag |-> TRUE, from |-> seen[n], to |-> holder[pid[n]]]
    <3>1. \/ pc'[n] \in {"exists", "truncate"} /\ data' = data
          \/ pc'[n] = "exists" /\ holder[pid[n]] # Nobody /\ AddRow(n, row)
      BY <1>1, <1>11, <2>3 DEF ReadProcess, Go, TypeOK
    <3>2. holder[pid[n]] \in {own[n], Nobody} /\ pid[n] \in Pids
      BY <1>1, <1>2, <1>3, <2>1, <2>3 DEF Taken, Found
    <3>3. pc[n] \notin Stopped
      BY <2>1, <2>3 DEF Stopped, Writing, Over
    <3>4. CASE pc'[n] \in {"exists", "truncate"} /\ data'[n] = data[n]
      BY <1>1, <1>3, <1>4, <2>1, <2>3, <3>3, <3>4, RowsStay
    <3>5. CASE /\ pc'[n] = "exists" /\ holder[pid[n]] # Nobody
               /\ data'[n] = Append(data[n], row)
      BY <1>1, <1>3, <2>1, <2>3, <3>2, <3>5, RowsMore
    <3>6. ASSUME AddRow(n, row) PROVE data'[n] = data[n] \/ data'[n] = Append(data[n], row)
      BY <1>1, <3>6 DEF AddRow, TypeOK
    <3> HIDE DEF row
    <3>7. QED
      BY <3>1, <3>4, <3>5, <3>6
  <2>4. QED
    BY <2>2, <2>3
<1>12. ASSUME SampleSystem PROVE RowInv(n)'
  <2>1. UNCHANGED <<holder, pid, own>> /\ pc["system"] = "sample" /\ "system" \in Monitor
    BY <1>12 DEF SampleSystem, world, Monitor
  <2>2. CASE n # "system"
    <3>1. pc'[n] = pc[n] /\ seen'[n] = seen[n]
      BY <1>1, <1>12, <2>2 DEF SampleSystem, Go, TypeOK
    <3>2. data'[n] = data[n]
      BY <1>1, <1>12, <2>2 DEF SampleSystem, AddRow, TypeOK
    <3>3. QED
      BY <1>5, <2>1, <3>1, <3>2
  <2>3. CASE n = "system"
    <3> DEFINE row == [flag |-> TRUE, from |-> seen[n], to |-> holder[pid[n]]]
    <3>1. pc'[n] = "exists" /\ AddRow(n, row)
      BY <1>1, <1>12, <2>3 DEF SampleSystem, Go, TypeOK
    <3>2. holder[pid[n]] \in {own[n], Nobody} /\ pid[n] \in Pids
      BY <1>1, <1>2, <1>3, <2>1, <2>3 DEF Taken, Found
    <3>3. pc[n] \notin Stopped
      BY <2>1, <2>3 DEF Stopped, Writing, Over
    <3>4. CASE data'[n] = data[n]
      BY <1>1, <1>3, <1>4, <2>1, <2>3, <3>1, <3>3, <3>4, RowsStay
    <3>5. CASE data'[n] = Append(data[n], row)
      BY <1>1, <1>3, <2>1, <2>3, <3>1, <3>2, <3>5, RowsMore
    <3>6. data'[n] = data[n] \/ data'[n] = Append(data[n], row)
      BY <1>1, <3>1 DEF AddRow, TypeOK
    <3>7. QED
      BY <3>4, <3>5, <3>6
  <2>4. QED
    BY <2>2, <2>3
<1>13. ASSUME NEW m \in Monitor, NEW to \in Stopped, Go(m, to),
              UNCHANGED <<holder, pid, seen, data, own>>
       PROVE  RowInv(n)'
  <2>1. pc'[n] = pc[n] \/ pc'[n] \in Stopped
    BY <1>1, <1>13 DEF Go, TypeOK
  <2>2. \A s \in Stopped : s \notin {"open", "sample"}
    BY DEF Stopped, Writing, Over
  <2>3. QED
    BY <1>1, <1>3, <1>4, <1>13, <2>1, <2>2, RowsStay
<1>14. ASSUME NEW m \in Monitor, Truncate(m) PROVE RowInv(n)'
  BY <1>13, <1>14 DEF Truncate, Stopped, Writing, world, loop
<1>15. ASSUME NEW m \in Monitor, WriteRows(m) PROVE RowInv(n)'
  BY <1>13, <1>15 DEF WriteRows, Stopped, Writing, Over, world, loop
<1>16. ASSUME NEW m \in Monitor, Killed(m) PROVE RowInv(n)'
  BY <1>13, <1>16 DEF Killed, Stopped, Over, world, loop
<1>17. CASE UNCHANGED vars
  BY <1>5, <1>17 DEF vars, world, loop
<1>18. QED
  BY <1>1, <1>6, <1>7, <1>8, <1>9, <1>10, <1>11, <1>12, <1>14, <1>15, <1>16, <1>17, Zenon
     DEF Next, Step

(* As long as no other process takes the pid, the rows of each monitor are   *)
(* those of the process it found, in order, whatever ends and starts between *)
(* its calls.                                                                *)
THEOREM RowsFollowTheProcess == Spec => []RowsFollowIt
<1>1. RowsInv => RowsFollowIt
  BY DEF RowsInv, RowInv, RowsFollowIt
<1>2. Init /\ [][Next]_vars => []RowsInv
  BY RowsInit, RowsNext, MonitorsInductive, PTL DEF Spec
<1>3. QED
  BY <1>1, <1>2, PTL DEF Spec

==============================================================================
