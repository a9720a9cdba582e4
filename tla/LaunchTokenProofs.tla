--------------------------- MODULE LaunchTokenProofs ---------------------------
(***************************************************************************)
(* Proofs about LaunchToken, for any number of runs and any token size.    *)
(***************************************************************************)
EXTENDS LaunchToken, TLAPS

\* A run that has been told of an update holds its new token until it is saved.
HoldsNewToken ==
    \A p \in Runs : pc[p] \in {"freopen", "fclose"} => token[p] = Whole(p)

TokenInv == TypeOK /\ FileHoldsOneToken /\ HoldsNewToken

\* What the one write() of fclose leaves: k units of run p's token, and no more.
LEMMA Saved ==
    ASSUME TypeOK, NEW p \in Runs, token[p] = Whole(p),
           NEW k \in 0..TokenLen, k = TokenLen \/ k >= Len(file)
    PROVE  Overwritten(p, k) = [x \in 1..k |-> p]
<1>1. TokenLen \in Nat /\ Len(file) \in Nat /\ Len(file) <= TokenLen
  BY TokenAssumption DEF TypeOK
<1>2. (IF k < Len(file) THEN Len(file) ELSE k) = k
  BY <1>1
<1>3. \A x \in 1..k : token[p][x] = p /\ x <= k
  BY <1>1 DEF Whole
<1>4. QED
  BY <1>2, <1>3 DEF Overwritten

\* Tokens and the zeroed buffer have the token's length.
LEMMA WholeType == \A t \in Units : Whole(t) \in [1..TokenLen -> Units]
BY DEF Whole

\* No run has touched the file yet: it is absent or an old token.
LEMMA TokenInit == Init => TokenInv
<1>1. SUFFICES ASSUME Init PROVE TokenInv
  OBVIOUS
<1>2. TokenLen \in Nat /\ Zero \in Units /\ Old \in Units /\ Old \in Tokens
  BY TokenAssumption DEF Units, Tokens
<1>3. file \in Seq(Tokens) /\ Len(file) <= TokenLen
  <2>1. CASE file = << >>
    BY <1>2, <2>1
  <2>2. CASE file = [x \in 1..TokenLen |-> Old]
    BY <1>2, <2>2
  <2>3. QED
    BY <1>1, <2>1, <2>2 DEF Init, Whole
<1>4. TypeOK
  <2>1. pc \in [Runs -> Pcs] /\ fp \in [Runs -> {"null", "rb", "wb"}]
    BY <1>1 DEF Init, Pcs
  <2>2. pos \in [Runs -> 0..TokenLen]
    BY <1>1, <1>2 DEF Init
  <2>3. token \in [Runs -> [1..TokenLen -> Units]]
    BY <1>1, <1>2, WholeType DEF Init
  <2>4. /\ exists \in BOOLEAN /\ saved \in Units /\ cut \in BOOLEAN /\ overlap \in BOOLEAN
        /\ refused \subseteq Runs
    BY <1>1, <1>2, Zenon DEF Init, Units, Tokens
  <2>5. QED
    BY <1>3, <2>1, <2>2, <2>3, <2>4 DEF TypeOK
<1>5. FileHoldsOneToken
  <2>1. CASE file = << >>
    BY <2>1 DEF FileHoldsOneToken
  <2>2. CASE file = [x \in 1..TokenLen |-> Old]
    BY <2>2 DEF FileHoldsOneToken
  <2>3. QED
    BY <1>1, <2>1, <2>2 DEF Init, Whole
<1>6. HoldsNewToken
  BY <1>1 DEF Init, HoldsNewToken
<1>7. QED
  BY <1>4, <1>5, <1>6 DEF TokenInv

\* Every step of a run keeps the file within one token.
LEMMA TokenNext == TokenInv /\ [Next]_vars => TokenInv'
<1>1. SUFFICES ASSUME TokenInv, [Next]_vars PROVE TokenInv'
  OBVIOUS
<1>2. TokenLen \in Nat \ {0} /\ Zero \in Units /\ Tokens \subseteq Units
  BY TokenAssumption DEF Units, Tokens
<1>3. ASSUME NEW p \in Runs, OpenToRead(p) PROVE TokenInv'
  BY <1>1, <1>3 DEF TokenInv, OpenToRead, TypeOK, Pcs, Over,
                     FileHoldsOneToken, HoldsNewToken
<1>4. ASSUME NEW p \in Runs, OpenToCreate(p) PROVE TokenInv'
  <2>1. file' = file \/ file' = << >>
    BY <1>4 DEF OpenToCreate
  <2>2. file' \in Seq(Tokens) /\ Len(file') <= TokenLen
    <3>1. << >> \in Seq(Tokens) /\ Len(<< >>) = 0 /\ 0 <= TokenLen
      BY <1>2
    <3>2. QED
      BY <1>1, <2>1, <3>1 DEF TokenInv, TypeOK
  <2>3. TypeOK'
    BY <1>1, <1>4, <2>2 DEF TokenInv, OpenToCreate, history, TypeOK, Pcs
  <2>4. FileHoldsOneToken'
    BY <1>1, <2>1 DEF TokenInv, FileHoldsOneToken
  <2>5. HoldsNewToken'
    BY <1>1, <1>4 DEF TokenInv, TypeOK, OpenToCreate, history, HoldsNewToken
  <2>6. QED
    BY <2>3, <2>4, <2>5 DEF TokenInv
<1>5. ASSUME NEW p \in Runs, ReadSome(p) PROVE TokenInv'
  <2>1. \A x \in DOMAIN file : file[x] \in Units
    BY <1>1, <1>2 DEF TokenInv, TypeOK
  <2>2. [x \in 1..TokenLen |-> IF x \in Unread(p) THEN file[x] ELSE token[p][x]]
          \in [1..TokenLen -> Units]
    BY <1>1, <2>1 DEF TokenInv, TypeOK, Unread
  <2>3. Len(file) \in 0..TokenLen
    BY <1>1, <1>2 DEF TokenInv, TypeOK
  <2>4. TypeOK'
    BY <1>1, <1>5, <2>2, <2>3 DEF TokenInv, ReadSome, history, TypeOK
  <2>5. FileHoldsOneToken' /\ HoldsNewToken'
    BY <1>1, <1>5
       DEF TokenInv, TypeOK, ReadSome, history, FileHoldsOneToken, HoldsNewToken
  <2>6. QED
    BY <2>4, <2>5 DEF TokenInv
<1>6. ASSUME NEW p \in Runs, ReadEnds(p) PROVE TokenInv'
  BY <1>1, <1>2, <1>6, WholeType
     DEF TokenInv, ReadEnds, history, TypeOK, Pcs, Over, FileHoldsOneToken,
         HoldsNewToken
<1>7. ASSUME NEW p \in Runs, CreateFails(p) PROVE TokenInv'
  BY <1>1, <1>7
     DEF TokenInv, CreateFails, history, TypeOK, Pcs, Over, FileHoldsOneToken,
         HoldsNewToken
<1>8. ASSUME NEW p \in Runs, CreateAndKeep(p) PROVE TokenInv'
  <2>1. p \in Units
    BY DEF Units, Tokens
  <2>2. token' = token \/ token' = [token EXCEPT ![p] = Whole(p)]
    BY <1>8 DEF CreateAndKeep
  <2>3. token' \in [Runs -> [1..TokenLen -> Units]]
    BY <1>1, <2>1, <2>2, WholeType DEF TokenInv, TypeOK
  <2>4. TypeOK'
    BY <1>1, <1>8, <2>3 DEF TokenInv, CreateAndKeep, history, TypeOK, Pcs, Over
  <2>5. FileHoldsOneToken'
    BY <1>1, <1>8 DEF TokenInv, CreateAndKeep, history, FileHoldsOneToken
  <2>6. \A q \in Runs : pc'[q] \in {"freopen", "fclose"} => pc'[q] = pc[q] /\ q # p
    BY <1>1, <1>8 DEF TokenInv, TypeOK, CreateAndKeep
  <2>7. HoldsNewToken'
    BY <1>1, <2>2, <2>6 DEF TokenInv, TypeOK, HoldsNewToken
  <2>8. QED
    BY <2>4, <2>5, <2>7 DEF TokenInv
<1>9. ASSUME NEW p \in Runs, CreateUpdated(p) PROVE TokenInv'
  BY <1>1, <1>2, <1>9, WholeType
     DEF TokenInv, CreateUpdated, history, TypeOK, Pcs, Over, FileHoldsOneToken,
         HoldsNewToken, Tokens
<1>10. ASSUME NEW p \in Runs, Reopen(p) PROVE TokenInv'
  BY <1>1, <1>2, <1>10
     DEF TokenInv, Reopen, history, TypeOK, Pcs, Over, FileHoldsOneToken, HoldsNewToken
<1>11. ASSUME NEW p \in Runs, ReopenFails(p) PROVE TokenInv'
  BY <1>1, <1>11
     DEF TokenInv, ReopenFails, history, TypeOK, Pcs, Over, FileHoldsOneToken,
         HoldsNewToken
<1>12. ASSUME NEW p \in Runs, Save(p) PROVE TokenInv'
  <2>1. PICK k \in 0..TokenLen : /\ k = TokenLen \/ k >= Len(file)
                                 /\ file' = Overwritten(p, k)
                                 /\ saved' = IF k = TokenLen THEN p ELSE saved
                                 /\ cut' = (cut \/ k < TokenLen)
    BY <1>12 DEF Save
  <2>2. file' = [x \in 1..k |-> p]
    BY <1>1, <1>12, <2>1, Saved DEF TokenInv, HoldsNewToken, Save
  <2>3. k \in Nat /\ k <= TokenLen /\ p \in Tokens
    BY <1>2 DEF Tokens
  <2>4. file' \in Seq(Tokens) /\ Len(file') <= TokenLen
    BY <2>2, <2>3
  <2>5. saved' \in Units /\ cut' \in BOOLEAN
    BY <1>1, <1>2, <2>1, <2>3 DEF TokenInv, TypeOK
  <2>6. TypeOK'
    BY <1>1, <1>12, <2>4, <2>5 DEF TokenInv, Save, TypeOK, Pcs, Over
  <2>7. FileHoldsOneToken'
    BY <2>2, <2>3 DEF FileHoldsOneToken
  <2>8. HoldsNewToken'
    BY <1>1, <1>12 DEF TokenInv, TypeOK, Save, HoldsNewToken
  <2>9. QED
    BY <2>6, <2>7, <2>8 DEF TokenInv
<1>13. ASSUME NEW p \in Runs, Killed(p) PROVE TokenInv'
  BY <1>1, <1>13
     DEF TokenInv, Killed, history, TypeOK, Pcs, Over, FileHoldsOneToken,
         HoldsNewToken
<1>14. CASE UNCHANGED vars
  BY <1>1, <1>14 DEF TokenInv, vars, history, TypeOK, FileHoldsOneToken, HoldsNewToken
<1>15. QED
  BY <1>1, <1>3, <1>4, <1>5, <1>6, <1>7, <1>8, <1>9, <1>10, <1>11, <1>12, <1>13, <1>14
     DEF Next, Step

\* The invariant of the token file, for every schedule, kill and full disk.
THEOREM TokenInvariant == Spec => []TokenInv
<1>1. QED
  BY TokenInit, TokenNext, PTL DEF Spec

\* Every variable keeps its type.
THEOREM TokenTypes == Spec => []TypeOK
<1>1. TokenInv => TypeOK
  BY DEF TokenInv
<1>2. QED
  BY <1>1, TokenInvariant, PTL

\* However runs overlap, die and find the disk full, the token file holds the
\* beginning of one token.
THEOREM FileNeverMixes == Spec => []FileHoldsOneToken
<1>1. TokenInv => FileHoldsOneToken
  BY DEF TokenInv
<1>2. QED
  BY <1>1, TokenInvariant, PTL

------------------------------------------------------------------------------
(* Until a save is cut short, no partial token is ever saved or read. *)

AllOrNothing ==
    /\ Len(file) \in {0, TokenLen}
    /\ \A p \in Runs : pos[p] \in {0, TokenLen}
    /\ \A p \in Runs : \E t \in Units : token[p] = Whole(t)

\* One read() gets the whole token or nothing.
LEMMA ReadsAll ==
    ASSUME TokenInv, AllOrNothing, NEW p \in Runs, ReadSome(p)
    PROVE  /\ Len(file) = TokenLen
           /\ \E t \in Units : token'[p] = Whole(t)
<1>1. TokenLen \in Nat \ {0} /\ file \in Seq(Tokens) /\ Tokens \subseteq Units
  BY TokenAssumption DEF TokenInv, TypeOK, Units
<1>2. pos[p] \in {0, TokenLen} /\ Len(file) \in {0, TokenLen}
  BY DEF AllOrNothing
<1>3. PICK x \in DOMAIN file : pos[p] < x
  BY DEF ReadSome, Unread
<1>4. x \in Nat /\ 1 <= x /\ x <= Len(file)
  BY <1>1, <1>3
<1>5. Len(file) = TokenLen /\ pos[p] = 0
  BY <1>1, <1>2, <1>3, <1>4
<1>6. \A y \in 1..TokenLen : y \in Unread(p)
  BY <1>1, <1>5 DEF Unread
<1>7. \A y \in 1..TokenLen : file[y] = file[1]
  BY <1>1, <1>5 DEF TokenInv, FileHoldsOneToken
<1>8. token'[p] = [y \in 1..TokenLen |-> IF y \in Unread(p) THEN file[y] ELSE token[p][y]]
  BY DEF ReadSome, TokenInv, TypeOK
<1>9. token'[p] = Whole(file[1])
  BY <1>6, <1>7, <1>8 DEF Whole
<1>10. file[1] \in Units
  BY <1>1, <1>5
<1>11. QED
  BY <1>5, <1>9, <1>10

\* Every step that cuts no save short leaves the file empty or whole.
LEMMA AllOrNothingNext ==
    TokenInv /\ (~cut => AllOrNothing) /\ [Next]_vars => (~cut => AllOrNothing)'
<1>1. SUFFICES ASSUME TokenInv, AllOrNothing, [Next]_vars, ~cut' PROVE AllOrNothing'
  <2>1. [Next]_vars /\ ~cut' => ~cut
    BY Zenon DEF Next, Step, OpenToRead, OpenToCreate, ReadSome, ReadEnds, CreateFails,
      CreateAndKeep, CreateUpdated, Reopen, ReopenFails, Save, Killed, vars, history
  <2>2. QED
    BY <2>1
<1>2. TokenLen \in Nat \ {0} /\ Zero \in Units /\ Runs \subseteq Units /\ Len(<< >>) = 0
  BY TokenAssumption DEF Units, Tokens
<1>3. token \in [Runs -> [1..TokenLen -> Units]] /\ pos \in [Runs -> 0..TokenLen]
  BY <1>1 DEF TokenInv, TypeOK
<1>4. ASSUME NEW p \in Runs, OpenToRead(p) \/ CreateFails(p) \/ ReopenFails(p) \/ Killed(p)
      PROVE  AllOrNothing'
  BY <1>1, <1>4 DEF AllOrNothing, OpenToRead, CreateFails, ReopenFails, Killed
<1>5. ASSUME NEW p \in Runs, OpenToCreate(p) \/ Reopen(p) PROVE AllOrNothing'
  BY <1>1, <1>2, <1>5 DEF AllOrNothing, OpenToCreate, Reopen
<1>6. ASSUME NEW p \in Runs, ReadSome(p) PROVE AllOrNothing'
  <2>1. Len(file) = TokenLen /\ \E t \in Units : token'[p] = Whole(t)
    BY <1>1, <1>6, ReadsAll
  <2>2. \A q \in Runs \ {p} : token'[q] = token[q] /\ pos'[q] = pos[q]
    BY <1>3, <1>6 DEF ReadSome
  <2>3. pos'[p] = TokenLen /\ file' = file
    BY <1>3, <1>6, <2>1 DEF ReadSome
  <2>4. QED
    BY <1>1, <2>1, <2>2, <2>3 DEF AllOrNothing
<1>7. ASSUME NEW p \in Runs, ReadEnds(p) \/ CreateAndKeep(p) \/ CreateUpdated(p)
      PROVE  AllOrNothing'
  <2>1. file' = file /\ pos' = pos
    BY <1>7 DEF ReadEnds, CreateAndKeep, CreateUpdated
  <2>2. \A q \in Runs : token'[q] \in {token[q], Whole(Zero), Whole(p)}
    BY <1>3, <1>7 DEF ReadEnds, CreateAndKeep, CreateUpdated
  <2>3. \A q \in Runs : \E t \in Units : token'[q] = Whole(t)
    BY <1>1, <1>2, <2>2 DEF AllOrNothing
  <2>4. QED
    BY <1>1, <2>1, <2>3 DEF AllOrNothing
<1>8. ASSUME NEW p \in Runs, Save(p) PROVE AllOrNothing'
  <2>1. file' = Overwritten(p, TokenLen)
    <3>1. PICK k \in 0..TokenLen : /\ file' = Overwritten(p, k)
                                   /\ cut' = (cut \/ k < TokenLen)
      BY <1>8 DEF Save
    <3>2. ~(k < TokenLen)
      BY <1>1, <3>1, Zenon
    <3>3. k = TokenLen
      BY <1>2, <3>2
    <3>4. QED
      BY <3>1, <3>3
  <2>2. file' = [x \in 1..TokenLen |-> p]
    BY <1>1, <1>2, <1>8, <2>1, Saved DEF TokenInv, HoldsNewToken, Save
  <2>3. Len(file') = TokenLen
    BY <1>2, <2>2
  <2>4. token' = token /\ pos' = pos
    BY <1>8 DEF Save
  <2>5. QED
    BY <1>1, <2>3, <2>4 DEF AllOrNothing
<1>9. CASE UNCHANGED vars
  BY <1>1, <1>9 DEF AllOrNothing, vars
<1>10. QED
  BY <1>1, <1>4, <1>5, <1>6, <1>7, <1>8, <1>9 DEF Next, Step

\* Until a save is cut short, every run creates its enclave from a cleared buffer
\* or from a whole token, however the runs overlap and die.
THEOREM TokensAreWhole == Spec => []TokenIsWhole
<1>1. Init => AllOrNothing
  <2>1. SUFFICES ASSUME Init PROVE AllOrNothing
    OBVIOUS
  <2>2. TokenLen \in Nat /\ Zero \in Units
    BY TokenAssumption DEF Units
  <2>3. Len(file) \in {0, TokenLen}
    <3>1. CASE file = << >>
      BY <3>1
    <3>2. CASE file = [x \in 1..TokenLen |-> Old]
      BY <2>2, <3>2
    <3>3. QED
      BY <2>1, <3>1, <3>2 DEF Init, Whole
  <2>4. QED
    BY <2>1, <2>2, <2>3 DEF Init, AllOrNothing
<1>2. (~cut => AllOrNothing) => TokenIsWhole
  BY DEF AllOrNothing, TokenIsWhole
<1>3. QED
  BY <1>1, <1>2, TokenInvariant, AllOrNothingNext, PTL DEF Spec

------------------------------------------------------------------------------
(* Runs one after the other. *)

\* At most one run is under way, and only one that could not read the file is about
\* to empty it.
OneByOne ==
    /\ \A p \in Runs : fp[p] # "null" \/ pc[p] \in {"freopen", "fclose"} => exists
    /\ ~exists => file = << >>
    /\ ~overlap =>
         /\ \A p, q \in Runs : Going(p) /\ Going(q) => p = q
         /\ \A p \in Runs : pc[p] = "wb" => file = << >> \/ p \in refused

\* A run starts only while no other is under way, or the runs overlap.
LEMMA OneByOneNext == TokenInv /\ OneByOne /\ [Next]_vars => OneByOne'
<1>1. SUFFICES ASSUME TokenInv, OneByOne, [Next]_vars PROVE OneByOne'
  OBVIOUS
<1>2. pc \in [Runs -> Pcs] /\ fp \in [Runs -> {"null", "rb", "wb"}]
  BY <1>1 DEF TokenInv, TypeOK
<1>3. ASSUME NEW p \in Runs, OpenToRead(p) PROVE OneByOne'
  <2>1. ~overlap' => ~overlap /\ \A q \in Runs : ~Going(q)
    BY <1>3, Zenon DEF OpenToRead
  <2>2. \A q \in Runs \ {p} : pc'[q] = pc[q] /\ fp'[q] = fp[q]
    BY <1>2, <1>3 DEF OpenToRead
  <2>3. /\ pc'[p] \in {"fread", "wb"} /\ (fp'[p] # "null" => exists \/ fp[p] # "null")
        /\ (pc'[p] = "wb" => ~exists \/ p \in refused') /\ UNCHANGED <<exists, file>>
    BY <1>2, <1>3 DEF OpenToRead
  <2>4. QED
    BY <1>1, <2>1, <2>2, <2>3 DEF OneByOne, Going, Over
<1>4. ASSUME NEW p \in Runs, OpenToCreate(p) PROVE OneByOne'
  BY <1>1, <1>2, <1>4 DEF OneByOne, Going, Over, OpenToCreate, history
<1>5. ASSUME NEW p \in Runs, ReadSome(p) \/ ReadEnds(p) PROVE OneByOne'
  BY <1>1, <1>2, <1>5 DEF OneByOne, Going, Over, ReadSome, ReadEnds, history
<1>6. ASSUME NEW p \in Runs, CreateFails(p) \/ CreateAndKeep(p) \/ CreateUpdated(p)
      PROVE  OneByOne'
  BY <1>1, <1>2, <1>6
     DEF OneByOne, Going, Over, CreateFails, CreateAndKeep, CreateUpdated, history
<1>7. ASSUME NEW p \in Runs, Reopen(p) \/ ReopenFails(p) \/ Killed(p) PROVE OneByOne'
  BY <1>1, <1>2, <1>7 DEF OneByOne, Going, Over, Reopen, ReopenFails, Killed, history
<1>8. ASSUME NEW p \in Runs, Save(p) PROVE OneByOne'
  BY <1>1, <1>2, <1>8 DEF OneByOne, Going, Over, Save
<1>9. CASE UNCHANGED vars
  BY <1>1, <1>9 DEF OneByOne, Going, vars, history
<1>10. QED
  BY <1>1, <1>3, <1>4, <1>5, <1>6, <1>7, <1>8, <1>9 DEF Next, Step

\* Runs one after the other give a saved token up only for a new one, or because
\* they could not read it.
THEOREM SavedTokensAreKept == Spec => SavedTokenIsKept
<1>1. Init => OneByOne
  BY DEF Init, OneByOne, Going
<1>2. ASSUME TokenInv, OneByOne, [Next]_vars, GivesUpToken
      PROVE  overlap \/ \E p \in Runs : HasNewToken(p) \/ CouldNotRead(p)
  <2>1. SUFFICES ASSUME ~overlap, \A p \in Runs : ~CouldNotRead(p)
                 PROVE  \E p \in Runs : HasNewToken(p)
    OBVIOUS
  <2>2. file # << >> /\ file' = << >>
    BY <1>2 DEF GivesUpToken
  <2>3. PICK p \in Runs : Step(p)
    BY <1>2, <2>2 DEF Next, vars
  <2>4. ~OpenToCreate(p)
    BY <1>2, <2>1, <2>2 DEF OneByOne, OpenToCreate, CouldNotRead
  <2>5. ~Save(p)
    <3>1. SUFFICES ASSUME Save(p) PROVE FALSE
      OBVIOUS
    <3>2. PICK k \in 0..TokenLen : /\ k = TokenLen \/ k >= Len(file)
                                   /\ file' = Overwritten(p, k)
      BY <3>1 DEF Save
    <3>3. file' = [x \in 1..k |-> p]
      BY <1>2, <3>1, <3>2, Saved DEF TokenInv, HoldsNewToken, Save
    <3>4. k \in Nat /\ Len(file) \in Nat /\ Len(file) > 0 /\ TokenLen \in Nat \ {0}
      BY <1>2, <2>2, TokenAssumption DEF TokenInv, TypeOK
    <3>5. 1 \in DOMAIN file'
      BY <3>2, <3>3, <3>4
    <3>6. QED
      BY <2>2, <3>5
  <2>6. Reopen(p)
    BY <2>2, <2>3, <2>4, <2>5
       DEF Step, OpenToRead, ReadSome, ReadEnds, CreateFails, CreateAndKeep,
           CreateUpdated,
           ReopenFails, Killed
  <2>7. QED
    BY <1>2, <2>6 DEF Reopen, TokenInv, HoldsNewToken, HasNewToken
<1>3. TokenInv /\ OneByOne /\ [Next]_vars
        => [GivesUpToken =>
              overlap \/ \E p \in Runs : HasNewToken(p) \/ CouldNotRead(p)]_vars
  BY <1>2
<1>4. QED
  BY <1>1, <1>3, TokenInvariant, OneByOneNext, PTL DEF Spec, SavedTokenIsKept

------------------------------------------------------------------------------
(* What a run reads is what the last complete save has left. *)

\* Until runs overlap: a file of full length holds the saved token, and the one
\* run that reads it has read nothing or all there is.
LastToken ==
    ~overlap =>
      /\ Len(file) = TokenLen => file = Whole(saved)
      /\ \A p \in Runs : pc[p] \in {"start", "wb"} => pos[p] = 0 /\ token[p] = Whole(Zero)
      /\ \A p \in Runs : pc[p] = "fread" =>
            \/ pos[p] = 0 /\ token[p] = Whole(Zero)
            \/ /\ pos[p] = Len(file) /\ pos[p] # 0
               /\ pos[p] = TokenLen => token[p] = Whole(saved)
      /\ \A p \in Runs : pc[p] = "create" => token[p] \in {Whole(Zero), Whole(saved)}

\* A step of run p that leaves the other runs, the file and the saved token alone.
LEMMA LastTokenOwnStep ==
    ASSUME TokenInv, ~overlap, LastToken, NEW p \in Runs,
           \A q \in Runs \ {p} : pc'[q] = pc[q] /\ pos'[q] = pos[q] /\ token'[q] = token[q],
           UNCHANGED <<file, saved>>,
           pc'[p] \in {"start", "wb"} => pos'[p] = 0 /\ token'[p] = Whole(Zero),
           pc'[p] = "fread" =>
              \/ pos'[p] = 0 /\ token'[p] = Whole(Zero)
              \/ /\ pos'[p] = Len(file) /\ pos'[p] # 0
                 /\ pos'[p] = TokenLen => token'[p] = Whole(saved),
           pc'[p] = "create" => token'[p] \in {Whole(Zero), Whole(saved)}
    PROVE  LastToken'
BY DEF LastToken, Whole

LEMMA LastTokenNext == TokenInv /\ OneByOne /\ LastToken /\ [Next]_vars => LastToken'
<1>1. SUFFICES ASSUME TokenInv, OneByOne, LastToken, [Next]_vars, ~overlap' PROVE LastToken'
  BY DEF LastToken
<1>2. ~overlap
  BY <1>1, Zenon DEF Next, Step, OpenToRead, OpenToCreate, ReadSome, ReadEnds, CreateFails,
    CreateAndKeep, CreateUpdated, Reopen, ReopenFails, Save, Killed, vars, history
<1>3. /\ TokenLen \in Nat \ {0} /\ Len(file) \in Nat /\ Len(<< >>) = 0
      /\ pc \in [Runs -> Pcs] /\ pos \in [Runs -> 0..TokenLen]
      /\ token \in [Runs -> [1..TokenLen -> Units]] /\ file \in Seq(Tokens)
  BY <1>1, TokenAssumption DEF TokenInv, TypeOK
<1>4. \A p, q \in Runs : Going(p) /\ Going(q) => p = q
  BY <1>1, <1>2 DEF OneByOne
<1>5. ASSUME NEW p \in Runs, OpenToRead(p) PROVE LastToken'
  <2>1. /\ \A q \in Runs \ {p} : pc'[q] = pc[q] /\ pos'[q] = pos[q] /\ token'[q] = token[q]
        /\ UNCHANGED <<file, saved>> /\ pos'[p] = pos[p] /\ token'[p] = token[p]
        /\ pc[p] = "start" /\ pc'[p] \in {"fread", "wb"}
    BY <1>3, <1>5 DEF OpenToRead
  <2>2. pos[p] = 0 /\ token[p] = Whole(Zero)
    BY <1>1, <1>2, <2>1 DEF LastToken
  <2>3. QED
    BY <1>1, <1>2, <2>1, <2>2, LastTokenOwnStep
<1>6. ASSUME NEW p \in Runs, OpenToCreate(p) PROVE LastToken'
  <2>1. /\ \A q \in Runs \ {p} : pc'[q] = pc[q] /\ pos'[q] = pos[q] /\ token'[q] = token[q]
        /\ pos'[p] = pos[p] /\ token'[p] = token[p] /\ saved' = saved
        /\ pc[p] = "wb" /\ pc'[p] = "fread" /\ (file' = file \/ file' = << >>)
    BY <1>3, <1>6 DEF OpenToCreate, history
  <2>2. pos[p] = 0 /\ token[p] = Whole(Zero)
    BY <1>1, <1>2, <2>1 DEF LastToken
  <2>3. CASE file' = file
    BY <1>1, <1>2, <2>1, <2>2, <2>3, LastTokenOwnStep
  <2>4. CASE file' = << >>
    <3>1. \A q \in Runs \ {p} : pc'[q] \in {"start"} \union Over
      BY <1>4, <2>1 DEF Going, Over
    <3>2. \A q \in Runs : pc'[q] \notin {"wb", "create"} /\ (pc'[q] = "fread" => q = p)
      BY <2>1, <3>1 DEF Over
    <3>3. \A q \in Runs : pc'[q] = "start" => pos'[q] = 0 /\ token'[q] = Whole(Zero)
      BY <1>1, <1>2, <2>1 DEF LastToken
    <3>4. Len(file') # TokenLen
      BY <1>3, <2>4
    <3>5. QED
      BY <2>1, <2>2, <3>2, <3>3, <3>4 DEF LastToken, Whole
  <2>5. QED
    BY <2>1, <2>3, <2>4
<1>7. ASSUME NEW p \in Runs, ReadSome(p) PROVE LastToken'
  <2>1. /\ \A q \in Runs \ {p} : pc'[q] = pc[q] /\ pos'[q] = pos[q] /\ token'[q] = token[q]
        /\ UNCHANGED <<file, saved>> /\ pc'[p] = "fread" /\ pc[p] = "fread"
        /\ pos'[p] = Len(file)
        /\ token'[p] = [x \in 1..TokenLen |->
                           IF x \in Unread(p) THEN file[x] ELSE token[p][x]]
    BY <1>3, <1>7 DEF ReadSome, history
  <2>2. ASSUME Len(file) = TokenLen PROVE token'[p] = Whole(saved)
    <3>1. file = Whole(saved)
      BY <1>1, <1>2, <2>2 DEF LastToken
    <3>2. PICK x \in DOMAIN file : pos[p] < x
      BY <1>7 DEF ReadSome, Unread
    <3>3. x \in Nat /\ x <= Len(file) /\ pos[p] \in Nat
      BY <1>3, <3>2
    <3>4. pos[p] # Len(file)
      BY <1>3, <3>2, <3>3
    <3>5. pos[p] = 0
      BY <1>1, <1>2, <2>1, <3>4 DEF LastToken
    <3>6. \A y \in 1..TokenLen : y \in Unread(p) /\ file[y] = saved
      BY <1>3, <2>2, <3>1, <3>5 DEF Unread, Whole
    <3>7. QED
      BY <2>1, <3>6 DEF Whole
  <2>3. Len(file) # 0
    <3>1. PICK x \in DOMAIN file : pos[p] < x
      BY <1>7 DEF ReadSome, Unread
    <3>2. QED
      BY <1>3, <3>1
  <2>4. QED
    BY <1>1, <1>2, <2>1, <2>2, <2>3, LastTokenOwnStep
<1>8. ASSUME NEW p \in Runs, ReadEnds(p) PROVE LastToken'
  <2>1. /\ \A q \in Runs \ {p} : pc'[q] = pc[q] /\ pos'[q] = pos[q] /\ token'[q] = token[q]
        /\ UNCHANGED <<file, saved>> /\ pc'[p] = "create" /\ pc[p] = "fread"
        /\ token'[p] = IF pos[p] \notin {0, TokenLen} THEN Whole(Zero) ELSE token[p]
    BY <1>3, <1>8 DEF ReadEnds, history
  <2>2. \/ pos[p] = 0 /\ token[p] = Whole(Zero)
        \/ pos[p] # 0 /\ (pos[p] = TokenLen => token[p] = Whole(saved))
    BY <1>1, <1>2, <2>1 DEF LastToken
  <2>3. token'[p] \in {Whole(Zero), Whole(saved)}
    BY <1>3, <2>1, <2>2
  <2>4. QED
    BY <1>1, <1>2, <2>1, <2>3, LastTokenOwnStep
<1>9. ASSUME NEW p \in Runs,
             \/ CreateFails(p) \/ CreateAndKeep(p) \/ CreateUpdated(p)
             \/ ReopenFails(p) \/ Killed(p)
      PROVE  LastToken'
  <2>1. /\ \A q \in Runs \ {p} : pc'[q] = pc[q] /\ pos'[q] = pos[q] /\ token'[q] = token[q]
        /\ UNCHANGED <<file, saved>>
        /\ pc'[p] \in {"created", "failed", "freopen", "killed"}
    BY <1>3, <1>9
       DEF CreateFails, CreateAndKeep, CreateUpdated, ReopenFails, Killed, history
  <2>2. QED
    BY <1>1, <1>2, <2>1, LastTokenOwnStep
<1>10. ASSUME NEW p \in Runs, Going(p), \A q \in Runs \ {p} : pc'[q] = pc[q],
              pc'[p] \notin {"start", "wb", "fread", "create"},
              UNCHANGED <<pos, token>>, Len(file') = TokenLen => file' = Whole(saved')
       PROVE  LastToken'
  <2>1. \A q \in Runs \ {p} : pc'[q] \in {"start"} \union Over
    BY <1>4, <1>10 DEF Going
  <2>2. \A q \in Runs : pc'[q] \notin {"wb", "fread", "create"}
    BY <1>10, <2>1 DEF Over
  <2>3. \A q \in Runs : pc'[q] = "start" => pos[q] = 0 /\ token[q] = Whole(Zero)
    BY <1>1, <1>2, <1>10 DEF LastToken
  <2>4. QED
    BY <1>10, <2>2, <2>3 DEF LastToken, Whole
<1>11. ASSUME NEW p \in Runs, Reopen(p) PROVE LastToken'
  <2>1. /\ \A q \in Runs \ {p} : pc'[q] = pc[q]
        /\ pc[p] = "freopen" /\ pc'[p] = "fclose" /\ file' = << >>
        /\ UNCHANGED <<pos, token>>
    BY <1>3, <1>11 DEF Reopen
  <2>2. Len(file') # TokenLen
    BY <1>3, <2>1
  <2>3. QED
    BY <1>10, <2>1, <2>2 DEF Going, Over
<1>12. ASSUME NEW p \in Runs, Save(p) PROVE LastToken'
  <2>1. PICK k \in 0..TokenLen : /\ k = TokenLen \/ k >= Len(file)
                                 /\ file' = Overwritten(p, k)
                                 /\ saved' = IF k = TokenLen THEN p ELSE saved
    BY <1>12 DEF Save
  <2>2. file' = [x \in 1..k |-> p]
    BY <1>1, <1>12, <2>1, Saved DEF TokenInv, HoldsNewToken, Save
  <2>3. Len(file') = k
    BY <1>3, <2>1, <2>2
  <2>4. Len(file') = TokenLen => file' = Whole(saved')
    BY <2>1, <2>2, <2>3 DEF Whole
  <2>5. /\ \A q \in Runs \ {p} : pc'[q] = pc[q]
        /\ pc[p] = "fclose" /\ pc'[p] = "created" /\ UNCHANGED <<pos, token>>
    BY <1>3, <1>12 DEF Save
  <2>6. QED
    BY <1>10, <2>4, <2>5 DEF Going, Over
<1>13. CASE UNCHANGED vars
  BY <1>1, <1>13 DEF LastToken, vars, history, Whole
<1>14. QED
  BY <1>1, <1>5, <1>6, <1>7, <1>8, <1>9, <1>11, <1>12, <1>13, Zenon DEF Next, Step

(* Runs one after the other start from the token that was last saved in full *)
(* or from none, whatever kills them and however full the disk.              *)
THEOREM LastTokensAreUsed == Spec => []LastTokenIsUsed
<1>1. Init => OneByOne
  BY DEF Init, OneByOne, Going
<1>2. Init => LastToken
  <2>1. SUFFICES ASSUME Init PROVE LastToken
    OBVIOUS
  <2>2. TokenLen \in Nat \ {0} /\ Len(<< >>) = 0
    BY TokenAssumption
  <2>3. Len(file) = TokenLen => file = Whole(saved)
    BY <2>1, <2>2 DEF Init
  <2>4. QED
    BY <2>1, <2>3 DEF Init, LastToken
<1>3. LastToken => LastTokenIsUsed
  BY DEF LastToken, LastTokenIsUsed
<1>4. QED
  BY <1>1, <1>2, <1>3, TokenInvariant, OneByOneNext, LastTokenNext, PTL DEF Spec

==============================================================================
