----------------------------- MODULE LaunchToken -----------------------------
(***************************************************************************)
(* initialize_enclave (FileIOHash_MultMat/App/App.cpp:194-256) in several  *)
(* runs of the App that share the launch token file in $HOME.              *)
(*                                                                         *)
(* A token is TokenLen units long (1024 bytes in the code).  A unit is     *)
(* represented by the token it belongs to, and a token by the run that     *)
(* sgx_create_enclave handed it to, so a token whose units differ is one   *)
(* nobody was ever given.                                                  *)
(*                                                                         *)
(* The file system is modelled from its use: each read() and write() that  *)
(* stdio makes is atomic, a full disk cuts a write() short, and what stdio *)
(* has buffered is lost when the process is killed.                        *)
(***************************************************************************)
EXTENDS Integers, Sequences

CONSTANTS
    Runs,      \* runs of the App
    Zero,      \* a unit of the zeroed token buffer
    Old,       \* a token saved before any of the runs
    TokenLen   \* sizeof(sgx_launch_token_t)

ASSUME TokenAssumption ==
    /\ TokenLen \in Nat \ {0}
    /\ Zero \notin Runs \union {Old} /\ Old \notin Runs

VARIABLES
    pc,      \* pc[p]: the call run p is in
    fp,      \* fp[p]: "null", or how the stream was opened
    pos,     \* pos[p]: units fread has read
    token,   \* token[p]: the token buffer
    exists,  \* the token file exists
    file,    \* its content
    saved,   \* history: the token that was last written in full
    cut,     \* history: a save has been cut short by a full disk
    overlap, \* history: a run has started while another was going on
    refused  \* history: runs whose fopen "rb" failed although the file was there

history == <<saved, cut, overlap, refused>>
vars == <<pc, fp, pos, token, exists, file, history>>

Tokens   == Runs \union {Old}
Units    == Tokens \union {Zero}
Whole(t) == [x \in 1..TokenLen |-> t]

Over == {"created", "failed", "killed"}
Pcs  == {"start", "wb", "fread", "create", "freopen", "fclose"} \union Over

Init ==
    /\ pc = [p \in Runs |-> "start"]
    /\ fp = [p \in Runs |-> "null"]
    /\ pos = [p \in Runs |-> 0]
    /\ token = [p \in Runs |-> Whole(Zero)]
    /\ \/ exists = FALSE /\ file = << >> /\ saved = Zero
       \/ exists = TRUE /\ file = Whole(Old) /\ saved = Old
    /\ cut = FALSE /\ overlap = FALSE /\ refused = {}

Going(p) == pc[p] \notin Over \union {"start"}

------------------------------------------------------------------------------
(* Step 1: the token of an earlier run. *)

\* fp = fopen(token_path, "rb"), which may fail for other reasons than that there is
\* no file: it may not be read, or no descriptor is left
OpenToRead(p) ==
    /\ pc[p] = "start"
    /\ \/ /\ exists
          /\ pc' = [pc EXCEPT ![p] = "fread"] /\ fp' = [fp EXCEPT ![p] = "rb"]
          /\ UNCHANGED refused
       \/ /\ pc' = [pc EXCEPT ![p] = "wb"] /\ UNCHANGED fp
          /\ refused' = IF exists THEN refused \union {p} ELSE refused
    /\ overlap' = (overlap \/ \E q \in Runs : Going(q))
    /\ UNCHANGED <<pos, token, exists, file, saved, cut>>

\* fp = fopen(token_path, "wb"): creates the file, or truncates the one that could
\* not be opened or has come into being since; only a warning when it fails
OpenToCreate(p) ==
    /\ pc[p] = "wb"
    /\ \/ exists' = TRUE /\ file' = << >> /\ fp' = [fp EXCEPT ![p] = "wb"]
       \/ UNCHANGED <<exists, file, fp>>
    /\ pc' = [pc EXCEPT ![p] = "fread"]
    /\ UNCHANGED <<pos, token, history>>

\* One read() inside fread: all there is from pos on
Unread(p) == {x \in DOMAIN file : pos[p] < x}

ReadSome(p) ==
    /\ pc[p] = "fread" /\ fp[p] = "rb" /\ Unread(p) # {}
    /\ token' = [token EXCEPT ![p] = [x \in 1..TokenLen |->
                                        IF x \in Unread(p) THEN file[x] ELSE token[p][x]]]
    /\ pos' = [pos EXCEPT ![p] = Len(file)]
    /\ UNCHANGED <<pc, fp, exists, file, history>>

\* Slip: the buffer is not cleared
ReadEndsUncleared(p) ==
    /\ pc[p] = "fread" /\ (fp[p] = "rb" => Unread(p) = {})
    /\ pc' = [pc EXCEPT ![p] = "create"]
    /\ UNCHANGED <<fp, pos, token, exists, file, history>>

\* fread returns at the end of the file or of the token (and at once on a stream
\* that is not open for reading); a count that is neither 0 nor the whole token
\* clears the buffer
ReadEnds(p) ==
    /\ pc[p] = "fread" /\ (fp[p] = "rb" => Unread(p) = {})
    /\ token' = [token EXCEPT ![p] = IF pos[p] \notin {0, TokenLen} THEN Whole(Zero) ELSE @]
    /\ pc' = [pc EXCEPT ![p] = "create"]
    /\ UNCHANGED <<fp, pos, exists, file, history>>

------------------------------------------------------------------------------
(* Step 2: sgx_create_enclave.  It may fail, or hand out a new token. *)

CreateFails(p) ==
    /\ pc[p] = "create"
    /\ pc' = [pc EXCEPT ![p] = "failed"]
    /\ fp' = [fp EXCEPT ![p] = "null"]
    /\ UNCHANGED <<pos, token, exists, file, history>>

\* updated == FALSE, or there is no stream to save to
CreateAndKeep(p) ==
    /\ pc[p] = "create"
    /\ \/ UNCHANGED token
       \/ fp[p] = "null" /\ token' = [token EXCEPT ![p] = Whole(p)]
    /\ pc' = [pc EXCEPT ![p] = "created"]
    /\ fp' = [fp EXCEPT ![p] = "null"]
    /\ UNCHANGED <<pos, exists, file, history>>

\* Slip: save without looking at updated
CreateAndSave(p) ==
    /\ pc[p] = "create" /\ fp[p] # "null"
    /\ token' \in {token, [token EXCEPT ![p] = Whole(p)]}
    /\ pc' = [pc EXCEPT ![p] = "freopen"]
    /\ UNCHANGED <<fp, pos, exists, file, history>>

CreateUpdated(p) ==
    /\ pc[p] = "create" /\ fp[p] # "null"
    /\ token' = [token EXCEPT ![p] = Whole(p)]
    /\ pc' = [pc EXCEPT ![p] = "freopen"]
    /\ UNCHANGED <<fp, pos, exists, file, history>>

------------------------------------------------------------------------------
(* Step 3: save the new token. *)

\* freopen(token_path, "wb", fp) closes the old stream and truncates the file
Reopen(p) ==
    /\ pc[p] = "freopen"
    /\ file' = << >>
    /\ fp' = [fp EXCEPT ![p] = "wb"]
    /\ pc' = [pc EXCEPT ![p] = "fclose"]
    /\ UNCHANGED <<pos, token, exists, history>>

\* freopen fails: return 0 with the old token still saved
ReopenFails(p) ==
    /\ pc[p] = "freopen"
    /\ fp' = [fp EXCEPT ![p] = "null"]
    /\ pc' = [pc EXCEPT ![p] = "created"]
    /\ UNCHANGED <<pos, token, exists, file, history>>

\* The file after run p has written its first k units
Overwritten(p, k) ==
    [x \in 1 .. (IF k < Len(file) THEN Len(file) ELSE k) |->
       IF x <= k THEN token[p][x] ELSE file[x]]

\* Slip: an unbuffered stream writes unit by unit
SaveUnbuffered(p) ==
    /\ pc[p] = "fclose"
    /\ file' = Overwritten(p, IF Len(file) < TokenLen THEN Len(file) + 1 ELSE 1)
    /\ pc' = [pc EXCEPT ![p] = IF Len(file) + 1 < TokenLen THEN "fclose" ELSE "created"]
    /\ fp' = [fp EXCEPT ![p] = IF Len(file) + 1 < TokenLen THEN @ ELSE "null"]
    /\ UNCHANGED <<pos, token, exists, history>>

\* fwrite fits into stdio's buffer and always returns the whole size; the one
\* write() is fclose's, whose result is not looked at.  A full disk lets it
\* overwrite what is there, but ends it anywhere after that.
Save(p) ==
    /\ pc[p] = "fclose"
    /\ \E k \in 0..TokenLen :
          /\ k = TokenLen \/ k >= Len(file)
          /\ file' = Overwritten(p, k)
          /\ saved' = IF k = TokenLen THEN p ELSE saved
          /\ cut' = (cut \/ k < TokenLen)
    /\ fp' = [fp EXCEPT ![p] = "null"]
    /\ pc' = [pc EXCEPT ![p] = "created"]
    /\ UNCHANGED <<pos, token, exists, overlap, refused>>

------------------------------------------------------------------------------
\* The process is killed; its streams are gone with what they had buffered.
Killed(p) ==
    /\ Going(p)
    /\ pc' = [pc EXCEPT ![p] = "killed"]
    /\ fp' = [fp EXCEPT ![p] = "null"]
    /\ UNCHANGED <<pos, token, exists, file, history>>

Step(p) ==
    \/ OpenToRead(p) \/ OpenToCreate(p) \/ ReadSome(p) \/ ReadEnds(p)
    \/ CreateFails(p) \/ CreateAndKeep(p) \/ CreateUpdated(p)
    \/ Reopen(p) \/ ReopenFails(p) \/ Save(p)
    \/ Killed(p)

Next == \E p \in Runs : Step(p)

Spec == Init /\ [][Next]_vars

------------------------------------------------------------------------------
(* Every variable holds a value of its type, and no file is longer than a token. *)
TypeOK ==
    /\ pc \in [Runs -> Pcs]
    /\ fp \in [Runs -> {"null", "rb", "wb"}]
    /\ pos \in [Runs -> 0..TokenLen]
    /\ token \in [Runs -> [1..TokenLen -> Units]]
    /\ exists \in BOOLEAN
    /\ file \in Seq(Tokens) /\ Len(file) <= TokenLen
    /\ saved \in Units /\ cut \in BOOLEAN /\ overlap \in BOOLEAN
    /\ refused \subseteq Runs

(***************************************************************************)
(* The file never mixes two tokens: however runs truncate, write and die,  *)
(* it holds the beginning of one (App.cpp:249-254).                        *)
(***************************************************************************)
FileHoldsOneToken == \A x, y \in DOMAIN file : file[x] = file[y]

(***************************************************************************)
(* sgx_create_enclave is handed a cleared buffer or a token that one run   *)
(* has been given, never the remains of one (App.cpp:223-231), as long as  *)
(* no save has been cut short.                                             *)
(***************************************************************************)
TokenIsWhole ==
    ~cut => \A p \in Runs : pc[p] = "create" => \E t \in Units : token[p] = Whole(t)

(***************************************************************************)
(* "try to retrieve the launch token saved by last transaction"            *)
(* (App.cpp:190): of runs one after the other each starts from the last    *)
(* token saved in full, or from none, also after kills and full disks.     *)
(***************************************************************************)
LastTokenIsUsed ==
    ~overlap =>
      \A p \in Runs : pc[p] = "create" => token[p] \in {Whole(Zero), Whole(saved)}

(***************************************************************************)
(* Runs one after the other give the token in the file up only when they   *)
(* have a new one to save (App.cpp:241-249), or when they could not open   *)
(* the file for reading: any failure of that goes on to "wb", which        *)
(* empties it (App.cpp:218-219).                                           *)
(***************************************************************************)
GivesUpToken == file # << >> /\ file' = << >>
HasNewToken(p) == pc[p] = "freopen" /\ token[p] = Whole(p)
CouldNotRead(p) == pc[p] = "wb" /\ p \in refused
SavedTokenIsKept ==
    [][GivesUpToken => overlap \/ \E p \in Runs : HasNewToken(p) \/ CouldNotRead(p)]_vars
==============================================================================
