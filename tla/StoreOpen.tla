------------------------------ MODULE StoreOpen ------------------------------
(***************************************************************************)
(* VecStore.open: how a process comes to use the store at db_path, and     *)
(* what keeps the chunks of one embedding model and one vault from being   *)
(* mixed with another's.  Processes open the same path with configurations *)
(* of their own (`serve`, `mcp`, the `reindex` of the post-commit hook, a  *)
(* `reindex --force` by hand).                                             *)
(*                                                                         *)
(* sqlite3 runs each CREATE TABLE as a transaction of its own; the first   *)
(* INSERT opens one that lasts until the commit at the end of open(), and  *)
(* holds the file's write lock from then on.  Everything else of open() is *)
(* a step that other processes may come between.                           *)
(*                                                                         *)
(* Files are told apart as the file system does, not by their name: a      *)
(* process that has the store open keeps its file when --force unlinks it. *)
(***************************************************************************)
EXTENDS Integers

CONSTANTS Procs, Models, Vaults,
          DimOf,    \* the dimension of each model's vectors
          MaxFiles, \* bound: how many files are ever created at db_path
          None

ASSUME DimAssumption == DimOf \in [Models -> Nat]
ASSUME NoneAssumption == None \notin Nat \cup Procs \cup Models \cup Vaults
ASSUME MaxFilesAssumption == MaxFiles \in Nat \ {0}

VARIABLES path,     \* the file that db_path names, None when there is none
          files,    \* the files that were ever created there, as committed
          lock,     \* of each file, who holds its write lock
          proc,     \* where each process is in open()
          disturbed \* history: files whose opening was cut short or raced

vars == <<path, files, lock, proc, disturbed>>

FileIds == 1..MaxFiles

\* A chunk is told by who wrote it: with which model, from which vault, and
\* whether before stores recorded their vault.
Chunks == [model : Models, vault : Vaults, old : BOOLEAN]

\* `dim` is that of the vec0 table chunks, `model` and `vault` the rows of
\* embedding_meta and store_meta, `rows` the chunks that were ever written.
Files == [dim : Nat \cup {None}, model : Models \cup {None},
          vault : Vaults \cup {None}, rows : SUBSET Chunks]
NewFile == [dim |-> None, model |-> None, vault |-> None, rows |-> {}]

\* A store that predates store_meta.  Nothing recorded whose chunks it holds:
\* they may be of any vaults, of several even.
OldFile(m, V) ==
  [dim |-> DimOf[m], model |-> m, vault |-> None,
   rows |-> [model : {m}, vault : V, old : {TRUE}]]
First == 1  \* the file that is there in the beginning, if any is

Closed == [pc |-> "closed"]
Opening == {"connect", "create", "read_model", "stamp_model", "read_vault",
            "stamp_vault", "commit"}
States == {Closed} \cup
  [pc : Opening \cup {"open"}, model : Models, vault : Vaults,
   file : FileIds \cup {None}, stamps : SUBSET {"model", "vault"}]

TypeOK == /\ path \in FileIds \cup {None}
          /\ files \in [FileIds -> Files]
          /\ lock \in [FileIds -> Procs \cup {None}]
          /\ proc \in [Procs -> States]
          /\ disturbed \subseteq FileIds
-----------------------------------------------------------------------------
\* No store yet, or one that predates store_meta.
Init == /\ \/ path = None /\ files = [f \in FileIds |-> NewFile]
           \/ /\ path = First
              /\ \E m \in Models, V \in SUBSET Vaults :
                   files = [f \in FileIds |->
                              IF f = First THEN OldFile(m, V) ELSE NewFile]
        /\ lock = [f \in FileIds |-> None]
        /\ proc = [p \in Procs |-> Closed]
        /\ disturbed = {}

At(p, pc) == proc[p].pc = pc
Goto(p, pc) == proc' = [proc EXCEPT ![p].pc = pc]
MyFile(p) == files[proc[p].file]
Mine(p) == [model |-> proc[p].model, vault |-> proc[p].vault, old |-> FALSE]
CanWrite(p) == lock[proc[p].file] \in {None, p}

Called(m, v) ==
  [pc |-> "connect", model |-> m, vault |-> v, file |-> None, stamps |-> {}]

\* open() of a process that is configured with model m and vault v.
Call(p, m, v) ==
  /\ At(p, "closed")
  /\ proc' = [proc EXCEPT ![p] = Called(m, v)]
  /\ UNCHANGED <<path, files, lock, disturbed>>

\* Not the code: a reset that clears the records and keeps the tables.
ForceStampsOnly(p, m, v) ==
  /\ At(p, "closed") /\ path # None
  /\ files' = [files EXCEPT ![path].model = None, ![path].vault = None,
                            ![path].rows = {}]
  /\ proc' = [proc EXCEPT ![p] = Called(m, v)]
  /\ UNCHANGED <<path, lock, disturbed>>

\* open(force_reset=True) unlinks the file first, whoever has it open.
ForceReset(p, m, v) ==
  /\ At(p, "closed") /\ path # None
  /\ path' = None
  /\ proc' = [proc EXCEPT ![p] = Called(m, v)]
  /\ UNCHANGED <<files, lock, disturbed>>

\* The first statement opens the file that db_path names, or creates one.
Unused == {f \in FileIds : /\ files[f] = NewFile /\ path # f
                           /\ \A q \in Procs : proc[q] = Closed \/ proc[q].file # f}

Connect(p) ==
  /\ At(p, "connect")
  /\ \E f \in IF path # None THEN {path} ELSE Unused :
       /\ path' = f
       /\ proc' = [proc EXCEPT ![p].pc = "create", ![p].file = f]
  /\ UNCHANGED <<files, lock, disturbed>>

\* Past the CREATE of the tables, and not done yet.
Past(p) == proc[p].pc \in Opening \ {"connect", "create"}

\* Another process is opening the same file for another model, before either
\* is recorded.
Races(p) == \E q \in Procs \ {p} :
  /\ Past(q) /\ proc[q].file = proc[p].file /\ proc[q].model # proc[p].model
  /\ MyFile(p).model = None

\* CREATE TABLE IF NOT EXISTS: the vec0 table gets the dimension of who comes
\* first.  The other tables do not depend on the configuration, and a later
\* open() creates those that this one leaves out.
CreateTables(p) ==
  /\ At(p, "create")
  /\ MyFile(p).dim # None \/ CanWrite(p)
  /\ files' = IF MyFile(p).dim # None THEN files
              ELSE [files EXCEPT ![proc[p].file].dim = DimOf[proc[p].model]]
  /\ Goto(p, "read_model")
  /\ disturbed' = IF Races(p) THEN disturbed \cup {proc[p].file} ELSE disturbed
  /\ UNCHANGED <<path, lock>>

\* The row of embedding_meta: absent, the configured model's, or (Mismatch)
\* another's.
ReadModel(p) ==
  /\ At(p, "read_model")
  /\ \/ MyFile(p).model = None /\ Goto(p, "stamp_model")
     \/ MyFile(p).model = proc[p].model /\ Goto(p, "read_vault")
  /\ UNCHANGED <<path, files, lock, disturbed>>

\* An INSERT waits for the write lock and then keeps it; the row is seen by
\* others when it is committed.
Insert(p, stamp, next) ==
  /\ CanWrite(p)
  /\ lock' = [lock EXCEPT ![proc[p].file] = p]
  /\ proc' = [proc EXCEPT ![p].pc = next, ![p].stamps = @ \cup {stamp}]
  /\ UNCHANGED <<path, files, disturbed>>

\* Not the code: INSERT OR REPLACE.
StampModelReplace(p) == At(p, "stamp_model") /\ Insert(p, "model", "read_vault")

\* The INSERT fails (Raise) when the one row there may be has been inserted by
\* another process since it was found absent.
StampModel(p) ==
  /\ At(p, "stamp_model")
  /\ MyFile(p).model = None
  /\ Insert(p, "model", "read_vault")

\* The row of store_meta, likewise; a store that predates it is adopted by who
\* comes first, whatever it holds.
ReadVault(p) ==
  /\ At(p, "read_vault")
  /\ \/ MyFile(p).vault = None /\ Goto(p, "stamp_vault")
     \/ MyFile(p).vault = proc[p].vault /\ Goto(p, "commit")
  /\ UNCHANGED <<path, files, lock, disturbed>>

StampVault(p) ==
  /\ At(p, "stamp_vault")
  /\ MyFile(p).vault = None
  /\ Insert(p, "vault", "commit")

\* Release of the write lock, if p holds that of its file.
Unlocked(p) == [f \in FileIds |-> IF lock[f] = p THEN None ELSE lock[f]]

\* Not the code: two positional parameters in the wrong order.
StampedSwapped(p) ==
  LET st == proc[p].stamps
  IN [MyFile(p) EXCEPT !.model = IF "model" \in st THEN proc[p].vault ELSE @,
                       !.vault = IF "vault" \in st THEN proc[p].model ELSE @]

Stamped(p) ==
  LET st == proc[p].stamps
  IN [MyFile(p) EXCEPT !.model = IF "model" \in st THEN proc[p].model ELSE @,
                       !.vault = IF "vault" \in st THEN proc[p].vault ELSE @]

Commit(p) ==
  /\ At(p, "commit")
  /\ files' = [files EXCEPT ![proc[p].file] = Stamped(p)]
  /\ lock' = Unlocked(p)
  /\ proc' = [proc EXCEPT ![p].pc = "open", ![p].stamps = {}]
  /\ UNCHANGED <<path, disturbed>>

\* EmbeddingModelMismatch, VaultPathMismatch: the connection is closed, which
\* rolls back what open() inserted.
Mismatch(p) ==
  /\ \/ At(p, "read_model") /\ MyFile(p).model \notin {None, proc[p].model}
     \/ At(p, "read_vault") /\ MyFile(p).vault \notin {None, proc[p].vault}
  /\ proc' = [proc EXCEPT ![p] = Closed]
  /\ lock' = Unlocked(p)
  /\ UNCHANGED <<path, files, disturbed>>

\* open() raises otherwise, or the process is killed: the lock times out, or a
\* row was inserted meanwhile.
Raise(p) ==
  /\ proc[p].pc \in Opening
  /\ proc' = [proc EXCEPT ![p] = Closed]
  /\ lock' = Unlocked(p)
  /\ disturbed' = IF Past(p) /\ MyFile(p).model = None
                  THEN disturbed \cup {proc[p].file} ELSE disturbed
  /\ UNCHANGED <<path, files>>

\* The process writes a chunk to the store it has open; vec0 rejects a vector
\* of another dimension than the table's.
Write(p) ==
  /\ At(p, "open")
  /\ MyFile(p).dim = DimOf[proc[p].model] /\ CanWrite(p)
  /\ files' = [files EXCEPT ![proc[p].file].rows =
                 @ \cup {Mine(p)}]
  /\ UNCHANGED <<path, lock, proc, disturbed>>

Close(p) ==
  /\ At(p, "open")
  /\ proc' = [proc EXCEPT ![p] = Closed]
  /\ UNCHANGED <<path, files, lock, disturbed>>

Next == \E p \in Procs :
  \/ \E m \in Models, v \in Vaults : Call(p, m, v)
  \/ \E m \in Models, v \in Vaults : ForceReset(p, m, v)
  \/ Connect(p) \/ CreateTables(p)
  \/ ReadModel(p) \/ StampModel(p) \/ ReadVault(p) \/ StampVault(p)
  \/ Commit(p) \/ Mismatch(p) \/ Raise(p)
  \/ Write(p) \/ Close(p)

Spec == Init /\ [][Next]_vars
-----------------------------------------------------------------------------
\* "One cache directory holds one vault", and one model: every chunk in a file
\* is of the model and the vault recorded in it, and a process that has it open
\* works for those two, however many processes open it at once with other
\* settings and wherever they are cut short.  The one exception is what a store
\* held before stores recorded their vault: open() adopts those chunks unseen,
\* and they may be another vault's.  They are in no file created since, so
\* after a --force there are none.
OneCorpus ==
  /\ \A f \in FileIds : \A c \in files[f].rows :
       /\ c.model = files[f].model
       /\ c.vault = files[f].vault \/ (c.old /\ f = First)
  /\ \A p \in Procs : At(p, "open") => /\ MyFile(p).model = proc[p].model
                                       /\ MyFile(p).vault = proc[p].vault

\* The recorded model can be stored: the table has the dimension of its
\* vectors, unless an opening of the file was cut short, or raced with one for
\* another model, between the CREATE and the commit.
TableFits ==
  \A f \in FileIds : files[f].model # None /\ f \notin disturbed =>
                       files[f].dim = DimOf[files[f].model]
-----------------------------------------------------------------------------
\* The inductive invariant.  A row that is inserted and not yet committed is
\* covered by the write lock of its file and is not in the file yet; and a
\* process past a check has found its own setting there, or put it there.
Pending == \A p \in Procs : proc[p] # Closed /\ proc[p].stamps # {} =>
  /\ proc[p].pc \in {"read_vault", "stamp_vault", "commit"}
  /\ lock[proc[p].file] = p
  /\ "model" \in proc[p].stamps => MyFile(p).model = None
  /\ "vault" \in proc[p].stamps => MyFile(p).vault = None

Checked == \A p \in Procs : proc[p] # Closed =>
  /\ proc[p].file = None => At(p, "connect")
  /\ proc[p].pc \in {"read_vault", "stamp_vault", "commit", "open"} =>
       "model" \in proc[p].stamps \/ MyFile(p).model = proc[p].model
  /\ proc[p].pc \in {"commit", "open"} =>
       "vault" \in proc[p].stamps \/ MyFile(p).vault = proc[p].vault

Inv == TypeOK /\ OneCorpus /\ Pending /\ Checked

\* What TableFits needs besides: a table whose file has no model recorded is the
\* work of a process that is still opening it, and has that process's dimension.
Fits ==
  /\ TableFits
  /\ \A f \in FileIds : files[f].vault # None => files[f].model # None
  /\ \A p \in Procs :
       Past(p) /\ MyFile(p).model = None /\ proc[p].file \notin disturbed
         => MyFile(p).dim = DimOf[proc[p].model]
  /\ \A f \in FileIds \ disturbed :
       files[f].dim # None /\ files[f].model = None
         => \E p \in Procs : Past(p) /\ proc[p].file = f
=============================================================================
