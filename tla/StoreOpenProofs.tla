--------------------------- MODULE StoreOpenProofs ---------------------------
(***************************************************************************)
(* What StoreOpen promises, for any processes, models, vaults and files.   *)
(***************************************************************************)
EXTENDS StoreOpen, TLAPS

Busy == [pc : Opening \cup {"open"}, model : Models, vault : Vaults,
         file : FileIds \cup {None}, stamps : SUBSET {"model", "vault"}]

\* A process that is not closed has a configuration, and a file once it is
\* past its first statement.
LEMMA BusyState ==
  ASSUME Inv, NEW p \in Procs, proc[p] # Closed
  PROVE  /\ proc[p] \in Busy
         /\ ~ At(p, "closed")
         /\ ~ At(p, "connect") => proc[p].file \in FileIds
BY DEF Inv, TypeOK, Checked, States, Busy, Closed, At, Opening

\* A process that is past its CREATE is in a file.
LEMMA PastState ==
  ASSUME Inv, NEW p \in Procs, Past(p)
  PROVE  /\ proc[p] # Closed /\ proc[p] \in Busy /\ proc[p].file \in FileIds
         /\ proc[p].model \in Models /\ proc[p].model # None
<1>1. proc[p] # Closed
  BY DEF Past, Closed, Opening
<1> QED
  BY <1>1, BusyState, NoneAssumption DEF Past, Opening, At, Busy

LEMMA ClosedState ==
  ASSUME TypeOK, NEW p \in Procs
  PROVE  At(p, "closed") <=> proc[p] = Closed
BY DEF TypeOK, States, Closed, At, Opening

LEMMA InitInv == Init => Inv
<1> SUFFICES ASSUME Init PROVE Inv
  OBVIOUS
<1>1. /\ files \in [FileIds -> Files] /\ path \in FileIds \cup {None}
      /\ \A f \in FileIds : \A c \in files[f].rows :
           c.model = files[f].model /\ c.old /\ f = First
  <2>1. NewFile \in Files /\ NewFile.rows = {}
    BY DEF NewFile, Files
  <2>2. ASSUME NEW m \in Models, NEW V \in SUBSET Vaults
        PROVE  /\ OldFile(m, V) \in Files
               /\ \A c \in OldFile(m, V).rows : c.model = OldFile(m, V).model /\ c.old
    <3>1. [model : {m}, vault : V, old : {TRUE}] \subseteq Chunks
      BY DEF Chunks
    <3> QED
      BY <3>1, DimAssumption DEF OldFile, Files
  <2> QED
    BY <2>1, <2>2, MaxFilesAssumption DEF Init, FileIds, First
<1>2. lock \in [FileIds -> Procs \cup {None}] /\ disturbed \subseteq FileIds
  BY DEF Init
<1>3. proc \in [Procs -> States] /\ \A p \in Procs : proc[p] = Closed
  BY DEF Init, States
<1> QED
  BY <1>1, <1>2, <1>3
     DEF Inv, TypeOK, OneCorpus, Pending, Checked, At, Closed

\* Steps that leave the files and the locks alone, and change one process.
LEMMA OwnStep ==
  ASSUME Inv, NEW p \in Procs,
         UNCHANGED <<files, lock>>,
         path' \in FileIds \cup {None}, disturbed' \subseteq FileIds,
         NEW s \in States, proc' = [proc EXCEPT ![p] = s],
         s # Closed =>
           /\ s.file = None => s.pc = "connect"
           /\ s.stamps # {} => /\ s.pc \in {"read_vault", "stamp_vault", "commit"}
                               /\ lock[s.file] = p
           /\ "model" \in s.stamps => files[s.file].model = None
           /\ "vault" \in s.stamps => files[s.file].vault = None
           /\ s.pc \in {"read_vault", "stamp_vault", "commit", "open"} =>
                "model" \in s.stamps \/ files[s.file].model = s.model
           /\ s.pc \in {"commit", "open"} =>
                "vault" \in s.stamps \/ files[s.file].vault = s.vault
  PROVE  Inv'
<1>1. \A q \in Procs : proc'[q] = IF q = p THEN s ELSE proc[q]
  BY DEF Inv, TypeOK
<1>2. TypeOK'
  BY DEF Inv, TypeOK
<1>3. OneCorpus'
  BY <1>1 DEF Inv, OneCorpus, At, MyFile, Closed, Busy
<1>4. Pending'
  BY <1>1 DEF Inv, Pending, MyFile
<1>5. Checked'
  BY <1>1 DEF Inv, Checked, MyFile, At
<1> QED
  BY <1>2, <1>3, <1>4, <1>5 DEF Inv

\* Steps that end the call of a process, and roll back what it inserted.
LEMMA EndStep ==
  ASSUME Inv, NEW p \in Procs, proc[p] # Closed,
         UNCHANGED <<path, files>>, disturbed' \subseteq FileIds,
         proc' = [proc EXCEPT ![p] = Closed], lock' = Unlocked(p)
  PROVE  Inv'
<1>1. \A q \in Procs : proc'[q] = IF q = p THEN Closed ELSE proc[q]
  BY DEF Inv, TypeOK
<1>2. \A f \in FileIds : lock'[f] = IF lock[f] = p THEN None ELSE lock[f]
  BY DEF Unlocked
<1>3. TypeOK'
  BY DEF Inv, TypeOK, Unlocked, States
<1>4. OneCorpus'
  BY <1>1 DEF Inv, OneCorpus, At, MyFile, Closed
<1>5. Pending'
  BY <1>1, <1>2, BusyState DEF Inv, Pending, MyFile, At
<1>6. Checked'
  BY <1>1 DEF Inv, Checked, MyFile, At
<1> QED
  BY <1>3, <1>4, <1>5, <1>6 DEF Inv

\* The process that commits is the only one with rows to insert in its file.
LEMMA CommitStep ==
  ASSUME Inv, NEW p \in Procs, Commit(p)
  PROVE  Inv'
<1> DEFINE g == proc[p].file
           s == [proc[p] EXCEPT !.pc = "open", !.stamps = {}]
<1>1. /\ proc[p] # Closed /\ proc[p] \in Busy /\ g \in FileIds
      /\ files[g] \in Files
  BY BusyState, ClosedState DEF Commit, At, Closed, Inv, TypeOK
<1>2. /\ Stamped(p) \in Files
      /\ Stamped(p).model = proc[p].model /\ Stamped(p).vault = proc[p].vault
      /\ Stamped(p).rows = files[g].rows
      /\ files[g].model \in {None, proc[p].model}
      /\ files[g].vault \in {None, proc[p].vault}
      /\ proc[p].stamps # {} => lock[g] = p
      /\ proc[p].stamps = {} => /\ files[g].model = proc[p].model
                                /\ files[g].vault = proc[p].vault
  BY <1>1 DEF Stamped, MyFile, Inv, Checked, Pending, Commit, At, Files, Busy
<1>3. \A f \in FileIds : files'[f] = IF f = g THEN Stamped(p) ELSE files[f]
  BY <1>1 DEF Commit, Inv, TypeOK
<1>4. /\ s \in States /\ s # Closed /\ s.pc = "open" /\ s.stamps = {} /\ s.file = g
      /\ s.model = proc[p].model /\ s.vault = proc[p].vault
  BY <1>1 DEF Busy, States, Closed
<1>5. proc' = [proc EXCEPT ![p] = s]
  BY DEF Commit
<1>6. \A q \in Procs : proc'[q] = IF q = p THEN s ELSE proc[q]
  BY <1>5 DEF Inv, TypeOK
<1>7. /\ \A f \in FileIds : lock'[f] = IF lock[f] = p THEN None ELSE lock[f]
      /\ lock' \in [FileIds -> Procs \cup {None}]
  BY DEF Commit, Unlocked, Inv, TypeOK
<1> HIDE DEF s
<1>8. TypeOK'
  BY <1>1, <1>2, <1>4, <1>5, <1>7 DEF Commit, Inv, TypeOK
<1>9. OneCorpus'
  <2>1. ASSUME NEW f \in FileIds, NEW c \in files'[f].rows
        PROVE  /\ c.model = files'[f].model
               /\ c.vault = files'[f].vault \/ (c.old /\ f = First)
    <3>1. c \in files[f].rows /\ c.model \in Models /\ c.vault \in Vaults
      BY <1>1, <1>2, <1>3, <2>1 DEF Inv, TypeOK, Files, Chunks
    <3>2. /\ c.model = files[f].model
          /\ c.vault = files[f].vault \/ (c.old /\ f = First)
      BY <3>1 DEF Inv, OneCorpus
    <3> QED
      BY <1>2, <1>3, <3>1, <3>2, NoneAssumption
  <2>2. ASSUME NEW q \in Procs, proc'[q].pc = "open"
        PROVE  /\ files'[proc'[q].file].model = proc'[q].model
               /\ files'[proc'[q].file].vault = proc'[q].vault
    <3>1. CASE q = p
      BY <1>1, <1>2, <1>3, <1>4, <1>6, <3>1
    <3>2. CASE q # p
      <4>1. /\ proc'[q] = proc[q] /\ proc[q].file \in FileIds
            /\ proc[q].model \in Models /\ proc[q].vault \in Vaults
            /\ files[proc[q].file].model = proc[q].model
            /\ files[proc[q].file].vault = proc[q].vault
        BY <1>6, <2>2, <3>2, BusyState DEF Inv, OneCorpus, At, MyFile, Closed, Busy
      <4> QED
        BY <1>2, <1>3, <4>1, NoneAssumption
    <3> QED
      BY <3>1, <3>2
  <2> QED
    BY <2>1, <2>2 DEF OneCorpus, At, MyFile
<1>10. Pending'
  <2> SUFFICES ASSUME NEW q \in Procs, proc'[q] # Closed, proc'[q].stamps # {}
               PROVE  /\ proc'[q].pc \in {"read_vault", "stamp_vault", "commit"}
                      /\ lock'[proc'[q].file] = q
                      /\ "model" \in proc'[q].stamps =>
                           files'[proc'[q].file].model = None
                      /\ "vault" \in proc'[q].stamps =>
                           files'[proc'[q].file].vault = None
    BY DEF Pending, MyFile
  <2>1. q # p /\ proc'[q] = proc[q]
    BY <1>4, <1>6
  <2>2. /\ proc[q].pc \in {"read_vault", "stamp_vault", "commit"}
        /\ proc[q].file \in FileIds /\ lock[proc[q].file] = q
        /\ "model" \in proc[q].stamps => files[proc[q].file].model = None
        /\ "vault" \in proc[q].stamps => files[proc[q].file].vault = None
    BY <2>1, BusyState DEF Inv, Pending, MyFile, At
  <2>3. lock'[proc[q].file] = q
    BY <1>7, <2>1, <2>2
  <2>4. CASE proc[q].file = g
    BY <1>1, <1>2, <1>3, <2>1, <2>2, <2>3, <2>4, NoneAssumption DEF Busy
  <2>5. CASE proc[q].file # g
    BY <1>3, <2>1, <2>2, <2>3, <2>5
  <2> QED
    BY <2>4, <2>5
<1>11. Checked'
  <2> SUFFICES ASSUME NEW q \in Procs, proc'[q] # Closed
               PROVE  /\ proc'[q].file = None => proc'[q].pc = "connect"
                      /\ proc'[q].pc \in {"read_vault", "stamp_vault", "commit", "open"} =>
                           \/ "model" \in proc'[q].stamps
                           \/ files'[proc'[q].file].model = proc'[q].model
                      /\ proc'[q].pc \in {"commit", "open"} =>
                           \/ "vault" \in proc'[q].stamps
                           \/ files'[proc'[q].file].vault = proc'[q].vault
    BY DEF Checked, MyFile, At
  <2>1. CASE q = p
    <3>1. proc'[q] = s
      BY <1>6, <2>1
    <3>2. files'[s.file] = Stamped(p) /\ s.file # None
      BY <1>1, <1>3, <1>4, NoneAssumption DEF FileIds
    <3> QED
      BY <1>2, <1>4, <3>1, <3>2
  <2>2. CASE q # p
    <3>1. proc'[q] = proc[q] /\ proc[q] \in Busy
      BY <1>6, <2>2, BusyState
    <3>2. /\ proc[q].file = None => proc[q].pc = "connect"
          /\ proc[q].pc \in {"read_vault", "stamp_vault", "commit", "open"} =>
               \/ "model" \in proc[q].stamps
               \/ files[proc[q].file].model = proc[q].model
          /\ proc[q].pc \in {"commit", "open"} =>
               \/ "vault" \in proc[q].stamps
               \/ files[proc[q].file].vault = proc[q].vault
      BY <3>1 DEF Inv, Checked, MyFile, At
    <3>3. proc[q].pc # "connect" => proc[q].file \in FileIds
      BY <3>1, <3>2 DEF Busy
    <3> QED
      BY <1>2, <1>3, <3>1, <3>2, <3>3, NoneAssumption DEF Busy
  <2> QED
    BY <2>1, <2>2
<1> QED
  BY <1>8, <1>9, <1>10, <1>11 DEF Inv

\* A process that may write inserts a row, and holds the lock from then on.
LEMMA InsertStep ==
  ASSUME Inv, NEW p \in Procs, NEW stamp \in {"model", "vault"}, NEW next,
         proc[p] # Closed, Insert(p, stamp, next),
         \/ stamp = "model" /\ next = "read_vault" /\ At(p, "stamp_model")
            /\ MyFile(p).model = None
         \/ stamp = "vault" /\ next = "commit" /\ At(p, "stamp_vault")
            /\ MyFile(p).vault = None
  PROVE  Inv'
<1> DEFINE g == proc[p].file
           s == [proc[p] EXCEPT !.pc = next, !.stamps = @ \cup {stamp}]
<1>1. /\ proc[p] \in Busy /\ g \in FileIds
  BY BusyState DEF At
<1>2. /\ s \in States /\ s # Closed /\ s.file = g /\ s.pc = next
      /\ s.stamps = proc[p].stamps \cup {stamp}
      /\ s.model = proc[p].model /\ s.vault = proc[p].vault
  BY <1>1 DEF Busy, States, Closed, Opening
<1>3. proc' = [proc EXCEPT ![p] = s]
  BY DEF Insert
<1>4. \A q \in Procs : proc'[q] = IF q = p THEN s ELSE proc[q]
  BY <1>3 DEF Inv, TypeOK
<1> HIDE DEF s
<1>5. /\ \A f \in FileIds : lock'[f] = IF f = g THEN p ELSE lock[f]
      /\ lock[g] \in {None, p} /\ UNCHANGED files
  BY <1>1 DEF Insert, CanWrite, Inv, TypeOK
<1>6. TypeOK'
  BY <1>1, <1>2, <1>3 DEF Insert, Inv, TypeOK
<1>7. OneCorpus'
  BY <1>2, <1>4, <1>5 DEF Inv, OneCorpus, At, MyFile
<1>8. Pending'
  BY <1>1, <1>2, <1>4, <1>5, BusyState, NoneAssumption
     DEF Inv, Pending, MyFile, At
<1>9. Checked'
  BY <1>1, <1>2, <1>4, <1>5 DEF Inv, Checked, MyFile, At
<1> QED
  BY <1>6, <1>7, <1>8, <1>9 DEF Inv

\* A chunk is written by a process that has the file open for its corpus.
LEMMA WriteStep ==
  ASSUME Inv, NEW p \in Procs, Write(p)
  PROVE  Inv'
<1> DEFINE g == proc[p].file
           new == Mine(p)
           row == [files[g] EXCEPT !.rows = @ \cup {new}]
<1>1. /\ proc[p] # Closed /\ proc[p] \in Busy /\ g \in FileIds
      /\ files[g] \in Files
      /\ files[g].model = proc[p].model /\ files[g].vault = proc[p].vault
      /\ new \in Chunks
  BY BusyState, ClosedState
     DEF Write, At, Closed, Inv, TypeOK, OneCorpus, MyFile, Busy, Chunks, Mine
<1>2. /\ files' = [files EXCEPT ![g] = row]
      /\ row \in Files /\ row.model = files[g].model /\ row.vault = files[g].vault
      /\ row.rows = files[g].rows \cup {new}
  BY <1>1 DEF Write, Files
<1> HIDE DEF row
<1>3. \A f \in FileIds : /\ files'[f] \in Files
                         /\ files'[f].model = files[f].model
                         /\ files'[f].vault = files[f].vault
                         /\ f # g => files'[f] = files[f]
                         /\ f = g => files'[f].rows = files[f].rows \cup {new}
  BY <1>1, <1>2 DEF Inv, TypeOK
<1>4. UNCHANGED <<path, lock, proc, disturbed>>
  BY DEF Write
<1>5. TypeOK'
  BY <1>2, <1>3, <1>4 DEF Inv, TypeOK
<1>6. OneCorpus'
  BY <1>1, <1>3, <1>4, BusyState DEF Inv, OneCorpus, At, MyFile, Closed, Busy, Chunks, Mine
<1>7. Pending' /\ Checked'
  BY <1>3, <1>4, BusyState DEF Inv, Pending, Checked, MyFile, At, Busy
<1> QED
  BY <1>5, <1>6, <1>7 DEF Inv

\* CREATE TABLE changes the dimension of a file and nothing that is recorded.
LEMMA CreateStep ==
  ASSUME Inv, NEW p \in Procs, CreateTables(p)
  PROVE  Inv'
<1> DEFINE g == proc[p].file
           s == [proc[p] EXCEPT !.pc = "read_model"]
<1>1. /\ proc[p] # Closed /\ proc[p] \in Busy /\ g \in FileIds
      /\ DimOf[proc[p].model] \in Nat
  BY BusyState, ClosedState, DimAssumption
     DEF CreateTables, At, Closed, Inv, TypeOK, Busy
<1>2. \A f \in FileIds : /\ files'[f] \in Files
                         /\ files'[f].model = files[f].model
                         /\ files'[f].vault = files[f].vault
                         /\ files'[f].rows = files[f].rows
  BY <1>1 DEF CreateTables, Inv, TypeOK, Files
<1>3. /\ s \in States /\ s # Closed /\ s.file = g /\ s.pc = "read_model"
      /\ s.stamps = proc[p].stamps
  BY <1>1 DEF Busy, States, Closed, Opening
<1>4. proc' = [proc EXCEPT ![p] = s] /\ UNCHANGED <<path, lock>>
  BY DEF CreateTables, Goto
<1>5. \A q \in Procs : proc'[q] = IF q = p THEN s ELSE proc[q]
  BY <1>4 DEF Inv, TypeOK
<1>6. proc[p].stamps = {}
  BY <1>1 DEF Inv, Pending, CreateTables, At
<1> HIDE DEF s
<1>7. TypeOK'
  BY <1>1, <1>2, <1>3, <1>4 DEF CreateTables, Inv, TypeOK
<1>8. OneCorpus'
  BY <1>2, <1>3, <1>5, BusyState DEF Inv, OneCorpus, At, MyFile, Closed, Busy
<1>9. Pending'
  BY <1>2, <1>3, <1>4, <1>5, <1>6, BusyState DEF Inv, Pending, MyFile, At
<1>10. Checked'
  BY <1>1, <1>2, <1>3, <1>5, BusyState, NoneAssumption
     DEF Inv, Checked, MyFile, At, Busy, FileIds
<1> QED
  BY <1>7, <1>8, <1>9, <1>10 DEF Inv

LEMMA Step == Inv /\ [Next]_vars => Inv'
<1> SUFFICES ASSUME Inv, [Next]_vars PROVE Inv'
  OBVIOUS
<1>1. CASE UNCHANGED vars
  BY <1>1 DEF vars, Inv, TypeOK, OneCorpus, Pending, Checked, At, MyFile
<1>2. ASSUME NEW p \in Procs, NEW m \in Models, NEW v \in Vaults,
             Call(p, m, v) \/ ForceReset(p, m, v)
      PROVE  Inv'
  <2>1. /\ Called(m, v) \in States /\ Called(m, v).stamps = {}
        /\ Called(m, v).pc = "connect"
    BY DEF Called, States, Opening
  <2> QED
    BY <1>2, <2>1, OwnStep DEF Call, ForceReset, Inv, TypeOK
<1>3. ASSUME NEW p \in Procs, Connect(p)
      PROVE  Inv'
  <2>1. PICK f \in FileIds :
          /\ path' = f
          /\ proc' = [proc EXCEPT ![p].pc = "create", ![p].file = f]
    BY <1>3 DEF Connect, Unused, Inv, TypeOK
  <2> DEFINE s == [proc[p] EXCEPT !.pc = "create", !.file = f]
  <2>2. proc[p] # Closed /\ proc[p] \in Busy /\ proc[p].stamps = {}
    BY <1>3, BusyState DEF Connect, At, Closed, Inv, Pending
  <2>3. /\ s \in States /\ s.pc = "create" /\ s.file = f /\ s.stamps = {}
    BY <2>2 DEF Busy, States, Opening
  <2>4. proc' = [proc EXCEPT ![p] = s]
    BY <2>1
  <2>5. s.file # None
    BY <2>3, NoneAssumption DEF FileIds
  <2> HIDE DEF s
  <2>6. /\ UNCHANGED <<files, lock>> /\ path' \in FileIds \cup {None}
        /\ disturbed' \subseteq FileIds
    BY <1>3, <2>1 DEF Connect, Inv, TypeOK
  <2> QED
    BY <2>3, <2>4, <2>5, <2>6, OwnStep
<1>4. ASSUME NEW p \in Procs, ReadModel(p) \/ ReadVault(p)
      PROVE  Inv'
  <2>1. PICK next \in {"stamp_model", "read_vault", "stamp_vault", "commit"} :
          /\ Goto(p, next)
          /\ next = "stamp_model" => At(p, "read_model")
          /\ next = "read_vault" => /\ At(p, "read_model")
                                    /\ MyFile(p).model = proc[p].model
          /\ next \in {"stamp_vault", "commit"} => At(p, "read_vault")
          /\ next = "commit" => MyFile(p).vault = proc[p].vault
    BY <1>4 DEF ReadModel, ReadVault
  <2> DEFINE s == [proc[p] EXCEPT !.pc = next]
  <2>2. /\ proc[p] # Closed /\ proc[p] \in Busy /\ proc[p].file \in FileIds
    BY <1>4, BusyState, ClosedState DEF ReadModel, ReadVault, At, Closed, Inv
  <2>3. /\ s \in States /\ s.pc = next /\ s.file = proc[p].file
        /\ s.stamps = proc[p].stamps /\ s.model = proc[p].model
        /\ s.vault = proc[p].vault
    BY <2>2 DEF Busy, States, Opening
  <2>4. proc' = [proc EXCEPT ![p] = s]
    BY <2>1 DEF Goto
  <2>5. s.file # None
    BY <2>2, <2>3, NoneAssumption DEF FileIds
  <2> HIDE DEF s
  <2>6. /\ UNCHANGED <<files, lock>> /\ path' \in FileIds \cup {None}
        /\ disturbed' \subseteq FileIds
    BY <1>4 DEF ReadModel, ReadVault, Inv, TypeOK
  <2>7. /\ s.stamps # {} => /\ s.pc \in {"read_vault", "stamp_vault", "commit"}
                            /\ lock[s.file] = p
        /\ "model" \in s.stamps => files[s.file].model = None
        /\ "vault" \in s.stamps => files[s.file].vault = None
    BY <2>1, <2>2, <2>3 DEF Inv, Pending, MyFile, At
  <2>8. /\ s.pc \in {"read_vault", "stamp_vault", "commit", "open"} =>
             "model" \in s.stamps \/ files[s.file].model = s.model
        /\ s.pc \in {"commit", "open"} =>
             "vault" \in s.stamps \/ files[s.file].vault = s.vault
    BY <2>1, <2>2, <2>3 DEF Inv, Checked, MyFile, At
  <2> QED
    BY <2>3, <2>4, <2>5, <2>6, <2>7, <2>8, OwnStep
<1>5. ASSUME NEW p \in Procs, StampModel(p) \/ StampVault(p)
      PROVE  Inv'
  BY <1>5, InsertStep, ClosedState DEF StampModel, StampVault, At, Closed, Inv
<1>6. ASSUME NEW p \in Procs, Mismatch(p) \/ Raise(p)
      PROVE  Inv'
  <2>1. proc[p] # Closed
    BY <1>6 DEF Mismatch, Raise, At, Closed, Opening
  <2>2. disturbed' \subseteq FileIds
    BY <1>6, PastState DEF Mismatch, Raise, Inv, TypeOK
  <2> QED
    BY <1>6, <2>1, <2>2, EndStep DEF Mismatch, Raise
<1>7. ASSUME NEW p \in Procs, Close(p)
      PROVE  Inv'
  <2>1. /\ Closed \in States /\ proc' = [proc EXCEPT ![p] = Closed]
        /\ UNCHANGED <<path, files, lock, disturbed>>
    BY <1>7 DEF Close, States
  <2> QED
    BY <2>1, OwnStep DEF Inv, TypeOK
<1> QED
  BY <1>1, <1>2, <1>3, <1>4, <1>5, <1>6, <1>7, CommitStep, WriteStep, CreateStep
     DEF Next

THEOREM Invariance == Spec => []Inv
BY InitInv, Step, PTL DEF Spec

\* Any number of processes, whatever they are configured with and wherever an
\* open() of theirs ends, write to a store only chunks of the one model and the
\* one vault that are recorded in it.  Chunks of another vault are there only
\* if they were there before stores recorded their vault.
THEOREM StoresAreNotMixed == Spec => []OneCorpus
BY Invariance, PTL DEF Inv

\* The model's states are those of the code's variables.
THEOREM TypeCorrect == Spec => []TypeOK
BY Invariance, PTL DEF Inv
-----------------------------------------------------------------------------
(* The dimension of the table. *)

LEMMA InitFits == Init => Fits
<1> SUFFICES ASSUME Init PROVE Fits
  OBVIOUS
<1>1. \A p \in Procs : ~ Past(p)
  BY DEF Init, Past, Closed, Opening
<1>2. \A f \in FileIds : \/ files[f] = NewFile
                         \/ \E m \in Models, V \in SUBSET Vaults : files[f] = OldFile(m, V)
  BY DEF Init
<1>3. \A f \in FileIds : /\ files[f].vault = None
                         /\ \/ files[f].model = None /\ files[f].dim = None
                            \/ files[f].model # None /\ files[f].dim = DimOf[files[f].model]
  <2>1. TAKE f \in FileIds
  <2>2. CASE files[f] = NewFile
    BY <2>2 DEF NewFile
  <2>3. ASSUME NEW m \in Models, NEW V \in SUBSET Vaults, files[f] = OldFile(m, V)
        PROVE  /\ files[f].vault = None
               /\ files[f].model # None /\ files[f].dim = DimOf[files[f].model]
    <3>1. m # None
      BY NoneAssumption
    <3> QED
      BY <2>3, <3>1 DEF OldFile
  <2> QED
    BY <1>2, <2>2, <2>3
<1> QED
  BY <1>1, <1>3 DEF Fits, TableFits

\* Steps within an open(), or before its CREATE, or after its commit.
LEMMA QuietStep ==
  ASSUME Fits, UNCHANGED <<files, disturbed>>,
         \A q \in Procs : Past(q)' <=> Past(q),
         \A q \in Procs : Past(q) => proc'[q].file = proc[q].file
                                     /\ proc'[q].model = proc[q].model
  PROVE  Fits'
BY DEF Fits, TableFits, MyFile

\* An open() that ends without a commit leaves a file that it has disturbed, or
\* one whose model is recorded.
LEMMA EndFits ==
  ASSUME Inv, Fits, NEW p \in Procs, Mismatch(p) \/ Raise(p)
  PROVE  Fits'
<1>1. files' = files /\ proc' = [proc EXCEPT ![p] = Closed] /\ disturbed \subseteq disturbed'
  BY DEF Mismatch, Raise
<1>2. /\ ~ Past(p)'
      /\ \A q \in Procs \ {p} : proc'[q] = proc[q] /\ (Past(q)' <=> Past(q))
  BY <1>1 DEF Inv, TypeOK, Past, Closed, Opening
<1>3. Past(p) => MyFile(p).model # None \/ proc[p].file \in disturbed'
  <2>1. CASE Raise(p)
    BY <2>1 DEF Raise
  <2>2. CASE Mismatch(p) /\ Past(p)
    <3>1. proc[p].file \in FileIds
      BY <2>2, PastState
    <3> QED
      BY <2>2, <3>1 DEF Mismatch, MyFile, Fits
  <2> QED
    BY <2>1, <2>2
<1>4. \A f \in FileIds \ disturbed' :
        files'[f].dim # None /\ files'[f].model = None
          => \E q \in Procs : Past(q)' /\ proc'[q].file = f
  BY <1>1, <1>2, <1>3 DEF Fits, MyFile
<1>5. \A q \in Procs :
        Past(q)' /\ files'[proc'[q].file].model = None /\ proc'[q].file \notin disturbed'
          => files'[proc'[q].file].dim = DimOf[proc'[q].model]
  BY <1>1, <1>2 DEF Fits, MyFile
<1> QED
  BY <1>1, <1>4, <1>5 DEF Fits, TableFits, MyFile

\* Who comes first gives the table its dimension; who comes second, before the
\* model is recorded, is of the same model or disturbs the file.
LEMMA CreateFits ==
  ASSUME Inv, Fits, NEW p \in Procs, CreateTables(p)
  PROVE  Fits'
<1> DEFINE g == proc[p].file
<1>1. /\ proc[p] \in Busy /\ g \in FileIds /\ DimOf[proc[p].model] # None
      /\ proc[p].model \in Models /\ ~ Past(p)
  BY BusyState, ClosedState, DimAssumption, NoneAssumption
     DEF CreateTables, At, Closed, Inv, TypeOK, Busy, Past, Opening
<1>2. /\ \A q \in Procs : proc'[q].file = proc[q].file /\ proc'[q].model = proc[q].model
      /\ Past(p)' /\ \A q \in Procs \ {p} : Past(q)' <=> Past(q)
  <2>1. \A q \in Procs \ {p} : proc'[q] = proc[q]
    BY DEF CreateTables, Goto, Inv, TypeOK
  <2>2. proc'[p] = [proc[p] EXCEPT !.pc = "read_model"]
    BY DEF CreateTables, Goto, Inv, TypeOK
  <2> QED
    BY <1>1, <2>1, <2>2 DEF Past, Opening, Busy
<1>3. /\ \A f \in FileIds : /\ files'[f].model = files[f].model
                            /\ files'[f].vault = files[f].vault
                            /\ f # g \/ files[f].dim # None => files'[f].dim = files[f].dim
      /\ files[g].dim = None => files'[g].dim = DimOf[proc[p].model]
      /\ disturbed' = IF Races(p) THEN disturbed \cup {g} ELSE disturbed
  BY <1>1 DEF CreateTables, Inv, TypeOK, Files, MyFile
<1> HIDE DEF g
<1>4. TableFits'
  <2>1. ASSUME NEW f \in FileIds, files[f].model # None, f \notin disturbed
        PROVE  files[f].dim = DimOf[files[f].model] /\ files[f].dim # None
    BY <2>1, DimAssumption, NoneAssumption DEF Fits, TableFits, Inv, TypeOK, Files
  <2> QED
    BY <1>3, <2>1 DEF TableFits
<1>5. ASSUME NEW q \in Procs, Past(q)', files'[proc'[q].file].model = None,
             proc'[q].file \notin disturbed'
      PROVE  files'[proc'[q].file].dim = DimOf[proc'[q].model]
  <2>1. CASE q # p
    <3>1. /\ Past(q) /\ proc[q].file \in FileIds /\ files[proc[q].file].model = None
          /\ proc[q].file \notin disturbed /\ DimOf[proc[q].model] # None
      BY <1>2, <1>3, <1>5, <2>1, PastState, DimAssumption, NoneAssumption
    <3>2. files[proc[q].file].dim = DimOf[proc[q].model]
      BY <3>1 DEF Fits, MyFile
    <3> QED
      BY <1>2, <1>3, <3>1, <3>2
  <2>2. CASE q = p /\ files[g].dim = None
    BY <1>2, <1>3, <2>2 DEF g
  <2>3. CASE q = p /\ files[g].dim # None
    <3>1. files[g].model = None /\ g \notin disturbed /\ ~ Races(p)
      BY <1>1, <1>2, <1>3, <1>5, <2>3 DEF g
    <3>2. PICK r \in Procs : Past(r) /\ proc[r].file = g
      BY <1>1, <2>3, <3>1 DEF Fits
    <3>3. proc[r].model = proc[p].model
      BY <1>1, <3>1, <3>2 DEF Races, MyFile, g
    <3>4. files[g].dim = DimOf[proc[r].model]
      BY <3>1, <3>2 DEF Fits, MyFile
    <3> QED
      BY <1>1, <1>2, <1>3, <2>3, <3>3, <3>4 DEF g
  <2> QED
    BY <2>1, <2>2, <2>3
<1>6. ASSUME NEW f \in FileIds \ disturbed', files'[f].dim # None, files'[f].model = None
      PROVE  \E q \in Procs : Past(q)' /\ proc'[q].file = f
  <2>1. CASE f = g
    BY <1>2, <2>1 DEF g
  <2>2. CASE f # g
    <3>1. PICK q \in Procs : Past(q) /\ proc[q].file = f
      BY <1>3, <1>6, <2>2 DEF Fits
    <3> QED
      BY <1>1, <1>2, <3>1
  <2> QED
    BY <2>1, <2>2
<1>7. \A f \in FileIds : files'[f].vault # None => files'[f].model # None
  BY <1>3 DEF Fits
<1> QED
  BY <1>4, <1>5, <1>6, <1>7 DEF Fits, MyFile

\* What is committed is the model for which the table was made.
LEMMA CommitFits ==
  ASSUME Inv, Fits, NEW p \in Procs, Commit(p)
  PROVE  Fits'
<1> DEFINE g == proc[p].file
<1>1. /\ Past(p) /\ g \in FileIds /\ files[g] \in Files
      /\ proc[p] # Closed /\ proc[p] \in Busy /\ proc[p].model # None
  BY PastState DEF Commit, At, Past, Opening, Inv, TypeOK
<1>2. /\ Stamped(p).dim = files[g].dim /\ Stamped(p).model = proc[p].model
      /\ files[g].model = None \/ files[g].model = proc[p].model
  BY <1>1 DEF Stamped, MyFile, Inv, Checked, Pending, Commit, At, Files, Busy
<1>3. \A f \in FileIds : files'[f] = IF f = g THEN Stamped(p) ELSE files[f]
  BY <1>1 DEF Commit, Inv, TypeOK
<1>4. /\ disturbed' = disturbed /\ ~ Past(p)'
      /\ \A q \in Procs \ {p} : proc'[q] = proc[q] /\ (Past(q)' <=> Past(q))
  BY <1>1 DEF Commit, Inv, TypeOK, Past, Opening, Busy
<1>5. g \notin disturbed => files[g].dim = DimOf[proc[p].model]
  BY <1>1, <1>2 DEF Fits, TableFits, MyFile
<1> HIDE DEF g
<1>6. TableFits'
  BY <1>1, <1>2, <1>3, <1>4, <1>5 DEF Fits, TableFits
<1>7. ASSUME NEW q \in Procs, Past(q)', files'[proc'[q].file].model = None,
             proc'[q].file \notin disturbed'
      PROVE  files'[proc'[q].file].dim = DimOf[proc'[q].model]
  <2>1. q # p /\ proc'[q] = proc[q] /\ Past(q) /\ proc[q].file \in FileIds
    BY <1>4, <1>7, PastState
  <2> QED
    BY <1>1, <1>2, <1>3, <1>4, <1>7, <2>1 DEF Fits, MyFile
<1>8. ASSUME NEW f \in FileIds \ disturbed', files'[f].dim # None, files'[f].model = None
      PROVE  \E q \in Procs : Past(q)' /\ proc'[q].file = f
  <2>1. f # g /\ files[f].dim # None /\ files[f].model = None
    BY <1>1, <1>2, <1>3, <1>8
  <2>2. PICK q \in Procs : Past(q) /\ proc[q].file = f
    BY <1>4, <2>1 DEF Fits
  <2> QED
    BY <1>4, <2>1, <2>2 DEF g
<1>9. \A f \in FileIds : files'[f].vault # None => files'[f].model # None
  BY <1>1, <1>2, <1>3 DEF Fits
<1> QED
  BY <1>6, <1>7, <1>8, <1>9 DEF Fits, MyFile

LEMMA WriteFits ==
  ASSUME Inv, Fits, NEW p \in Procs, Write(p)
  PROVE  Fits'
<1>1. \A f \in FileIds : /\ files'[f].model = files[f].model
                         /\ files'[f].vault = files[f].vault /\ files'[f].dim = files[f].dim
  BY DEF Write, Inv, TypeOK, Files
<1>2. proc' = proc /\ disturbed' = disturbed
  BY DEF Write
<1>3. \A q \in Procs : Past(q) => proc[q].file \in FileIds
  BY PastState
<1> QED
  BY <1>1, <1>2, <1>3 DEF Fits, TableFits, MyFile, Past

LEMMA FitsStep == Inv /\ Fits /\ [Next]_vars => Fits'
<1> SUFFICES ASSUME Inv, Fits, [Next]_vars PROVE Fits'
  OBVIOUS
<1>1. CASE UNCHANGED vars
  BY <1>1, QuietStep DEF vars, Past
<1>2. ASSUME NEW p \in Procs, NEW m \in Models, NEW v \in Vaults,
             Call(p, m, v) \/ ForceReset(p, m, v)
      PROVE  Fits'
  <2>1. Called(m, v).pc = "connect" /\ proc' = [proc EXCEPT ![p] = Called(m, v)]
        /\ At(p, "closed")
    BY <1>2 DEF Call, ForceReset, Called
  <2>2. /\ ~ Past(p) /\ ~ Past(p)'
        /\ \A q \in Procs \ {p} : proc'[q] = proc[q] /\ (Past(q)' <=> Past(q))
    BY <2>1 DEF Inv, TypeOK, Past, At, Opening
  <2> QED
    BY <1>2, <2>2, QuietStep DEF Call, ForceReset
<1>3. ASSUME NEW p \in Procs, Connect(p)
      PROVE  Fits'
  <2>1. PICK f \in FileIds : proc' = [proc EXCEPT ![p].pc = "create", ![p].file = f]
    BY <1>3 DEF Connect, Unused, Inv, TypeOK
  <2>2. At(p, "connect") /\ proc[p] \in Busy
    BY <1>3, BusyState DEF Connect, At, Closed, Inv
  <2>3. /\ ~ Past(p) /\ ~ Past(p)'
        /\ \A q \in Procs \ {p} : proc'[q] = proc[q] /\ (Past(q)' <=> Past(q))
    BY <2>1, <2>2 DEF Inv, TypeOK, Past, At, Opening, Busy
  <2> QED
    BY <1>3, <2>3, QuietStep DEF Connect
<1>4. ASSUME NEW p \in Procs, ReadModel(p) \/ ReadVault(p) \/ StampModel(p) \/ StampVault(p)
      PROVE  Fits'
  <2>1. Past(p) /\ proc[p] \in Busy
    BY <1>4, PastState
       DEF ReadModel, ReadVault, StampModel, StampVault, At, Past, Opening
  <2>2. /\ UNCHANGED <<files, disturbed>>
        /\ proc'[p].pc \in {"stamp_model", "read_vault", "stamp_vault", "commit"}
        /\ proc'[p].file = proc[p].file /\ proc'[p].model = proc[p].model
        /\ \A q \in Procs \ {p} : proc'[q] = proc[q]
    <3>1. CASE ReadModel(p) \/ ReadVault(p)
      BY <2>1, <3>1 DEF ReadModel, ReadVault, Goto, Inv, TypeOK, Busy
    <3>2. CASE StampModel(p) \/ StampVault(p)
      BY <2>1, <3>2 DEF StampModel, StampVault, Insert, Inv, TypeOK, Busy
    <3> QED
      BY <1>4, <3>1, <3>2
  <2>3. /\ Past(p)' /\ proc'[p].file = proc[p].file /\ proc'[p].model = proc[p].model
        /\ \A q \in Procs \ {p} : Past(q)' <=> Past(q)
    BY <2>1, <2>2 DEF Busy, Past, Opening
  <2> QED
    BY <2>1, <2>2, <2>3, QuietStep
<1>5. ASSUME NEW p \in Procs, Close(p)
      PROVE  Fits'
  <2>1. /\ ~ Past(p) /\ ~ Past(p)'
        /\ \A q \in Procs \ {p} : proc'[q] = proc[q] /\ (Past(q)' <=> Past(q))
    BY <1>5 DEF Close, At, Inv, TypeOK, Past, Opening, Closed
  <2> QED
    BY <1>5, <2>1, QuietStep DEF Close
<1> QED
  BY <1>1, <1>2, <1>3, <1>4, <1>5, EndFits, CreateFits, CommitFits, WriteFits DEF Next

\* The table of a store holds the vectors of the model that is recorded for it,
\* unless the history calls its opening disturbed: the two cases in which CREATE
\* and commit are not one, a cut and a race, are the only ones.
THEOREM TablesFit == Spec => []TableFits
<1>1. Fits => TableFits
  BY DEF Fits
<1> QED
  BY <1>1, InitFits, FitsStep, Invariance, PTL DEF Spec
=============================================================================
