------------------------------ MODULE FilesProofs ------------------------------
(* Theorems of Files for any number of requests, contents, attempts and      *)
(* faults.                                                                   *)
EXTENDS Files, FiniteSetTheorems, TLAPS

----------------------------------------------------------------------------
(* The inductive invariant                                                   *)

Reserves(i) == upload[i].kind \in {"snapshot", "copy"}

\* The transaction of the request has committed; its row can exist.
Settled(i) == upload[i].state \in {"consumed", "made"} /\ ~Running(i)

\* What a request is for, and the File it is on.
RequestKnown(i) ==
    /\ upload[i].state = "none" => FileOf(i) = None /\ ~Running(i) /\ sent[i] = None
    /\ upload[i].state # "none" => FileOf(i) \in Id
    /\ upload[i].state \in {"pending", "consumed", "swept"} => Client(i) \/ Reserves(i)
    /\ upload[i].state \in {"open", "made"} =>
          /\ upload[i].kind \in {"edit", "write", "restore"}
          /\ FileOf(i) # i
    /\ upload[i].state # "none" /\ FileOf(i) # i => upload[FileOf(i)].state = "consumed"
    /\ upload[i].state # "none" /\ Reserves(i) => FileOf(i) = i

\* What a transaction knows of its request and has read.
TransactionKnown(i) ==
    /\ tx[i].pc \in {"checked", "promoted", "dropped", "deduplicated"} =>
          Client(i) /\ upload[i].state = "pending"
    /\ tx[i].pc \in {"locked", "stored"} =>
          \/ Reserves(i) /\ upload[i].state = "pending" /\ tx[i].new
          \/ Edits(i) /\ upload[i].state = "made" /\ ~tx[i].new
    /\ tx[i].pc = "deduplicated" => ~tx[i].new
    /\ Running(i) => tx[i].hash # None
    /\ Running(i) /\ tx[i].new => tx[i].current = None /\ tx[i].count = 0
    /\ Running(i) /\ upload[i].kind = "edit" => tx[i].current = upload[i].base

\* The bytes of a transaction are where its step says.
BytesOfTransaction(i) ==
    /\ tx[i].pc = "checked" => stage[i] = tx[i].hash
    /\ tx[i].pc \in {"promoted", "dropped", "stored"} => final[i] = tx[i].hash

\* The locked File is as it was read.
LockKept(i) ==
    LocksFile(i) =>
        /\ Live(FileOf(i)) /\ FileOf(i) \notin purging
        /\ file[FileOf(i)].current = tx[i].current
        /\ file[FileOf(i)].count = tx[i].count

Inserts(i) == tx[i].new /\ tx[i].pc = "dropped"

LocksKept ==
    /\ \A i \in Id : LockKept(i)
    /\ \A i, j \in Id : LocksFile(i) /\ LocksFile(j) /\ FileOf(i) = FileOf(j) => i = j
    /\ \A i \in Id : Inserts(i) => file[FileOf(i)].state = "absent"
    /\ \A i, j \in Id : Inserts(i) /\ Inserts(j) /\ FileOf(i) = FileOf(j) => i = j

\* A File row and its revisions go together, and follow the request that
\* made the File.
FileKnown(f) ==
    /\ file[f].state = "absent" => file[f] = NoFile /\ f \notin purged /\ RevisionsOf(f) = {}
    /\ file[f].state # "absent" =>
          /\ upload[f].state = "consumed"
          /\ file[f].current \in RevisionsOf(f)
          /\ file[f].status # "none"
    /\ f \in purging => f \in purged

\* A revision's object, source and Markdown are of revisions of its File.
RevisionKnown(i) ==
    Row(i) =>
        /\ Settled(i)
        /\ rev[i].key \in RevisionsOf(FileOf(i))
        /\ rev[rev[i].key].key = rev[i].key
        /\ rev[rev[i].key].hash = rev[i].hash
        /\ rev[i].source # None => rev[i].source \in RevisionsOf(FileOf(i))
        /\ rev[i].md # None =>
              /\ job[rev[i].md].state = "done"
              /\ FileOf(rev[i].md) = FileOf(i)

Extracting(i) == job[i].state \in {"reading", "working", "written"}

\* An attempt knows whether its revision is the current one, unless the File
\* was replaced meanwhile.
JobKnown(i) ==
    /\ ~Settled(i) => job[i] = NoJob
    /\ Extracting(i) => job[i].tries > 0
    /\ job[i].state = "queued" => job[i].tries < MaxAttempts
    /\ job[i].state = "written" => i \in markdown
    /\ Extracting(i) /\ job[i].mine /\ FileOf(i) \notin overtaken
          /\ file[FileOf(i)].state # "absent" => file[FileOf(i)].current = i
    /\ Extracting(i) /\ file[FileOf(i)].current = i => job[i].mine

\* The bytes a pending grant received first are a revision of the File.
SavedAlready(i) == \E j \in RevisionsOf(FileOf(i)) : rev[j].hash = sent[i]

Waits(i) ==
    /\ Client(i) /\ upload[i].state = "pending"
    /\ ~upload[i].expired
    /\ sent[i] # None /\ FileOf(i) \notin purged

\* They do not depend on the temporary object once they were promoted.
BytesWait(i) ==
    Waits(i) =>
        /\ sent[i] \in {stage[i], final[i]} \/ SavedAlready(i)
        /\ tx[i].pc \in {"promoted", "dropped"} => sent[i] = final[i] \/ SavedAlready(i)

Requests == \A i \in Id : RequestKnown(i)
Transactions == \A i \in Id : TransactionKnown(i)
TransactionBytes == \A i \in Id : BytesOfTransaction(i)
FilesKnown == \A f \in Id : FileKnown(f)
RevisionsKnown == \A i \in Id : RevisionKnown(i)
JobsKnown == \A i \in Id : JobKnown(i)
Recoverable == \A i \in Id : BytesWait(i)

IInv ==
    /\ TypeOK
    /\ Requests /\ Transactions /\ TransactionBytes /\ LocksKept
    /\ FilesKnown /\ OneChain /\ RevisionsKnown /\ BytesBehindRevisions
    /\ JobsKnown /\ StatusTold
    /\ Recoverable

----------------------------------------------------------------------------
(* Steps that leave the rows alone                                          *)

\* What every step keeps of every request.
Continues ==
    \A j \in Id :
        /\ upload'[j].kind = upload[j].kind
        /\ upload[j].state # "none" =>
              /\ upload'[j].state # "none"
              /\ FileOf(j)' = FileOf(j)
              /\ upload'[j].base = upload[j].base
        /\ upload[j].state = "consumed" => upload'[j].state = "consumed"
        /\ Settled(j) => Settled(j)'

\* A committed revision belongs to a File whose row exists.
LEMMA RowHasFile ==
    ASSUME IInv, NEW i \in Id, Row(i)
    PROVE  /\ upload[i].state # "none" /\ FileOf(i) \in Id /\ Settled(i)
           /\ i \in RevisionsOf(FileOf(i))
           /\ file[FileOf(i)].state # "absent"
<1>1. Settled(i)
  BY DEF IInv, RevisionsKnown, RevisionKnown
<1>2. upload[i].state # "none" /\ FileOf(i) \in Id
  BY <1>1 DEF IInv, Requests, RequestKnown, Settled
<1>3. i \in RevisionsOf(FileOf(i))
  BY DEF RevisionsOf
<1>4. file[FileOf(i)].state # "absent"
  BY <1>2, <1>3 DEF IInv, FilesKnown, FileKnown
<1>5. QED
  BY <1>1, <1>2, <1>3, <1>4

\* Where the rows stay, so do the revisions of every File.
LEMMA RevisionsSame ==
    ASSUME IInv, Continues, UNCHANGED rev
    PROVE  /\ \A j \in Id : Row(j)' = Row(j)
           /\ \A j \in Id : Row(j) => FileOf(j)' = FileOf(j)
           /\ \A f : RevisionsOf(f)' = RevisionsOf(f)
<1>1. \A j \in Id : Row(j)' = Row(j)
  BY DEF Row
<1>2. \A j \in Id : Row(j) => FileOf(j)' = FileOf(j)
  BY RowHasFile DEF Continues
<1>3. QED
  BY <1>1, <1>2 DEF RevisionsOf

\* A step that touches no row, and no object behind a row, keeps all that is
\* known of the rows.
LEMMA RowsKept ==
    ASSUME IInv, Continues, UNCHANGED <<rev, file, markdown, purging, purged, job, overtaken>>,
           \A j \in Id : Row(j) => final'[j] = final[j]
    PROVE  /\ FilesKnown' /\ OneChain' /\ RevisionsKnown' /\ BytesBehindRevisions'
           /\ JobsKnown' /\ StatusTold'
<1>1. /\ \A j \in Id : Row(j)' = Row(j)
      /\ \A j \in Id : Row(j) => FileOf(j)' = FileOf(j)
      /\ \A f : RevisionsOf(f)' = RevisionsOf(f)
  BY RevisionsSame
<1>2. FilesKnown'
  BY <1>1 DEF IInv, FilesKnown, FileKnown, Continues
<1>3. OneChain'
  <2> SUFFICES ASSUME NEW f \in Id, file[f].state # "absent"
               PROVE  Chained(f)'
    BY DEF OneChain
  <2>1. Chained(f)
    BY DEF IInv, OneChain
  <2>2. file[f].current \in Id /\ \A j \in RevisionsOf(f) : j \in Id /\ Row(j)
    BY DEF IInv, FilesKnown, FileKnown, RevisionsOf
  <2>3. \A j \in RevisionsOf(f) :
           upload'[j].kind = upload[j].kind /\ upload'[j].base = upload[j].base
    BY <2>2, RowHasFile DEF Continues
  <2>4. QED
    BY <1>1, <2>1, <2>2, <2>3 DEF Chained
<1>4. RevisionsKnown'
  <2> SUFFICES ASSUME NEW j \in Id, Row(j)
               PROVE  RevisionKnown(j)'
    BY <1>1 DEF RevisionsKnown, RevisionKnown
  <2>1. RevisionKnown(j) /\ Settled(j)' /\ FileOf(j)' = FileOf(j)
    BY <1>1, RowHasFile DEF IInv, RevisionsKnown, Continues
  <2>2. rev[j].md # None => /\ job[rev[j].md].state = "done"
                            /\ FileOf(rev[j].md)' = FileOf(j)
    <3> SUFFICES ASSUME rev[j].md # None PROVE FileOf(rev[j].md)' = FileOf(j)
      BY <2>1 DEF RevisionKnown
    <3>1. rev[j].md \in Id
      BY DEF IInv, TypeOK, Revision
    <3>2. Settled(rev[j].md)
      BY <2>1, <3>1 DEF RevisionKnown, IInv, JobsKnown, JobKnown, NoJob
    <3>3. QED
      BY <2>1, <3>1, <3>2 DEF RevisionKnown, Settled, Continues
  <2>3. QED
    BY <1>1, <2>1, <2>2 DEF RevisionKnown
<1>5. BytesBehindRevisions'
  BY <1>1, RowHasFile DEF IInv, BytesBehindRevisions, RevisionsKnown, RevisionKnown, RevisionsOf
<1>6. JobsKnown'
  BY <1>1 DEF IInv, JobsKnown, JobKnown, Continues, Settled, NoJob, Extracting
<1>7. StatusTold'
  <2> SUFFICES ASSUME NEW f \in Id, Live(f), f \notin overtaken
               PROVE  Told(f)'
    BY DEF StatusTold, Live
  <2>1. Told(f) /\ file[f].current \in RevisionsOf(f)
    BY DEF IInv, StatusTold, FilesKnown, FileKnown, Live
  <2>2. Ingests(file[f].current)' = Ingests(file[f].current)
    BY <1>1, <2>1, RowHasFile DEF Ingests, IsDocument, RevisionsOf, Continues
  <2>3. QED
    BY <2>1, <2>2 DEF Told
<1>8. QED
  BY <1>2, <1>3, <1>4, <1>5, <1>6, <1>7

Pcs == {"idle", "over", "checked", "promoted", "dropped", "deduplicated", "locked", "stored"}

\* No transaction.
LEMMA IdleTyped == Idle \in Transaction
<1>1. Cardinality(Id) \in Nat
  BY FS_CardinalityType, FilesAssumption
<1>2. QED
  BY <1>1 DEF Idle, Transaction, Count, Hash

\* What a transaction reads of a File is of its type.
LEMMA ReadsTyped ==
    ASSUME TypeOK, NEW f \in Id
    PROVE  /\ Reads(f) \in Transaction
           /\ \A p \in Pcs, h \in Hash :
                 [Reads(f) EXCEPT !.pc = p, !.hash = h] \in Transaction
<1>1. file[f] \in FileRecord
  BY DEF TypeOK
<1>2. Reads(f) \in Transaction
  BY <1>1, IdleTyped DEF Reads, Transaction, FileRecord
<1>3. QED
  BY <1>2 DEF Transaction, Pcs

\* Every request that was made is about a File.
LEMMA FileTyped ==
    ASSUME IInv, NEW i \in Id, upload[i].state # "none"
    PROVE  FileOf(i) \in Id
BY DEF IInv, Requests, RequestKnown

\* A grant adds a pending request and no more (create_file_upload).
LEMMA GrantUploadKeeps ==
    ASSUME IInv, NEW i \in Id, NEW f \in Id, GrantUpload(i, f)
    PROVE  IInv'
<1>1. TypeOK'
  <2>1. upload[i] \in UploadRecord
    BY DEF IInv, TypeOK
  <2>2. [upload[i] EXCEPT !.state = "pending", !.file = f] \in UploadRecord
    BY <2>1 DEF UploadRecord
  <2>3. QED
    BY <2>1, <2>2, FilesAssumption DEF IInv, TypeOK, GrantUpload, Hash, objects, history
<1>2. Requests'
  BY FilesAssumption DEF IInv, GrantUpload, Comes, Client, Live, objects, history, Running,
     FileOf, Requests, RequestKnown, Reserves, TypeOK, UploadRecord, Revision, FileRecord,
     Transaction, Job, Hash, Count, FilesKnown, FileKnown
<1>3. Transactions'
  BY FilesAssumption DEF IInv, GrantUpload, Comes, Client, Edits, Live, objects, history,
     Running, FileOf, Transactions, TransactionKnown, Requests, RequestKnown, Reserves, TypeOK,
     UploadRecord, Revision, FileRecord, Transaction, Job
<1>4. TransactionBytes'
  BY FilesAssumption DEF IInv, GrantUpload, Comes, Client, Edits, Live, objects, history,
     Running, FileOf, TransactionBytes, BytesOfTransaction, Transactions, TransactionKnown,
     Requests, RequestKnown
<1>5. LocksKept'
  BY FilesAssumption DEF IInv, GrantUpload, Comes, Client, Edits, Live, objects, history,
     Running, FileOf, LocksFile, LocksKept, LockKept, Inserts, Transactions, TransactionKnown,
     Requests, RequestKnown, TypeOK, UploadRecord, Revision, FileRecord, Transaction, Job
<1>6. Recoverable'
  BY FilesAssumption DEF IInv, GrantUpload, Comes, Client, Edits, Live, objects, history,
     Running, FileOf, Recoverable, BytesWait, Waits, SavedAlready, Transactions,
     TransactionKnown, TransactionBytes, BytesOfTransaction, Requests, RequestKnown,
     RevisionsOf, Row
<1>7. Continues
  BY FilesAssumption DEF IInv, GrantUpload, Comes, Client, Running, FileOf, Continues, Settled,
     Requests, RequestKnown, Transactions, TransactionKnown
<1>8. \A j \in Id : Row(j) => final'[j] = final[j]
  BY RowHasFile DEF IInv, GrantUpload, Comes, objects
<1>9. UNCHANGED <<rev, file, markdown, purging, purged, job, overtaken>>
  BY DEF GrantUpload, objects, history
<1>10. QED
  BY <1>1, <1>2, <1>3, <1>4, <1>5, <1>6, <1>7, <1>8, <1>9, RowsKept DEF IInv

\* The signed URL creates a temporary object where there is none.
LEMMA UploadKeeps ==
    ASSUME IInv, NEW i \in Id, NEW c \in Content, Upload(i, c)
    PROVE  IInv'
<1>1. TypeOK'
  <2>1. QED
    BY FilesAssumption DEF IInv, TypeOK, Upload, Hash
<1>2. Requests'
  BY FilesAssumption DEF IInv, Upload, Client, Running, FileOf, Requests, RequestKnown,
     Reserves, TypeOK, UploadRecord
<1>3. Transactions'
  BY FilesAssumption DEF IInv, Upload, Client, Edits, Running, FileOf, Transactions,
     TransactionKnown, Requests, RequestKnown, Reserves, TypeOK
<1>4. TransactionBytes'
  BY FilesAssumption DEF IInv, Upload, Client, Edits, Running, FileOf, TransactionBytes,
     BytesOfTransaction, Transactions, TransactionKnown, Requests, RequestKnown
<1>5. LocksKept'
  BY FilesAssumption DEF IInv, Upload, Client, Edits, Live, Running, FileOf, LocksFile,
     LocksKept, LockKept, Inserts, Transactions, TransactionKnown, Requests
<1>6. Recoverable'
  BY FilesAssumption DEF IInv, Upload, Client, Edits, Running, FileOf, Recoverable, BytesWait,
     Waits, SavedAlready, Transactions, TransactionKnown, TransactionBytes, BytesOfTransaction,
     Requests, RequestKnown, RevisionsOf, Row, FilesKnown, FileKnown, RevisionsKnown,
     RevisionKnown, Settled, TypeOK, UploadRecord, Revision, FileRecord, Transaction, Job, Hash
<1>7. Continues
  BY FilesAssumption DEF IInv, Upload, Client, Edits, Running, FileOf, Continues, Settled,
     Requests, RequestKnown, Transactions, TransactionKnown
<1>8. \A j \in Id : Row(j) => final'[j] = final[j]
  BY RowHasFile DEF IInv, Upload, Client, Edits, Running
<1>9. UNCHANGED <<rev, file, markdown, purging, purged, job, overtaken>>
  BY DEF Upload
<1>10. QED
  BY <1>1, <1>2, <1>3, <1>4, <1>5, <1>6, <1>7, <1>8, <1>9, RowsKept DEF IInv

\* A grant expires; its bytes are promised no longer.
LEMMA ExpireKeeps ==
    ASSUME IInv, NEW i \in Id, Expire(i)
    PROVE  IInv'
<1>1. TypeOK'
  <2>1. upload[i] \in UploadRecord
    BY DEF IInv, TypeOK
  <2>2. [upload[i] EXCEPT !.expired = TRUE] \in UploadRecord
    BY <2>1 DEF UploadRecord
  <2>3. QED
    BY <2>1, <2>2, FilesAssumption DEF IInv, TypeOK, Expire, Hash, objects, history
<1>2. Requests'
  BY FilesAssumption DEF IInv, Expire, Client, objects, history, Running, FileOf, Requests,
     RequestKnown, Reserves, TypeOK, UploadRecord
<1>3. Transactions'
  BY FilesAssumption DEF IInv, Expire, Client, Edits, objects, history, Running, FileOf,
     Transactions, TransactionKnown, Requests, RequestKnown, Reserves, TypeOK
<1>4. TransactionBytes'
  BY FilesAssumption DEF IInv, Expire, Client, Edits, objects, history, Running, FileOf,
     TransactionBytes, BytesOfTransaction, Transactions, TransactionKnown, Requests,
     RequestKnown
<1>5. LocksKept'
  BY FilesAssumption DEF IInv, Expire, Client, Edits, Live, objects, history, Running, FileOf,
     LocksFile, LocksKept, LockKept, Inserts, Transactions, TransactionKnown, Requests
<1>6. Recoverable'
  BY FilesAssumption DEF IInv, Expire, Client, Edits, objects, history, Running, FileOf,
     Recoverable, BytesWait, Waits, SavedAlready, Transactions, TransactionKnown,
     TransactionBytes, BytesOfTransaction, Requests, RequestKnown, RevisionsOf, Row, FilesKnown,
     FileKnown
<1>7. Continues
  BY FilesAssumption DEF IInv, Expire, Client, Edits, objects, history, Running, FileOf,
     Continues, Settled, Requests, RequestKnown, Transactions, TransactionKnown
<1>8. \A j \in Id : Row(j) => final'[j] = final[j]
  BY RowHasFile DEF IInv, Expire, Client, Edits, objects, history
<1>9. UNCHANGED <<rev, file, markdown, purging, purged, job, overtaken>>
  BY DEF Expire, objects, history
<1>10. QED
  BY <1>1, <1>2, <1>3, <1>4, <1>5, <1>6, <1>7, <1>8, <1>9, RowsKept DEF IInv

\* A confirmation locks its rows and hashes the bytes where they are
\* (confirm_upload).
LEMMA BeginConfirmKeeps ==
    ASSUME IInv, NEW i \in Id, BeginConfirm(i)
    PROVE  IInv'
<1>a. /\ FileOf(i) \in Id /\ Client(i) /\ upload[i].state = "pending" /\ tx[i].pc = "idle"
      /\ file[FileOf(i)].state # "deleted" /\ Unlocked(FileOf(i))
      /\ UNCHANGED <<upload, rev, file, stage, final, markdown, purging, sent, purged>>
  BY FileTyped DEF BeginConfirm, MayConfirm, objects, history
<1>b. PICK p \in {"checked", "promoted"}, h \in Content :
          /\ tx' = [tx EXCEPT ![i] = [Reads(FileOf(i)) EXCEPT !.pc = p, !.hash = h]]
          /\ p = "checked" => h = stage[i]
          /\ p = "promoted" => h = final[i] /\ stage[i] = None
  BY DEF BeginConfirm, IInv, TypeOK, Hash
<1>c. tx'[i] = [pc |-> p, hash |-> h, new |-> (file[FileOf(i)].state = "absent"),
                current |-> file[FileOf(i)].current, count |-> file[FileOf(i)].count]
  BY <1>b DEF Reads, Idle, IInv, TypeOK
<1>0. /\ tx'[i].pc = p /\ tx'[i].hash = h /\ h # None
      /\ tx'[i].new <=> (file[FileOf(i)].state = "absent")
      /\ tx'[i].current = file[FileOf(i)].current /\ tx'[i].count = file[FileOf(i)].count
      /\ \A j \in Id \ {i} : tx'[j] = tx[j]
  BY <1>b, <1>c, FilesAssumption DEF IInv, TypeOK
<1>1. TypeOK'
  <2>1. [Reads(FileOf(i)) EXCEPT !.pc = "checked", !.hash = stage[i]] \in Transaction
    BY ReadsTyped, FileTyped DEF IInv, TypeOK, BeginConfirm, MayConfirm, Hash, Pcs
  <2>2. [Reads(FileOf(i)) EXCEPT !.pc = "promoted", !.hash = final[i]] \in Transaction
    BY ReadsTyped, FileTyped DEF IInv, TypeOK, BeginConfirm, MayConfirm, Hash, Pcs
  <2>3. QED
    BY <2>1, <2>2, FilesAssumption DEF IInv, TypeOK, BeginConfirm, Hash, objects, history
<1>2. Requests'
  BY <1>a, <1>b, <1>0, FilesAssumption DEF IInv, Client, Unlocked, Running, FileOf, LocksFile,
     Requests, RequestKnown, Reserves, TypeOK
<1>3. Transactions'
  BY <1>a, <1>b, <1>0, FilesAssumption DEF IInv, Client, Unlocked, Running, FileOf, LocksFile,
     Transactions, TransactionKnown, Requests, RequestKnown, Reserves, FilesKnown, FileKnown,
     NoFile, Edits, TypeOK, UploadRecord, Revision, FileRecord, Transaction, Job
<1>4. TransactionBytes'
  BY <1>a, <1>b, <1>0, FilesAssumption DEF IInv, Client, Unlocked, Running, FileOf, LocksFile,
     TransactionBytes, BytesOfTransaction, Transactions, TransactionKnown, Requests,
     RequestKnown
<1>5. LocksKept'
  BY <1>a, <1>b, <1>0, FilesAssumption DEF IInv, Client, Live, Unlocked, Running, FileOf,
     LocksFile, LocksKept, LockKept, Inserts, Transactions, TransactionKnown, Requests,
     RequestKnown, TypeOK, UploadRecord, Revision, FileRecord, Transaction, Job, Hash
<1>6. Recoverable'
  BY <1>a, <1>b, <1>0, FilesAssumption DEF IInv, Client, Unlocked, Running, FileOf, LocksFile,
     Recoverable, BytesWait, Waits, SavedAlready, Transactions, TransactionKnown,
     TransactionBytes, BytesOfTransaction, Requests, RequestKnown, RevisionsOf, Row, FilesKnown,
     FileKnown
<1>7. Continues
  BY <1>a, <1>b, <1>0, FilesAssumption DEF Running, FileOf, LocksFile, Continues, Settled,
     Requests, RequestKnown, Transactions, TransactionKnown
<1>8. \A j \in Id : Row(j) => final'[j] = final[j]
  BY RowHasFile DEF IInv, BeginConfirm, Client, MayConfirm, objects, history, Running, FileOf,
     LocksFile, Settled, Transactions, TransactionKnown
<1>9. UNCHANGED <<rev, file, markdown, purging, purged, job, overtaken>>
  BY DEF BeginConfirm, objects, history
<1>10. QED
  BY <1>1, <1>2, <1>3, <1>4, <1>5, <1>6, <1>7, <1>8, <1>9, RowsKept DEF IInv

\* The temporary object is deleted, and the current revision has its bytes.
LEMMA DeduplicateKeeps ==
    ASSUME IInv, NEW i \in Id, Deduplicate(i)
    PROVE  IInv'
<1>1. TypeOK'
  <2>1. [tx[i] EXCEPT !.pc = "deduplicated"] \in Transaction
    BY DEF IInv, TypeOK, Transaction
  <2>2. QED
    BY <2>1, FilesAssumption DEF IInv, TypeOK, Deduplicate, Hash, history
<1>2. Requests'
  BY FilesAssumption DEF IInv, Deduplicate, Client, SameBytes, history, Running, FileOf,
     Requests, RequestKnown, Reserves, TypeOK, UploadRecord
<1>3. Transactions'
  BY FilesAssumption DEF IInv, Deduplicate, Client, SameBytes, Edits, history, Running, FileOf,
     Transactions, TransactionKnown, Requests, RequestKnown, Reserves, TypeOK
<1>4. TransactionBytes'
  BY FilesAssumption DEF IInv, Deduplicate, Client, SameBytes, Edits, history, Running, FileOf,
     TransactionBytes, BytesOfTransaction, Transactions, TransactionKnown, Requests,
     RequestKnown, TypeOK, UploadRecord, Revision, FileRecord, Transaction, Job, Hash
<1>5. LocksKept'
  BY FilesAssumption DEF IInv, Deduplicate, Client, SameBytes, Edits, Live, history, Running,
     FileOf, LocksFile, LocksKept, LockKept, Inserts, Transactions, TransactionKnown, Requests
<1>6. Recoverable'
  <2>1. /\ tx[i].pc = "checked" /\ SameBytes(i) /\ stage[i] = tx[i].hash
        /\ \A j \in Id \ {i} : stage'[j] = stage[j] /\ tx'[j] = tx[j]
        /\ tx'[i].pc = "deduplicated"
        /\ UNCHANGED <<upload, rev, file, final, sent, purged>>
    BY DEF IInv, TypeOK, Transaction, Deduplicate, TransactionBytes, BytesOfTransaction, history
  <2>2. FileOf(i) \in Id /\ file[FileOf(i)].current \in RevisionsOf(FileOf(i))
    BY <2>1, FileTyped DEF IInv, SameBytes, LocksKept, LockKept, LocksFile, Running, Live,
       FilesKnown, FileKnown, Transactions, TransactionKnown
  <2>3. sent[i] = stage[i] => SavedAlready(i)
    BY <2>1, <2>2 DEF IInv, SameBytes, LocksKept, LockKept, LocksFile, Running, SavedAlready
  <2>4. QED
    BY <2>1, <2>3 DEF IInv, Recoverable, BytesWait, Waits, SavedAlready, RevisionsOf, Row,
       FileOf, Client
<1>7. Continues
  BY FilesAssumption DEF IInv, Deduplicate, Client, SameBytes, Edits, history, Running, FileOf,
     Continues, Settled, Requests, RequestKnown, Transactions, TransactionKnown
<1>8. \A j \in Id : Row(j) => final'[j] = final[j]
  BY RowHasFile DEF IInv, Deduplicate, Client, SameBytes, Edits, history
<1>9. UNCHANGED <<rev, file, markdown, purging, purged, job, overtaken>>
  BY DEF Deduplicate, history
<1>10. QED
  BY <1>1, <1>2, <1>3, <1>4, <1>5, <1>6, <1>7, <1>8, <1>9, RowsKept DEF IInv

\* Create-only promotion: what another revision refers to is not overwritten.
LEMMA PromoteKeeps ==
    ASSUME IInv, NEW i \in Id, Promote(i)
    PROVE  IInv'
<1>1. TypeOK'
  <2>1. [tx[i] EXCEPT !.pc = "promoted"] \in Transaction
    BY DEF IInv, TypeOK, Transaction
  <2>2. tx[i].hash \in Hash
    BY DEF IInv, TypeOK, Transaction
  <2>3. QED
    BY <2>1, <2>2, FilesAssumption DEF IInv, TypeOK, Promote, Hash, history
<1>2. Requests'
  BY FilesAssumption DEF IInv, Promote, Client, SameBytes, history, Running, FileOf, Requests,
     RequestKnown, Reserves, TypeOK, UploadRecord
<1>3. Transactions'
  BY FilesAssumption DEF IInv, Promote, Client, SameBytes, Edits, history, Running, FileOf,
     Transactions, TransactionKnown, Requests, RequestKnown, Reserves, TypeOK
<1>4. TransactionBytes'
  BY FilesAssumption DEF IInv, Promote, Client, SameBytes, Edits, history, Running, FileOf,
     TransactionBytes, BytesOfTransaction, Transactions, TransactionKnown, Requests,
     RequestKnown, TypeOK, UploadRecord, Revision, FileRecord, Transaction, Job, Hash
<1>5. LocksKept'
  BY FilesAssumption DEF IInv, Promote, Client, SameBytes, Edits, Live, history, Running,
     FileOf, LocksFile, LocksKept, LockKept, Inserts, Transactions, TransactionKnown, Requests
<1>6. Recoverable'
  BY FilesAssumption DEF IInv, Promote, Client, SameBytes, Edits, history, Running, FileOf,
     Recoverable, BytesWait, Waits, SavedAlready, Transactions, TransactionKnown,
     TransactionBytes, BytesOfTransaction, Requests, RequestKnown, RevisionsOf, Row, FilesKnown,
     FileKnown, RevisionsKnown, RevisionKnown, Settled, TypeOK, UploadRecord, Revision,
     FileRecord, Transaction, Job, Hash, Count
<1>7. Continues
  BY FilesAssumption DEF IInv, Promote, Client, SameBytes, Edits, history, Running, FileOf,
     Continues, Settled, Requests, RequestKnown, Transactions, TransactionKnown
<1>8. \A j \in Id : Row(j) => final'[j] = final[j]
  BY RowHasFile DEF IInv, Promote, Client, SameBytes, Edits, history, Running, FileOf, Settled,
     Transactions, TransactionKnown, TypeOK
<1>9. UNCHANGED <<rev, file, markdown, purging, purged, job, overtaken>>
  BY DEF Promote, history
<1>10. QED
  BY <1>1, <1>2, <1>3, <1>4, <1>5, <1>6, <1>7, <1>8, <1>9, RowsKept DEF IInv

\* The temporary object goes when the durable one is there.
LEMMA DropStageKeeps ==
    ASSUME IInv, NEW i \in Id, DropStage(i)
    PROVE  IInv'
<1>1. TypeOK'
  <2>1. [tx[i] EXCEPT !.pc = "dropped"] \in Transaction
    BY DEF IInv, TypeOK, Transaction
  <2>2. QED
    BY <2>1, FilesAssumption DEF IInv, TypeOK, DropStage, Hash, Fault, history
<1>2. Requests'
  BY FilesAssumption DEF IInv, DropStage, Client, Fault, Inserting, history, Running, FileOf,
     Requests, RequestKnown, Reserves, TypeOK
<1>3. Transactions'
  BY FilesAssumption DEF IInv, DropStage, Client, Edits, Fault, Inserting, history, Running,
     FileOf, Transactions, TransactionKnown, Requests, RequestKnown, Reserves
<1>4. TransactionBytes'
  BY FilesAssumption DEF IInv, DropStage, Client, Edits, Fault, Inserting, history, Running,
     FileOf, TransactionBytes, BytesOfTransaction, Transactions, TransactionKnown, Requests,
     RequestKnown, TypeOK, UploadRecord, Revision, FileRecord, Transaction, Job
<1>5. LocksKept'
  BY FilesAssumption DEF IInv, DropStage, Client, Edits, Fault, Inserting, Live, history,
     Running, FileOf, LocksFile, LocksKept, LockKept, Inserts, Transactions, TransactionKnown
<1>6. Recoverable'
  BY FilesAssumption DEF IInv, DropStage, Client, Edits, Fault, Inserting, history, Running,
     FileOf, Recoverable, BytesWait, Waits, SavedAlready, Transactions, TransactionKnown,
     TransactionBytes, BytesOfTransaction, Requests, RequestKnown, RevisionsOf, Row, FilesKnown,
     FileKnown, RevisionsKnown, RevisionKnown, Settled, TypeOK, UploadRecord, Revision,
     FileRecord, Transaction, Job, Hash
<1>7. Continues
  BY FilesAssumption DEF IInv, DropStage, Client, Edits, Fault, Inserting, history, Running,
     FileOf, Continues, Settled, Requests, RequestKnown, Transactions
<1>8. \A j \in Id : Row(j) => final'[j] = final[j]
  BY RowHasFile DEF IInv, DropStage, Client, Edits, Fault, Inserting
<1>9. UNCHANGED <<rev, file, markdown, purging, purged, job, overtaken>>
  BY DEF DropStage, history
<1>10. QED
  BY <1>1, <1>2, <1>3, <1>4, <1>5, <1>6, <1>7, <1>8, <1>9, RowsKept DEF IInv

\* A refused confirmation leaves rows and objects alone.
LEMMA RefuseKeeps ==
    ASSUME IInv, NEW i \in Id, Refuse(i)
    PROVE  IInv'
<1>1. TypeOK'
  <2>1. Idle \in Transaction
    BY IdleTyped DEF Transaction, Hash
  <2>2. QED
    BY <2>1, FilesAssumption DEF IInv, TypeOK, Refuse, Hash, objects, history
<1>2. Requests'
  BY FilesAssumption DEF IInv, Refuse, Client, SameBytes, Refused, Idle, objects, history,
     Running, FileOf, Requests, RequestKnown, Reserves, TypeOK
<1>3. Transactions'
  BY FilesAssumption DEF IInv, Refuse, Client, SameBytes, Refused, Edits, Idle, objects,
     history, Running, FileOf, Transactions, TransactionKnown, Requests, RequestKnown, Reserves
<1>4. TransactionBytes'
  BY FilesAssumption DEF IInv, Refuse, Client, SameBytes, Refused, Edits, Idle, objects,
     history, Running, FileOf, TransactionBytes, BytesOfTransaction, Transactions,
     TransactionKnown, Requests
<1>5. LocksKept'
  BY FilesAssumption DEF IInv, Refuse, Client, SameBytes, Refused, Edits, Live, Idle, objects,
     history, Running, FileOf, LocksFile, LocksKept, LockKept, Inserts, Transactions,
     TransactionKnown
<1>6. Recoverable'
  BY FilesAssumption DEF IInv, Refuse, Client, SameBytes, Refused, Edits, Idle, objects,
     history, Running, FileOf, Recoverable, BytesWait, Waits, SavedAlready, Transactions,
     TransactionKnown, TransactionBytes, BytesOfTransaction, Requests, RequestKnown,
     RevisionsOf, Row, FilesKnown
<1>7. Continues
  BY FilesAssumption DEF IInv, Refuse, Client, SameBytes, Refused, Edits, Idle, objects,
     history, Running, FileOf, Continues, Settled, Requests, RequestKnown, Transactions
<1>8. \A j \in Id : Row(j) => final'[j] = final[j]
  BY RowHasFile DEF IInv, Refuse, Client, SameBytes, Refused, Edits, Idle, objects, history,
     Running, FileOf, Settled, Transactions, TransactionKnown
<1>9. UNCHANGED <<rev, file, markdown, purging, purged, job, overtaken>>
  BY DEF Refuse, objects, history
<1>10. QED
  BY <1>1, <1>2, <1>3, <1>4, <1>5, <1>6, <1>7, <1>8, <1>9, RowsKept DEF IInv

\* A repeated confirmation clears only the temporary object.
LEMMA ReplayKeeps ==
    ASSUME IInv, NEW i \in Id, Replay(i)
    PROVE  IInv'
<1>1. TypeOK'
  <2>1. QED
    BY FilesAssumption DEF IInv, TypeOK, Replay, Hash, history
<1>2. Requests'
  BY FilesAssumption DEF IInv, Replay, Client, Live, history, Running, FileOf, Requests,
     RequestKnown, Reserves, TypeOK, UploadRecord
<1>3. Transactions'
  BY FilesAssumption DEF IInv, Replay, Client, Edits, Live, history, Running, FileOf,
     Transactions, TransactionKnown, Requests, RequestKnown, Reserves, TypeOK
<1>4. TransactionBytes'
  BY FilesAssumption DEF IInv, Replay, Client, Edits, Live, history, Running, FileOf,
     TransactionBytes, BytesOfTransaction, Transactions, TransactionKnown, Requests,
     RequestKnown
<1>5. LocksKept'
  BY FilesAssumption DEF IInv, Replay, Client, Edits, Live, history, Running, FileOf, LocksFile,
     LocksKept, LockKept, Inserts, Transactions, TransactionKnown, Requests, RequestKnown
<1>6. Recoverable'
  BY FilesAssumption DEF IInv, Replay, Client, Edits, Live, history, Running, FileOf,
     Recoverable, BytesWait, Waits, SavedAlready, Transactions, TransactionKnown,
     TransactionBytes, BytesOfTransaction, Requests, RequestKnown, RevisionsOf, Row, FilesKnown,
     FileKnown
<1>7. Continues
  BY FilesAssumption DEF IInv, Replay, Client, Edits, Live, history, Running, FileOf, Continues,
     Settled, Requests, RequestKnown, Transactions, TransactionKnown
<1>8. \A j \in Id : Row(j) => final'[j] = final[j]
  BY RowHasFile DEF IInv, Replay, Client, Edits, Live, history
<1>9. UNCHANGED <<rev, file, markdown, purging, purged, job, overtaken>>
  BY DEF Replay, history
<1>10. QED
  BY <1>1, <1>2, <1>3, <1>4, <1>5, <1>6, <1>7, <1>8, <1>9, RowsKept DEF IInv

\* A reservation commits before any object of it exists.
LEMMA ReserveKeeps ==
    ASSUME IInv, NEW i \in Id, NEW k \in {"snapshot", "copy"}, Reserve(i, k)
    PROVE  IInv'
<1>1. TypeOK'
  <2>1. upload[i] \in UploadRecord
    BY DEF IInv, TypeOK
  <2>2. [upload[i] EXCEPT !.state = "pending", !.file = i, !.expired = FALSE] \in UploadRecord
    BY <2>1 DEF UploadRecord
  <2>3. QED
    BY <2>1, <2>2, FilesAssumption DEF IInv, TypeOK, Reserve, Hash, objects, history
<1>2. Requests'
  BY FilesAssumption DEF IInv, Reserve, Comes, Client, objects, history, Running, FileOf,
     Requests, RequestKnown, Reserves, TypeOK
<1>3. Transactions'
  BY FilesAssumption DEF IInv, Reserve, Comes, Client, Edits, objects, history, Running, FileOf,
     Transactions, TransactionKnown, Requests, RequestKnown, Reserves
<1>4. TransactionBytes'
  BY FilesAssumption DEF IInv, Reserve, Comes, Client, Edits, objects, history, Running, FileOf,
     TransactionBytes, BytesOfTransaction, Transactions, TransactionKnown, Requests
<1>5. LocksKept'
  <2>1. ~Running(i) /\ ~Inserts(i)
    BY DEF IInv, Reserve, Comes, Requests, RequestKnown, Transactions, TransactionKnown,
       Running, Inserts, Reserves, TypeOK, Transaction
  <2>2. \A j \in Id \ {i} : FileOf(j)' = FileOf(j)
    BY DEF Reserve, FileOf, IInv, TypeOK
  <2>3. UNCHANGED <<tx, file, purging>>
    BY DEF Reserve
  <2>4. QED
    BY <2>1, <2>2, <2>3 DEF IInv, LocksKept, LockKept, LocksFile, Running, Inserts, Live
<1>6. Recoverable'
  BY FilesAssumption DEF IInv, Reserve, Comes, Client, Edits, objects, history, Running, FileOf,
     Recoverable, BytesWait, Waits, SavedAlready, Transactions, TransactionKnown,
     TransactionBytes, BytesOfTransaction, Requests, RequestKnown, RevisionsOf, Row, FilesKnown
<1>7. Continues
  BY FilesAssumption DEF IInv, Reserve, Comes, Client, Edits, objects, history, Running, FileOf,
     Continues, Settled, Requests, RequestKnown, Transactions
<1>8. \A j \in Id : Row(j) => final'[j] = final[j]
  BY RowHasFile DEF IInv, Reserve, Comes, Client, Edits, objects
<1>9. UNCHANGED <<rev, file, markdown, purging, purged, job, overtaken>>
  BY DEF Reserve, objects, history
<1>10. QED
  BY <1>1, <1>2, <1>3, <1>4, <1>5, <1>6, <1>7, <1>8, <1>9, RowsKept DEF IInv

\* The reservation is locked while it is written under.
LEMMA LockReservationKeeps ==
    ASSUME IInv, NEW i \in Id, NEW c \in Content, LockReservation(i, c)
    PROVE  IInv'
<1>1. TypeOK'
  <2>1. [Idle EXCEPT !.pc = "locked", !.new = TRUE, !.hash = c] \in Transaction
    BY IdleTyped DEF Transaction, Hash
  <2>2. QED
    BY <2>1, FilesAssumption DEF IInv, TypeOK, LockReservation, Hash, objects
<1>2. Requests'
  BY FilesAssumption DEF IInv, LockReservation, Client, MayWriteReserved, Idle, objects,
     Running, FileOf, Requests, RequestKnown, Reserves, TypeOK
<1>3. Transactions'
  BY FilesAssumption DEF IInv, LockReservation, Client, MayWriteReserved, Edits, Idle, objects,
     Running, FileOf, Transactions, TransactionKnown, Requests, RequestKnown, Reserves
<1>4. TransactionBytes'
  BY FilesAssumption DEF IInv, LockReservation, Client, MayWriteReserved, Edits, Idle, objects,
     Running, FileOf, TransactionBytes, BytesOfTransaction, Transactions, TransactionKnown,
     Requests
<1>5. LocksKept'
  BY FilesAssumption DEF IInv, LockReservation, Client, MayWriteReserved, Edits, Live, Idle,
     objects, Running, FileOf, LocksFile, LocksKept, LockKept, Inserts, Transactions,
     TransactionKnown
<1>6. Recoverable'
  BY FilesAssumption DEF IInv, LockReservation, Client, MayWriteReserved, Edits, Idle, objects,
     Running, FileOf, Recoverable, BytesWait, Waits, SavedAlready, Transactions,
     TransactionKnown, TransactionBytes, BytesOfTransaction, Requests, RequestKnown,
     RevisionsOf, Row, FilesKnown
<1>7. Continues
  BY FilesAssumption DEF IInv, LockReservation, Client, MayWriteReserved, Edits, Idle, objects,
     Running, FileOf, Continues, Settled, Requests, RequestKnown, Transactions
<1>8. \A j \in Id : Row(j) => final'[j] = final[j]
  BY RowHasFile DEF IInv, LockReservation, Client, MayWriteReserved, Edits, Idle, objects,
     Running, FileOf, Settled, Transactions, TransactionKnown
<1>9. UNCHANGED <<rev, file, markdown, purging, purged, job, overtaken>>
  BY DEF LockReservation, objects
<1>10. QED
  BY <1>1, <1>2, <1>3, <1>4, <1>5, <1>6, <1>7, <1>8, <1>9, RowsKept DEF IInv

\* Create-only, below a request that has no revision yet.
LEMMA WriteReservedKeeps ==
    ASSUME IInv, NEW i \in Id, WriteReserved(i)
    PROVE  IInv'
<1>1. TypeOK'
  <2>1. [tx[i] EXCEPT !.pc = "stored"] \in Transaction
    BY DEF IInv, TypeOK, Transaction
  <2>2. tx[i].hash \in Hash
    BY DEF IInv, TypeOK, Transaction
  <2>3. QED
    BY <2>1, <2>2, FilesAssumption DEF IInv, TypeOK, WriteReserved, Hash, history
<1>2. Requests'
  BY FilesAssumption DEF IInv, WriteReserved, Client, history, Running, FileOf, Requests,
     RequestKnown, Reserves, TypeOK
<1>3. Transactions'
  BY FilesAssumption DEF IInv, WriteReserved, Client, Edits, history, Running, FileOf,
     Transactions, TransactionKnown, Requests, RequestKnown, Reserves
<1>4. TransactionBytes'
  BY FilesAssumption DEF IInv, WriteReserved, Client, FileOf, TransactionBytes,
     BytesOfTransaction, Transactions, TransactionKnown, Requests, RequestKnown, TypeOK
<1>5. LocksKept'
  BY FilesAssumption DEF IInv, WriteReserved, Client, Edits, Live, history, Running, FileOf,
     LocksFile, LocksKept, LockKept, Inserts, Transactions, TransactionKnown, Requests,
     RequestKnown
<1>6. Recoverable'
  BY FilesAssumption DEF IInv, WriteReserved, Client, Edits, history, Running, FileOf,
     Recoverable, BytesWait, Waits, SavedAlready, Transactions, TransactionKnown,
     TransactionBytes, BytesOfTransaction, Requests, RequestKnown, RevisionsOf, Row, FilesKnown
<1>7. Continues
  BY FilesAssumption DEF IInv, WriteReserved, Client, Edits, history, Running, FileOf,
     Continues, Settled, Requests, RequestKnown, Transactions, TransactionKnown, TypeOK
<1>8. \A j \in Id : Row(j) => final'[j] = final[j]
  BY RowHasFile DEF IInv, WriteReserved, Client, Edits, history, Running, FileOf, Settled,
     Transactions, TransactionKnown, TypeOK, UploadRecord
<1>9. UNCHANGED <<rev, file, markdown, purging, purged, job, overtaken>>
  BY DEF WriteReserved, history
<1>10. QED
  BY <1>1, <1>2, <1>3, <1>4, <1>5, <1>6, <1>7, <1>8, <1>9, RowsKept DEF IInv

\* An edit, a write or a restore is about a File that exists.
LEMMA OpenKeeps ==
    ASSUME IInv, NEW i \in Id, NEW f \in Id, Open(i, f)
    PROVE  IInv'
<1>1. TypeOK'
  <2>1. upload[i] \in UploadRecord /\ file[f] \in FileRecord
    BY DEF IInv, TypeOK
  <2>2. [upload[i] EXCEPT !.state = "open", !.file = f, !.base = file[f].current] \in UploadRecord
    BY <2>1 DEF UploadRecord, FileRecord
  <2>3. QED
    BY <2>1, <2>2, FilesAssumption DEF IInv, TypeOK, Open, Hash, objects, history
<1>2. Requests'
  BY FilesAssumption DEF IInv, Open, Comes, Client, Live, objects, history, Running, FileOf,
     Requests, RequestKnown, Reserves, TypeOK, UploadRecord, Revision, FileRecord, Transaction,
     Job, Hash, Count, FilesKnown, FileKnown
<1>3. Transactions'
  BY FilesAssumption DEF IInv, Open, Comes, Client, Edits, Live, objects, history, Running,
     FileOf, Transactions, TransactionKnown, Requests, RequestKnown, Reserves, TypeOK,
     UploadRecord, Revision, FileRecord, Transaction, Job
<1>4. TransactionBytes'
  BY FilesAssumption DEF IInv, Open, Comes, Client, Edits, Live, objects, history, Running,
     FileOf, TransactionBytes, BytesOfTransaction, Transactions, TransactionKnown, Requests,
     RequestKnown
<1>5. LocksKept'
  BY FilesAssumption DEF IInv, Open, Comes, Client, Edits, Live, objects, history, Running,
     FileOf, LocksFile, LocksKept, LockKept, Inserts, Transactions, TransactionKnown, Requests,
     RequestKnown, TypeOK, UploadRecord, Revision, FileRecord, Transaction, Job
<1>6. Recoverable'
  BY FilesAssumption DEF IInv, Open, Comes, Client, Edits, Live, objects, history, Running,
     FileOf, Recoverable, BytesWait, Waits, SavedAlready, Transactions, TransactionKnown,
     TransactionBytes, BytesOfTransaction, Requests, RequestKnown, RevisionsOf, Row
<1>7. Continues
  BY FilesAssumption DEF IInv, Open, Comes, Client, Running, FileOf, Continues, Settled,
     Requests, RequestKnown, Transactions, TransactionKnown
<1>8. \A j \in Id : Row(j) => final'[j] = final[j]
  BY RowHasFile DEF IInv, Open, Comes, objects
<1>9. UNCHANGED <<rev, file, markdown, purging, purged, job, overtaken>>
  BY DEF Open, objects, history
<1>10. QED
  BY <1>1, <1>2, <1>3, <1>4, <1>5, <1>6, <1>7, <1>8, <1>9, RowsKept DEF IInv

\* An edit locks the File and reads its head.
LEMMA BeginEditKeeps ==
    ASSUME IInv, NEW i \in Id, NEW c \in Content, BeginEdit(i, c)
    PROVE  IInv'
<1>1. TypeOK'
  <2>1. upload[i] \in UploadRecord
    BY DEF IInv, TypeOK
  <2>2. [upload[i] EXCEPT !.state = "made"] \in UploadRecord
    BY <2>1 DEF UploadRecord
  <2>3. [Reads(FileOf(i)) EXCEPT !.pc = "locked", !.hash = c] \in Transaction
    BY ReadsTyped, FileTyped DEF IInv, TypeOK, BeginEdit, Expected, Hash, Pcs
  <2>4. QED
    BY <2>1, <2>2, <2>3, FilesAssumption DEF IInv, TypeOK, BeginEdit, Hash, objects, history
<1>2. Requests'
  BY FilesAssumption DEF IInv, BeginEdit, Client, Reads, Edits, Expected, Live, Unlocked, Idle,
     objects, history, Running, FileOf, LocksFile, Requests, RequestKnown, Reserves, TypeOK,
     UploadRecord, Revision, FileRecord, Transaction, Job, Hash
<1>3. Transactions'
  <2>1. /\ upload[i].state = "open" /\ Edits(i) /\ Expected(i)
        /\ tx'[i] = [pc |-> "locked", hash |-> c, new |-> FALSE,
                     current |-> file[FileOf(i)].current, count |-> file[FileOf(i)].count]
        /\ upload'[i].kind = upload[i].kind /\ upload'[i].state = "made"
        /\ upload'[i].base = upload[i].base
        /\ \A j \in Id \ {i} : upload'[j] = upload[j] /\ tx'[j] = tx[j]
    BY DEF IInv, TypeOK, UploadRecord, BeginEdit, Reads, Idle, Expected, Live
  <2>2. upload[i].kind = "edit" => file[FileOf(i)].current = upload[i].base
    BY <2>1 DEF Expected
  <2>3. QED
    BY <2>1, <2>2, FilesAssumption DEF IInv, Transactions, TransactionKnown, Client, Reserves,
       Edits, Running
<1>4. TransactionBytes'
  BY FilesAssumption DEF IInv, BeginEdit, Client, Reads, Edits, Expected, Live, Unlocked, Idle,
     objects, history, Running, FileOf, LocksFile, TransactionBytes, BytesOfTransaction,
     Transactions, TransactionKnown
<1>5. LocksKept'
  BY FilesAssumption DEF IInv, BeginEdit, Client, Reads, Edits, Expected, Live, Unlocked, Idle,
     objects, history, Running, FileOf, LocksFile, LocksKept, LockKept, Inserts, Transactions
<1>6. Recoverable'
  BY FilesAssumption DEF IInv, BeginEdit, Client, Reads, Edits, Expected, Live, Unlocked, Idle,
     objects, history, Running, FileOf, LocksFile, Recoverable, BytesWait, Waits, SavedAlready,
     Transactions, TransactionKnown, TransactionBytes, BytesOfTransaction, Requests,
     RequestKnown, RevisionsOf, Row
<1>7. Continues
  BY FilesAssumption DEF IInv, BeginEdit, Client, Reads, Edits, Expected, Live, Unlocked, Idle,
     objects, history, Running, FileOf, LocksFile, Continues, Settled, Requests, RequestKnown
<1>8. \A j \in Id : Row(j) => final'[j] = final[j]
  BY RowHasFile DEF IInv, BeginEdit, Client, Reads, Edits, Expected, Live, Unlocked, Idle,
     objects, history, Running, FileOf, LocksFile, Settled, Transactions
<1>9. UNCHANGED <<rev, file, markdown, purging, purged, job, overtaken>>
  BY DEF BeginEdit, objects, history
<1>10. QED
  BY <1>1, <1>2, <1>3, <1>4, <1>5, <1>6, <1>7, <1>8, <1>9, RowsKept DEF IInv

\* The bytes of an edit are put under its own key.
LEMMA PutEditKeeps ==
    ASSUME IInv, NEW i \in Id, PutEdit(i)
    PROVE  IInv'
<1>1. TypeOK'
  <2>1. [tx[i] EXCEPT !.pc = "stored"] \in Transaction
    BY DEF IInv, TypeOK, Transaction
  <2>2. tx[i].hash \in Hash
    BY DEF IInv, TypeOK, Transaction
  <2>3. QED
    BY <2>1, <2>2, FilesAssumption DEF IInv, TypeOK, PutEdit, Hash, history
<1>2. Requests'
  BY FilesAssumption DEF IInv, PutEdit, Client, Edits, history, Running, FileOf, Requests,
     RequestKnown, Reserves, TypeOK, UploadRecord
<1>3. Transactions'
  BY FilesAssumption DEF IInv, PutEdit, Client, Edits, history, Running, FileOf, Transactions,
     TransactionKnown, Requests, RequestKnown, Reserves
<1>4. TransactionBytes'
  BY FilesAssumption DEF IInv, PutEdit, Client, FileOf, TransactionBytes, BytesOfTransaction,
     Transactions, TransactionKnown, Requests, RequestKnown, TypeOK
<1>5. LocksKept'
  BY FilesAssumption DEF IInv, PutEdit, Client, Edits, Live, history, Running, FileOf,
     LocksFile, LocksKept, LockKept, Inserts, Transactions, TransactionKnown, Requests,
     RequestKnown
<1>6. Recoverable'
  BY FilesAssumption DEF IInv, PutEdit, Client, Edits, history, Running, FileOf, Recoverable,
     BytesWait, Waits, SavedAlready, Transactions, TransactionKnown, TransactionBytes,
     BytesOfTransaction, Requests, RequestKnown, RevisionsOf, Row, FilesKnown
<1>7. Continues
  BY FilesAssumption DEF IInv, PutEdit, Client, Edits, history, Running, FileOf, Continues,
     Settled, Requests, RequestKnown, Transactions, TransactionKnown, TypeOK
<1>8. \A j \in Id : Row(j) => final'[j] = final[j]
  BY RowHasFile DEF IInv, PutEdit, Client, Edits, history, Running, FileOf, Settled,
     Transactions, TransactionKnown, TypeOK, UploadRecord
<1>9. UNCHANGED <<rev, file, markdown, purging, purged, job, overtaken>>
  BY DEF PutEdit, history
<1>10. QED
  BY <1>1, <1>2, <1>3, <1>4, <1>5, <1>6, <1>7, <1>8, <1>9, RowsKept DEF IInv

\* A rollback leaves rows and objects, an interrupted edit removes its own.
LEMMA AbortKeeps ==
    ASSUME IInv, NEW i \in Id, Abort(i)
    PROVE  IInv'
<1>1. TypeOK'
  <2>1. Idle \in Transaction
    BY IdleTyped DEF Transaction, Hash
  <2>2. [Idle EXCEPT !.pc = "over"] \in Transaction
    BY IdleTyped DEF Transaction, Hash
  <2>3. QED
    BY <2>1, <2>2, FilesAssumption DEF IInv, TypeOK, Abort, Hash, Fault, objects, history
<1>2. Requests'
  BY FilesAssumption DEF IInv, Abort, Client, Fault, Idle, objects, history, Running, FileOf,
     Requests, RequestKnown, Reserves
<1>3. Transactions'
  BY FilesAssumption DEF IInv, Abort, Client, Edits, Fault, Idle, objects, history, Running,
     FileOf, Transactions, TransactionKnown, Requests, RequestKnown, Reserves, TypeOK,
     UploadRecord, Revision, FileRecord, Transaction, Job
<1>4. TransactionBytes'
  BY FilesAssumption DEF IInv, Abort, Client, Edits, Fault, Idle, objects, history, Running,
     FileOf, TransactionBytes, BytesOfTransaction, Transactions, TransactionKnown, Requests,
     RequestKnown
<1>5. LocksKept'
  BY FilesAssumption DEF IInv, Abort, Client, Edits, Fault, Live, Idle, objects, history,
     Running, FileOf, LocksFile, LocksKept, LockKept, Inserts, Transactions, TransactionKnown,
     Requests
<1>6. Recoverable'
  BY FilesAssumption DEF IInv, Abort, Client, Edits, Fault, Idle, objects, history, Running,
     FileOf, Recoverable, BytesWait, Waits, SavedAlready, Transactions, TransactionKnown,
     TransactionBytes, BytesOfTransaction, Requests, RequestKnown, RevisionsOf, Row
<1>7. Continues
  BY FilesAssumption DEF IInv, Abort, Client, Edits, Running, FileOf, Continues, Settled,
     Requests, RequestKnown, Transactions, TransactionKnown
<1>8. \A j \in Id : Row(j) => final'[j] = final[j]
  BY RowHasFile DEF IInv, Abort, Client, objects
<1>9. UNCHANGED <<rev, file, markdown, purging, purged, job, overtaken>>
  BY DEF Abort, objects, history
<1>10. QED
  BY <1>1, <1>2, <1>3, <1>4, <1>5, <1>6, <1>7, <1>8, <1>9, RowsKept DEF IInv

\* The sweeper deletes what no revision refers to (sweep_workspace_uploads).
LEMMA SweepUploadKeeps ==
    ASSUME IInv, NEW i \in Id, SweepUpload(i)
    PROVE  IInv'
<1>a. PICK s \in {"pending", "swept"} : upload' = [upload EXCEPT ![i].state = s]
  <2>1. [upload EXCEPT ![i].state = upload[i].state] = upload
    BY DEF IInv, TypeOK, UploadRecord
  <2>2. QED
    BY <2>1 DEF SweepUpload, MaySweep
<1>0. /\ upload[i].state = "pending" /\ ~Running(i) /\ upload[i].expired
      /\ \A j \in Id \ {i} : upload'[j] = upload[j] /\ stage'[j] = stage[j] /\ final'[j] = final[j]
      /\ upload'[i].state = s /\ upload'[i].kind = upload[i].kind
      /\ upload'[i].file = upload[i].file /\ upload'[i].base = upload[i].base
      /\ upload'[i].expired
      /\ UNCHANGED <<tx, file, rev, sent, purging, purged>>
  BY <1>a DEF IInv, TypeOK, UploadRecord, SweepUpload, MaySweep, Swept, history
<1>1. TypeOK'
  <2>1. upload[i] \in UploadRecord
    BY DEF IInv, TypeOK
  <2>2. [upload[i] EXCEPT !.state = "swept"] \in UploadRecord
    BY <2>1 DEF UploadRecord
  <2>3. QED
    BY <2>1, <2>2, FilesAssumption DEF IInv, TypeOK, SweepUpload, Hash, Fault, history, Swept
<1>2. Requests'
  BY <1>0 DEF IInv, Requests, RequestKnown, Reserves, Client, FileOf, Running
<1>3. Transactions'
  BY <1>0, FilesAssumption DEF IInv, Client, Running, FileOf, Transactions, TransactionKnown,
     Requests, RequestKnown, Reserves, FilesKnown, FileKnown, NoFile, Edits, TypeOK
<1>4. TransactionBytes'
  BY <1>0, FilesAssumption DEF IInv, Client, Running, FileOf, TransactionBytes,
     BytesOfTransaction
<1>5. LocksKept'
  <2>1. \A j \in Id : FileOf(j)' = FileOf(j)
    BY <1>0 DEF FileOf
  <2>2. QED
    BY <1>0, <2>1 DEF IInv, LocksKept, LockKept, LocksFile, Running, Inserts, Live
<1>6. Recoverable'
  BY <1>0, FilesAssumption DEF IInv, Client, Running, FileOf, Recoverable, BytesWait, Waits,
     SavedAlready, Transactions, TransactionKnown, TransactionBytes, BytesOfTransaction,
     Requests, RequestKnown, RevisionsOf, Row, FilesKnown, FileKnown, RevisionsKnown,
     RevisionKnown
<1>7. Continues
  BY <1>0, FilesAssumption DEF IInv, Client, Running, FileOf, Continues, Settled
<1>8. \A j \in Id : Row(j) => final'[j] = final[j]
  BY RowHasFile DEF IInv, SweepUpload, Client, Edits, Fault, MaySweep, Swept, history, Running,
     FileOf, Settled, Transactions, TransactionKnown, TypeOK
<1>9. UNCHANGED <<rev, file, markdown, purging, purged, job, overtaken>>
  BY DEF SweepUpload, history, Swept
<1>10. QED
  BY <1>1, <1>2, <1>3, <1>4, <1>5, <1>6, <1>7, <1>8, <1>9, RowsKept DEF IInv

----------------------------------------------------------------------------
(* Extraction                                                               *)

\* Only statuses and the Markdown of revisions change.
RowsAlike ==
    /\ \A j \in Id :
          /\ Row(j)' = Row(j)
          /\ rev'[j].number = rev[j].number /\ rev'[j].key = rev[j].key
          /\ rev'[j].hash = rev[j].hash /\ rev'[j].follows = rev[j].follows
          /\ rev'[j].source = rev[j].source
    /\ \A f \in Id :
          /\ file'[f].state = file[f].state /\ file'[f].current = file[f].current
          /\ file'[f].count = file[f].count
          /\ file[f].state = "absent" => file'[f] = file[f]
          /\ file[f].status # "none" => file'[f].status # "none"

\* Revisions are numbered from 1.
LEMMA NumberPositive ==
    ASSUME IInv, NEW i \in Id, Row(i)
    PROVE  rev[i].number \in Nat \ {0}
<1>1. FileOf(i) \in Id /\ file[FileOf(i)].state # "absent" /\ i \in RevisionsOf(FileOf(i))
  BY RowHasFile
<1>2. rev[i].number \in 1 .. file[FileOf(i)].count
  BY <1>1 DEF IInv, OneChain, Chained
<1>3. file[FileOf(i)].count \in Nat
  <2>1. Cardinality(Id) \in Nat
    BY FS_CardinalityType, FilesAssumption
  <2>2. file[FileOf(i)] \in FileRecord
    BY <1>1 DEF IInv, TypeOK
  <2>3. QED
    BY <2>1, <2>2 DEF FileRecord, Count
<1>4. QED
  BY <1>2, <1>3

\* Extraction writes the status and the Markdown of rows, and nothing the
\* chain, the locks or the uploads depend on.
LEMMA AlikeKeeps ==
    ASSUME IInv, RowsAlike, UNCHANGED <<upload, tx, stage, final, purging, sent, purged>>
    PROVE  /\ Requests' /\ Transactions' /\ TransactionBytes' /\ LocksKept'
           /\ FilesKnown' /\ OneChain' /\ Recoverable'
<1>1. \A f : RevisionsOf(f)' = RevisionsOf(f)
  BY DEF RevisionsOf, FileOf, RowsAlike
<1>2. Requests' /\ Transactions' /\ TransactionBytes'
  BY DEF IInv, Requests, RequestKnown, Transactions, TransactionKnown, TransactionBytes,
     BytesOfTransaction, Reserves, Client, Edits, FileOf, Running
<1>3. LocksKept'
  BY DEF IInv, LocksKept, LockKept, LocksFile, Inserts, Running, FileOf, Live, RowsAlike,
     Requests, RequestKnown, Transactions
<1>4. FilesKnown'
  BY <1>1 DEF IInv, FilesKnown, FileKnown, RowsAlike
<1>5. OneChain'
  <2> SUFFICES ASSUME NEW f \in Id, file[f].state # "absent"
               PROVE  Chained(f)'
    BY DEF OneChain, RowsAlike
  <2>1. Chained(f) /\ file[f].current \in Id /\ RevisionsOf(f) \subseteq Id
    BY DEF IInv, OneChain, FilesKnown, FileKnown, RevisionsOf
  <2>2. {rev'[j].number : j \in RevisionsOf(f)} = {rev[j].number : j \in RevisionsOf(f)}
    BY <2>1 DEF RowsAlike
  <2>3. QED
    BY <1>1, <2>1, <2>2 DEF Chained, RowsAlike
<1>6. Recoverable'
  BY <1>1 DEF IInv, Recoverable, BytesWait, Waits, SavedAlready, Client, FileOf, RowsAlike,
     RevisionsOf
<1>7. QED
  BY <1>2, <1>3, <1>4, <1>5, <1>6

\* What an extraction step does to its own job, and to the status of the File.
Moves(i, q, s) ==
    /\ job' = [job EXCEPT ![i] = q]
    /\ job[i].state \in {"queued", "reading", "working", "written"}
    /\ q.state # "none"
    /\ q.state = "queued" => q.tries < MaxAttempts
    /\ q.state \in {"reading", "working", "written"} =>
          /\ q.tries > 0
          /\ \/ Extracting(i) /\ q.mine = job[i].mine
             \/ q.mine <=> file[FileOf(i)].current = i
    /\ q.state = "written" => i \in markdown'
    /\ \/ file' = file
       \/ /\ Extracting(i) /\ job[i].mine /\ file[FileOf(i)].state # "absent"
          /\ file' = [file EXCEPT ![FileOf(i)].status = s]

\* What it does to its revision.
Marks(i, m) ==
    \/ rev' = rev
    \/ /\ Row(i) /\ job'[i].state = "done"
       /\ rev' = [rev EXCEPT ![i].md = m]
       /\ job'[m].state = "done" /\ FileOf(m) = FileOf(i)
       /\ FileOf(i) \notin purged => m \in markdown'

Shown == {"pending", "processing", "ready", "error"}

\* What has to be shown of a step of an extraction attempt: that the File it
\* may mark is told its status.
LEMMA ExtractionKeeps ==
    ASSUME IInv, NEW i \in Id, NEW q \in Job, NEW s \in Shown, NEW m \in Id,
           Moves(i, q, s), Marks(i, m),
           markdown \subseteq markdown', markdown' \subseteq Id,
           UNCHANGED <<upload, tx, stage, final, purging, sent, purged, overtaken>>,
           faults' \in 0 .. MaxFaults,
           \A f \in Id : /\ f = FileOf(i) /\ Live(f) /\ file[f].current = i /\ Row(i)
                         /\ Extracting(i) => job[i].mine
                         /\ Told(f)
                         => Told(f)'
    PROVE  IInv'
<1>1. UNCHANGED <<upload, tx, stage, final, purging, sent, purged, overtaken>>
  OBVIOUS
<1>2. Settled(i) /\ FileOf(i) \in Id
  BY DEF IInv, JobsKnown, JobKnown, Moves, NoJob, Settled, Requests, RequestKnown
<1>3. /\ \A j \in Id \ {i} : job'[j] = job[j] /\ rev'[j] = rev[j]
      /\ job'[i] = q /\ rev'[i].number = rev[i].number /\ rev'[i].key = rev[i].key
      /\ rev'[i].hash = rev[i].hash /\ rev'[i].follows = rev[i].follows
      /\ rev'[i].source = rev[i].source
  BY DEF Moves, Marks, IInv, TypeOK, Revision
<1>4. \A j \in Id : Row(j)' = Row(j)
  <2>1. Row(i) => rev'[i].number # 0
    BY <1>3, NumberPositive
  <2>2. Row(i) => Row(i)'
    BY <2>1 DEF Row, NoRevision
  <2>3. Row(i)' => Row(i)
    BY DEF Marks, Row
  <2>4. QED
    BY <1>3, <2>2, <2>3 DEF Row
<1>5. /\ \A f \in Id : /\ file'[f].state = file[f].state
                       /\ file'[f].current = file[f].current
                       /\ file'[f].count = file[f].count
                       /\ file'[f] = file[f] \/ (/\ f = FileOf(i) /\ job[i].mine /\ Extracting(i)
                                                 /\ file[f].state # "absent"
                                                 /\ file'[f].status = s)
  BY <1>2 DEF Moves, IInv, TypeOK, FileRecord
<1>6. RowsAlike
  BY <1>3, <1>4, <1>5 DEF RowsAlike, Shown
<1>7. /\ Requests' /\ Transactions' /\ TransactionBytes' /\ LocksKept'
      /\ FilesKnown' /\ OneChain' /\ Recoverable'
  BY <1>1, <1>6, AlikeKeeps
<1>8. TypeOK'
  <2>1. file' \in [Id -> FileRecord]
    BY <1>2 DEF Moves, IInv, TypeOK, FileRecord, Shown
  <2>2. rev' \in [Id -> Revision]
    BY DEF Marks, IInv, TypeOK, Revision
  <2>3. job' \in [Id -> Job]
    BY DEF Moves, IInv, TypeOK
  <2>4. QED
    BY <1>1, <2>1, <2>2, <2>3 DEF IInv, TypeOK
<1>9. RevisionsKnown'
  <2> SUFFICES ASSUME NEW j \in Id, Row(j)
               PROVE  RevisionKnown(j)'
    BY <1>4 DEF RevisionsKnown, RevisionKnown
  <2>1. RevisionKnown(j) /\ FileOf(j)' = FileOf(j) /\ Settled(j)'
    BY <1>1 DEF IInv, RevisionsKnown, RevisionKnown, Settled, FileOf, Running
  <2>2. \A f : RevisionsOf(f)' = RevisionsOf(f)
    BY <1>1, <1>4 DEF RevisionsOf, FileOf
  <2>3. rev[j].key \in Id
    BY <2>1 DEF RevisionKnown, RevisionsOf
  <2>4. rev'[j].md # None => /\ job'[rev'[j].md].state = "done"
                             /\ FileOf(rev'[j].md) = FileOf(j)
    <3>1. CASE rev'[j].md = rev[j].md
      <4>1. rev[j].md # None => rev[j].md \in Id /\ rev[j].md # i
        BY <2>1 DEF RevisionKnown, Moves, IInv, TypeOK, Revision
      <4>2. QED
        BY <1>3, <2>1, <3>1, <4>1 DEF RevisionKnown
    <3>2. CASE rev'[j].md # rev[j].md
      <4>1. j = i /\ rev'[j].md = m /\ job'[m].state = "done" /\ FileOf(m) = FileOf(i)
        BY <3>2 DEF Marks, IInv, TypeOK, Revision
      <4>2. QED
        BY <4>1
    <3>3. QED
      BY <3>1, <3>2
  <2>5. QED
    BY <1>1, <1>6, <2>1, <2>2, <2>3, <2>4 DEF RevisionKnown, RowsAlike, FileOf
<1>10. BytesBehindRevisions'
  <2> SUFFICES ASSUME NEW j \in Id, Row(j), FileOf(j) \notin purged
               PROVE  /\ final[rev'[j].key] = rev'[j].hash
                      /\ rev'[j].md # None => rev'[j].md \in markdown'
    BY <1>1, <1>4 DEF BytesBehindRevisions, FileOf
  <2>1. rev'[j].md = rev[j].md \/ (j = i /\ rev'[j].md = m /\ m \in markdown')
    BY <1>3 DEF Marks, IInv, TypeOK, Revision
  <2>2. QED
    BY <1>6, <2>1 DEF RowsAlike, IInv, BytesBehindRevisions
<1>11. JobsKnown'
  <2> SUFFICES ASSUME NEW j \in Id PROVE JobKnown(j)'
    BY DEF JobsKnown
  <2>1. JobKnown(j) /\ Settled(j)' = Settled(j) /\ FileOf(j)' = FileOf(j)
    BY <1>1 DEF IInv, JobsKnown, Settled, FileOf, Running
  <2>2. Settled(j) => FileOf(j) \in Id
    BY DEF IInv, Requests, RequestKnown, Settled
  <2>3. CASE j = i
    BY <1>1, <1>2, <1>3, <1>5, <2>1, <2>3 DEF JobKnown, Moves, Extracting
  <2>4. CASE j # i
    BY <1>1, <1>3, <1>5, <2>1, <2>2, <2>4 DEF JobKnown, Extracting, NoJob
  <2>5. QED
    BY <2>3, <2>4
<1>12. StatusTold'
  <2> SUFFICES ASSUME NEW f \in Id, Live(f), f \notin overtaken
               PROVE  Told(f)'
    BY <1>1, <1>5 DEF StatusTold, Live
  <2>1. Told(f) /\ file[f].current \in RevisionsOf(f)
    BY DEF IInv, StatusTold, FilesKnown, FileKnown, Live
  <2>2. CASE file[f].current = i
    <3>1. f = FileOf(i) /\ Row(i)
      BY <2>1, <2>2 DEF RevisionsOf
    <3>2. Extracting(i) => job[i].mine
      BY <2>2, <3>1 DEF IInv, JobsKnown, JobKnown
    <3>3. QED
      BY <2>1, <2>2, <3>1, <3>2
  <2>3. CASE file[f].current # i
    <3>1. file'[f] = file[f]
      BY <1>5, <2>3 DEF IInv, JobsKnown, JobKnown
    <3>2. file[f].current \in Id \ {i}
      BY <2>1, <2>3 DEF RevisionsOf
    <3>3. Ingests(file[f].current)' = Ingests(file[f].current)
      BY <1>1, <3>1 DEF Ingests, IsDocument, FileOf
    <3>4. QED
      BY <1>3, <2>1, <3>1, <3>2, <3>3 DEF Told
  <2>4. QED
    BY <2>2, <2>3
<1>13. QED
  BY <1>7, <1>8, <1>9, <1>10, <1>11, <1>12 DEF IInv

\* The next values of an extraction job.
LEMMA JobTyped ==
    ASSUME IInv, NEW i \in Id
    PROVE  /\ job[i] \in Job /\ job[i].tries \in Nat /\ MaxAttempts \in Nat
           /\ job[i].state = "queued" => job[i].tries + 1 \in 0 .. MaxAttempts
           /\ \A how \in {"queued", "done", "dead"} :
                 [job[i] EXCEPT !.state = how, !.mine = FALSE] \in Job
           /\ \A how \in {"working", "written"} : [job[i] EXCEPT !.state = how] \in Job
<1>1. job[i] \in Job
  BY DEF IInv, TypeOK
<1>2. job[i].state = "queued" => job[i].tries < MaxAttempts
  BY DEF IInv, JobsKnown, JobKnown
<1>3. job[i].tries \in 0 .. MaxAttempts /\ MaxAttempts \in Nat
  BY <1>1, FilesAssumption DEF Job
<1>4. job[i].tries \in Nat /\ (job[i].state = "queued" => job[i].tries + 1 \in 0 .. MaxAttempts)
  BY <1>2, <1>3
<1>5. /\ \A how \in {"queued", "done", "dead"} :
            [job[i] EXCEPT !.state = how, !.mine = FALSE] \in Job
      /\ \A how \in {"working", "written"} : [job[i] EXCEPT !.state = how] \in Job
  BY <1>1 DEF Job
<1>6. QED
  BY <1>1, <1>3, <1>4, <1>5

\* Whether a request queues an extraction depends on the requests alone.
LEMMA IngestsSame ==
    ASSUME NEW i, UNCHANGED upload
    PROVE  Ingests(i)' = Ingests(i)
BY DEF Ingests, IsDocument, FileOf

\* An attempt reads whether its revision is the current one
\* (process_file_extraction).
LEMMA ReadForExtractKeeps ==
    ASSUME IInv, NEW i \in Id, ReadForExtract(i)
    PROVE  IInv'
<1>1. PICK q \in Job :
         /\ job' = [job EXCEPT ![i] = q] /\ job[i].state = "queued"
         /\ \/ /\ Row(i) /\ Live(FileOf(i))
               /\ q = [state |-> "reading", tries |-> job[i].tries + 1,
                       mine |-> file[FileOf(i)].current = i]
            \/ /\ ~Row(i) \/ ~Live(FileOf(i))
               /\ q = [job[i] EXCEPT !.state = "done", !.mine = FALSE]
  <2>1. CASE Row(i) /\ Live(FileOf(i))
    <3>1. [state |-> "reading", tries |-> job[i].tries + 1,
           mine |-> file[FileOf(i)].current = i] \in Job
      BY <2>1, JobTyped DEF Job, ReadForExtract
    <3>2. job' = [job EXCEPT ![i] = [state |-> "reading", tries |-> job[i].tries + 1,
                                     mine |-> file[FileOf(i)].current = i]]
      BY <2>1 DEF ReadForExtract, IInv, TypeOK
    <3>3. QED
      BY <2>1, <3>1, <3>2 DEF ReadForExtract
  <2>2. CASE ~Row(i) \/ ~Live(FileOf(i))
    BY <2>2, JobTyped DEF ReadForExtract, Ends
  <2>3. QED
    BY <2>1, <2>2
<1>2. \/ /\ q.state = "reading" /\ q.tries > 0 /\ (q.mine <=> file[FileOf(i)].current = i)
         /\ Row(i) /\ Live(FileOf(i))
      \/ q.state = "done" /\ (~Row(i) \/ ~Live(FileOf(i)))
  <2>1. CASE q = [job[i] EXCEPT !.state = "done", !.mine = FALSE] /\ (~Row(i) \/ ~Live(FileOf(i)))
    BY <2>1, JobTyped DEF Job
  <2>2. CASE q = [state |-> "reading", tries |-> job[i].tries + 1,
                  mine |-> file[FileOf(i)].current = i] /\ Row(i) /\ Live(FileOf(i))
    <3>1. q.state = "reading" /\ q.tries = job[i].tries + 1
      BY <2>2
    <3>2. q.mine <=> file[FileOf(i)].current = i
      BY <2>2, Zenon
    <3>3. q.tries > 0
      <4>1. job[i].tries \in Nat
        BY JobTyped
      <4>2. QED
        BY <3>1, <4>1
    <3>4. Row(i) /\ Live(FileOf(i))
      BY <2>2
    <3>5. QED
      BY <3>1, <3>2, <3>3, <3>4
  <2>3. QED
    BY <1>1, <2>1, <2>2
<1>a. Moves(i, q, "ready") /\ Marks(i, i)
  BY <1>1, <1>2 DEF ReadForExtract, Moves, Marks
<1>3. ASSUME NEW f \in Id, f = FileOf(i), Live(f), file[f].current = i, Row(i), Told(f)
      PROVE  Told(f)'
  <2>1. job'[i].state = "reading" /\ job'[i].tries > 0
    BY <1>1, <1>2, <1>3 DEF IInv, TypeOK
  <2>2. Ingests(i)' = Ingests(i) /\ file' = file /\ rev' = rev
    BY IngestsSame DEF ReadForExtract
  <2>3. file[f].status \in {"pending", "processing", "ready", "error"}
    BY <1>3 DEF IInv, FilesKnown, FileKnown, Live, TypeOK, FileRecord
  <2>4. QED
    BY <1>3, <2>1, <2>2, <2>3 DEF Told
<1>4. QED
  BY <1>1, <1>a, <1>3, ExtractionKeeps DEF ReadForExtract, objects, history, Shown, IInv, TypeOK

\* An attempt that ends leaves its job queued, dead or done.
LEMMA EndsMoves ==
    ASSUME IInv, NEW i \in Id, NEW how \in {"queued", "done", "dead"}, NEW s,
           Extracting(i), Ends(i, how), how = "queued" => job[i].tries < MaxAttempts,
           \/ UNCHANGED file
           \/ job[i].mine /\ file[FileOf(i)].state # "absent"
                /\ file' = [file EXCEPT ![FileOf(i)].status = s]
    PROVE  /\ [job[i] EXCEPT !.state = how, !.mine = FALSE] \in Job
           /\ Moves(i, [job[i] EXCEPT !.state = how, !.mine = FALSE], s)
           /\ job'[i].state = how /\ job'[i].tries = job[i].tries
<1>1. [job[i] EXCEPT !.state = how, !.mine = FALSE] \in Job
  BY JobTyped
<1>2. [job[i] EXCEPT !.state = how, !.mine = FALSE].state = how
      /\ [job[i] EXCEPT !.state = how, !.mine = FALSE].tries = job[i].tries
  BY JobTyped DEF Job
<1>3. QED
  BY <1>1, <1>2 DEF Moves, Ends, Extracting, IInv, TypeOK

\* A failed attempt is queued again until its attempts are spent.
LEMMA RetriesMoves ==
    ASSUME IInv, NEW i \in Id, NEW s, Extracting(i), Retries(i),
           \/ UNCHANGED file
           \/ job[i].mine /\ file[FileOf(i)].state # "absent"
                /\ file' = [file EXCEPT ![FileOf(i)].status = s]
    PROVE  /\ \E q \in Job : Moves(i, q, s)
           /\ job'[i].state \in {"queued", "dead"} /\ job'[i].tries = job[i].tries
<1>1. PICK how \in {"queued", "dead"} :
         Ends(i, how) /\ (how = "queued" => job[i].tries < MaxAttempts)
  BY DEF Retries
<1>2. QED
  BY <1>1, EndsMoves

\* The File is marked as processing, or the Markdown of the source taken over.
LEMMA BeginConversionKeeps ==
    ASSUME IInv, NEW i \in Id, BeginConversion(i)
    PROVE  IInv'
<1>1. Extracting(i) /\ job[i].tries > 0 /\ job[i].state = "reading"
  BY DEF BeginConversion, Extracting, IInv, JobsKnown, JobKnown
<1>2. CASE Row(i) /\ ~CopiesMarkdown(i)
  <2>1. /\ SetStatus(i, "processing") /\ rev' = rev
        /\ job' = [job EXCEPT ![i] = [job[i] EXCEPT !.state = "working"]]
    BY <1>2 DEF BeginConversion
  <2>2. [job[i] EXCEPT !.state = "working"] \in Job
        /\ [job[i] EXCEPT !.state = "working"].mine = job[i].mine
        /\ [job[i] EXCEPT !.state = "working"].tries = job[i].tries
    BY JobTyped DEF Job
  <2>3. Moves(i, [job[i] EXCEPT !.state = "working"], "processing") /\ Marks(i, i)
    BY <1>1, <2>1, <2>2 DEF Moves, Marks, SetStatus
  <2>4. ASSUME NEW f \in Id, f = FileOf(i), Live(f), file[f].current = i, job[i].mine
        PROVE  Told(f)'
    <3>1. file'[f].status = "processing" /\ file'[f].current = i
      BY <2>1, <2>4 DEF SetStatus, Live, IInv, TypeOK, FileRecord
    <3>2. job'[i].state = "working"
      BY <2>1 DEF IInv, TypeOK, Job
    <3>3. QED
      BY <3>1, <3>2 DEF Told
  <2>5. QED
    BY <1>1, <2>2, <2>3, <2>4, ExtractionKeeps DEF BeginConversion, objects, history, Shown,
       IInv, TypeOK
<1>3. CASE Row(i) /\ CopiesMarkdown(i)
  <2>1. CopyMarkdown(i)
    BY <1>3 DEF BeginConversion
  <2> DEFINE q == [job[i] EXCEPT !.state = "done", !.mine = FALSE]
             m == rev[rev[i].source].md
  <2>2. q \in Job /\ Moves(i, q, "ready") /\ job'[i].state = "done" /\ job'[i].tries = job[i].tries
    BY <1>1, <2>1, EndsMoves DEF CopyMarkdown, SetStatus
  <2>3. rev[i].source \in RevisionsOf(FileOf(i)) /\ Row(rev[i].source) /\ rev[i].source \in Id
        /\ FileOf(rev[i].source) = FileOf(i)
    BY <1>3 DEF CopiesMarkdown, IInv, RevisionsKnown, RevisionKnown, RevisionsOf
  <2>4. /\ m \in Id /\ job[m].state = "done" /\ FileOf(m) = FileOf(i)
        /\ FileOf(i) \notin purged => m \in markdown
    BY <1>3, <2>3 DEF CopiesMarkdown, IInv, RevisionsKnown, RevisionKnown, BytesBehindRevisions,
       TypeOK, Revision
  <2>5. job'[m].state = "done"
    BY <1>1, <2>1, <2>4 DEF CopyMarkdown, Ends, IInv, TypeOK
  <2>6. Marks(i, m)
    BY <1>3, <2>1, <2>2, <2>4, <2>5 DEF Marks, CopyMarkdown, BeginConversion, objects
  <2>7. ASSUME NEW f \in Id, f = FileOf(i), Live(f), file[f].current = i, job[i].mine, Told(f)
        PROVE  Told(f)'
    <3>1. rev'[i].md # None /\ rev'[i].source # None
      BY <1>3, <2>1 DEF CopiesMarkdown, CopyMarkdown, IInv, TypeOK, Revision
    <3>2. file'[f].current = i
      BY <2>1, <2>7 DEF CopyMarkdown, SetStatus, Live, IInv, TypeOK, FileRecord
    <3>3. file[f].status \in {"pending", "processing"} => file'[f].status = "ready"
      BY <2>1, <2>7 DEF CopyMarkdown, SetStatus, Live, IInv, TypeOK, FileRecord
    <3>4. file[f].status \notin {"pending", "processing"} => file' = file
      BY <2>1, <2>7 DEF CopyMarkdown
    <3>5. file[f].status \in {"pending", "processing", "ready", "error"}
      BY <2>7 DEF IInv, FilesKnown, FileKnown, Live, TypeOK, FileRecord
    <3>6. QED
      BY <1>1, <2>2, <2>7, <3>1, <3>2, <3>3, <3>4, <3>5, JobTyped DEF Told
  <2>8. QED
    BY <1>1, <2>2, <2>4, <2>6, <2>7, ExtractionKeeps DEF BeginConversion, objects, history,
       Shown, IInv, TypeOK
<1>4. CASE ~Row(i)
  <2>1. Retries(i) /\ UNCHANGED <<rev, file>>
    BY <1>4 DEF BeginConversion
  <2>2. PICK q \in Job : Moves(i, q, "ready")
    BY <1>1, <2>1, RetriesMoves
  <2>3. Marks(i, i)
    BY <2>1 DEF Marks
  <2>4. QED
    BY <1>4, <2>2, <2>3, ExtractionKeeps DEF BeginConversion, objects, history, Shown, IInv,
       TypeOK
<1>5. QED
  BY <1>2, <1>3, <1>4

\* The Markdown is written before a row names it.
LEMMA WriteMarkdownKeeps ==
    ASSUME IInv, NEW i \in Id, WriteMarkdown(i)
    PROVE  IInv'
<1>1. Extracting(i) /\ job[i].tries > 0 /\ job[i].state = "working"
  BY DEF WriteMarkdown, Extracting, IInv, JobsKnown, JobKnown
<1> DEFINE q == [job[i] EXCEPT !.state = "written"]
<1>2. /\ q \in Job /\ q.mine = job[i].mine /\ q.tries = job[i].tries /\ q.state = "written"
      /\ job' = [job EXCEPT ![i] = q]
  BY JobTyped DEF Job, WriteMarkdown
<1>3. markdown' = markdown \cup {i} /\ markdown' \subseteq Id
  BY DEF WriteMarkdown, IInv, TypeOK
<1>4. Moves(i, q, "ready") /\ Marks(i, i)
  BY <1>1, <1>2, <1>3 DEF Moves, Marks, WriteMarkdown
<1>5. ASSUME NEW f \in Id, f = FileOf(i), Live(f), file[f].current = i, Told(f)
      PROVE  Told(f)'
  <2>1. Ingests(i)' = Ingests(i) /\ file' = file /\ rev' = rev
    BY IngestsSame DEF WriteMarkdown
  <2>2. job'[i].state = "written" /\ job'[i].tries = job[i].tries
    BY <1>2 DEF IInv, TypeOK
  <2>3. file[f].status \in {"pending", "processing", "ready", "error"}
    BY <1>5 DEF IInv, FilesKnown, FileKnown, Live, TypeOK, FileRecord
  <2>4. QED
    BY <1>1, <1>5, <2>1, <2>2, <2>3 DEF Told
<1>6. QED
  BY <1>1, <1>2, <1>3, <1>4, <1>5, ExtractionKeeps DEF WriteMarkdown, history, Shown, IInv,
     TypeOK

\* The row names the Markdown and the File is marked ready, in one commit.
LEMMA FinishExtractKeeps ==
    ASSUME IInv, NEW i \in Id, FinishExtract(i)
    PROVE  IInv'
<1>1. Extracting(i) /\ job[i].tries > 0 /\ job[i].state = "written" /\ i \in markdown
  BY DEF FinishExtract, Extracting, IInv, JobsKnown, JobKnown
<1>2. CASE Row(i)
  <2>1. rev' = [rev EXCEPT ![i].md = i] /\ SetStatus(i, "ready") /\ Ends(i, "done")
    BY <1>2 DEF FinishExtract
  <2> DEFINE q == [job[i] EXCEPT !.state = "done", !.mine = FALSE]
  <2>2. q \in Job /\ Moves(i, q, "ready") /\ job'[i].state = "done"
    BY <1>1, <2>1, EndsMoves DEF SetStatus
  <2>3. Marks(i, i)
    BY <1>1, <1>2, <2>1, <2>2 DEF Marks, FinishExtract, objects
  <2>4. ASSUME NEW f \in Id, f = FileOf(i), Live(f), file[f].current = i, job[i].mine
        PROVE  Told(f)'
    <3>1. file'[f].current = i /\ file'[f].status = "ready"
      BY <2>1, <2>4 DEF SetStatus, Live, IInv, TypeOK, FileRecord
    <3>2. rev'[i].md = i /\ i # None
      BY <2>1, FilesAssumption DEF IInv, TypeOK, Revision
    <3>3. QED
      BY <3>1, <3>2 DEF Told
  <2>5. QED
    BY <1>1, <2>2, <2>3, <2>4, ExtractionKeeps DEF FinishExtract, objects, history, Shown, IInv,
       TypeOK
<1>3. CASE ~Row(i)
  <2>1. Retries(i) /\ UNCHANGED <<rev, file>>
    BY <1>3 DEF FinishExtract
  <2>2. PICK q \in Job : Moves(i, q, "ready")
    BY <1>1, <2>1, RetriesMoves
  <2>3. Marks(i, i)
    BY <2>1 DEF Marks
  <2>4. QED
    BY <1>3, <2>2, <2>3, ExtractionKeeps DEF FinishExtract, objects, history, Shown, IInv,
       TypeOK
<1>4. QED
  BY <1>2, <1>3

\* A conversion that raises marks the File, if its revision is the current
\* one.
LEMMA FailExtractKeeps ==
    ASSUME IInv, NEW i \in Id, FailExtract(i)
    PROVE  IInv'
<1>1. Extracting(i) /\ job[i].tries > 0
  BY DEF FailExtract, Extracting, IInv, JobsKnown, JobKnown
<1>2. PICK q \in Job : Moves(i, q, "error")
  BY <1>1, RetriesMoves DEF FailExtract, SetStatus
<1>3. job'[i].state \in {"queued", "dead"} /\ job'[i].tries = job[i].tries
  BY <1>1, RetriesMoves DEF FailExtract, SetStatus
<1>4. Marks(i, i)
  BY DEF Marks, FailExtract
<1>5. ASSUME NEW f \in Id, f = FileOf(i), Live(f), file[f].current = i, job[i].mine
      PROVE  Told(f)'
  <2>1. file'[f].current = i /\ file'[f].status = "error"
    BY <1>5 DEF FailExtract, SetStatus, Live, IInv, TypeOK, FileRecord
  <2>2. QED
    BY <1>1, <1>3, <2>1 DEF Told
<1>6. faults' \in 0 .. MaxFaults
  BY FilesAssumption DEF FailExtract, Fault, IInv, TypeOK
<1>7. QED
  BY <1>1, <1>2, <1>4, <1>5, <1>6, ExtractionKeeps DEF FailExtract, objects, history, Shown,
     IInv, TypeOK

\* An attempt that is cut off leaves the status as it was.
LEMMA CutExtractKeeps ==
    ASSUME IInv, NEW i \in Id, CutExtract(i)
    PROVE  IInv'
<1>1. Extracting(i) /\ job[i].tries > 0
  BY DEF CutExtract, Extracting, IInv, JobsKnown, JobKnown
<1>2. PICK q \in Job : Moves(i, q, "error")
  BY <1>1, RetriesMoves DEF CutExtract
<1>3. job'[i].state \in {"queued", "dead"} /\ job'[i].tries = job[i].tries
  BY <1>1, RetriesMoves DEF CutExtract
<1>4. Marks(i, i)
  BY DEF Marks, CutExtract
<1>5. ASSUME NEW f \in Id, f = FileOf(i), Live(f), file[f].current = i, Told(f)
      PROVE  Told(f)'
  <2>1. Ingests(i)' = Ingests(i) /\ file' = file /\ rev' = rev
    BY IngestsSame DEF CutExtract
  <2>2. file[f].status \in {"pending", "processing", "ready", "error"}
    BY <1>5 DEF IInv, FilesKnown, FileKnown, Live, TypeOK, FileRecord
  <2>3. QED
    BY <1>1, <1>3, <1>5, <2>1, <2>2 DEF Told
<1>6. faults' \in 0 .. MaxFaults
  BY FilesAssumption DEF CutExtract, Fault, IInv, TypeOK
<1>7. QED
  BY <1>1, <1>2, <1>4, <1>5, <1>6, ExtractionKeeps DEF CutExtract, objects, history, Shown,
     IInv, TypeOK

----------------------------------------------------------------------------
(* Deletion and purge                                                       *)

\* Deletion leaves a tombstone and the revisions.
LEMMA DeleteKeeps ==
    ASSUME IInv, NEW f \in Id, Delete(f)
    PROVE  IInv'
<1>1. UNCHANGED <<upload, rev, stage, final, markdown, tx, purging, job, faults, sent, purged,
                  overtaken>>
  BY DEF Delete, objects, history
<1>2. /\ Live(f) /\ Unlocked(f) /\ file' = [file EXCEPT ![f] = [file[f] EXCEPT !.state = "deleted"]]
      /\ file' \in [Id -> FileRecord]
  BY DEF Delete, IInv, TypeOK, FileRecord
<1>3. /\ \A g \in Id \ {f} : file'[g] = file[g]
      /\ file'[f].state = "deleted" /\ file'[f].current = file[f].current
      /\ file'[f].count = file[f].count /\ file'[f].status = file[f].status
  BY <1>2 DEF IInv, TypeOK, FileRecord
<1>4. \A g : RevisionsOf(g)' = RevisionsOf(g)
  BY <1>1 DEF RevisionsOf, FileOf, Row
<1>5. TypeOK'
  BY <1>1, <1>2 DEF IInv, TypeOK
<1>6. Requests' /\ Transactions' /\ TransactionBytes' /\ Recoverable'
  BY <1>1, <1>4 DEF IInv, Requests, RequestKnown, Transactions, TransactionKnown,
     TransactionBytes, BytesOfTransaction, Reserves, Client, Edits, FileOf, Running,
     Recoverable, BytesWait, Waits, SavedAlready
<1>7. LocksKept'
  BY <1>1, <1>2, <1>3 DEF IInv, LocksKept, LockKept, LocksFile, Inserts, Running, FileOf, Live,
     Unlocked, Requests, RequestKnown, Transactions
<1>8. FilesKnown'
  BY <1>1, <1>2, <1>3, <1>4 DEF IInv, FilesKnown, FileKnown, Live
<1>9. OneChain'
  <2> SUFFICES ASSUME NEW g \in Id, file[g].state # "absent"
               PROVE  Chained(g)'
    BY <1>2, <1>3 DEF OneChain, Live
  <2>1. Chained(g)
    BY DEF IInv, OneChain
  <2>2. file'[g].current = file[g].current /\ file'[g].count = file[g].count
    BY <1>3
  <2>3. QED
    BY <1>1, <1>4, <2>1, <2>2 DEF Chained
<1>10. RevisionsKnown' /\ BytesBehindRevisions'
  BY <1>1, <1>4 DEF IInv, RevisionsKnown, RevisionKnown, BytesBehindRevisions, Row, Settled,
     FileOf, Running
<1>11. JobsKnown'
  <2> SUFFICES ASSUME NEW i \in Id
               PROVE  JobKnown(i)'
    BY DEF JobsKnown
  <2>1. JobKnown(i) /\ Settled(i)' = Settled(i) /\ FileOf(i)' = FileOf(i)
    BY <1>1 DEF IInv, JobsKnown, Settled, FileOf, Running
  <2>2. Extracting(i) => FileOf(i) \in Id
    BY <2>1 DEF JobKnown, Extracting, NoJob, Settled, IInv, Requests, RequestKnown
  <2>3. QED
    BY <1>1, <1>2, <1>3, <2>1, <2>2 DEF JobKnown, Extracting, Live
<1>12. StatusTold'
  <2> SUFFICES ASSUME NEW g \in Id, Live(g)', g \notin overtaken
               PROVE  Told(g)'
    BY <1>1 DEF StatusTold
  <2>1. file'[g] = file[g] /\ Told(g)
    BY <1>3 DEF Live, IInv, StatusTold
  <2>2. Ingests(file[g].current)' = Ingests(file[g].current)
    BY <1>1, <2>1 DEF Ingests, IsDocument, FileOf
  <2>3. QED
    BY <1>1, <2>1, <2>2 DEF Told
<1>13. QED
  BY <1>5, <1>6, <1>7, <1>8, <1>9, <1>10, <1>11, <1>12 DEF IInv

\* What BeginPurge and AbortPurge leave alone.
LEMMA PurgeFrame ==
    ASSUME IInv, UNCHANGED <<upload, rev, file, tx, job, overtaken>>
    PROVE  /\ \A g : RevisionsOf(g)' = RevisionsOf(g)
           /\ OneChain' /\ RevisionsKnown' /\ StatusTold' /\ Transactions'
<1>1. \A g : RevisionsOf(g)' = RevisionsOf(g)
  BY DEF RevisionsOf, FileOf, Row
<1>2. Transactions'
  BY DEF IInv, Transactions, TransactionKnown, Reserves, Client, Edits, Running
<1>3. OneChain'
  BY <1>1 DEF IInv, OneChain, Chained
<1>4. RevisionsKnown'
  BY <1>1 DEF IInv, RevisionsKnown, RevisionKnown, Row, Settled, FileOf, Running
<1>5. StatusTold'
  BY DEF IInv, StatusTold, Told, Live, Ingests, IsDocument, FileOf
<1>6. QED
  BY <1>1, <1>2, <1>3, <1>4, <1>5

\* The objects a purge deletes belong to committed revisions of the File.
LEMMA KeysOfRevisions ==
    ASSUME IInv, NEW f \in Id
    PROVE  /\ \A k \in Keys(f) : k \in RevisionsOf(f)
           /\ \A m \in MarkdownKeys(f) : m \in Id /\ FileOf(m) = f /\ job[m].state = "done"
<1>1. ASSUME NEW k \in Keys(f) PROVE k \in RevisionsOf(f)
  <2>1. PICK x \in RevisionsOf(f) : k = rev[x].key
    BY DEF Keys
  <2>2. QED
    BY <2>1 DEF RevisionsOf, IInv, RevisionsKnown, RevisionKnown
<1>2. ASSUME NEW m \in MarkdownKeys(f)
      PROVE  m \in Id /\ FileOf(m) = f /\ job[m].state = "done"
  <2>1. PICK x \in RevisionsOf(f) : m = rev[x].md /\ m # None
    BY DEF MarkdownKeys
  <2>2. QED
    BY <2>1 DEF RevisionsOf, IInv, RevisionsKnown, RevisionKnown, TypeOK, Revision
<1>3. QED
  BY <1>1, <1>2

\* A purge deletes the objects under the row lock, before its commit
\* (purge_file).
LEMMA BeginPurgeKeeps ==
    ASSUME IInv, NEW f \in Id, BeginPurge(f)
    PROVE  IInv'
<1>1. /\ UNCHANGED <<upload, rev, file, stage, tx, job, sent, overtaken>>
      /\ purging' = purging \cup {f} /\ purged' = purged \cup {f}
      /\ file[f].state # "absent" /\ Unlocked(f)
      /\ markdown' = markdown \ MarkdownKeys(f)
  BY DEF BeginPurge
<1>2. \A j \in Id \ Keys(f) : final'[j] = final[j]
  BY DEF BeginPurge
<1>3. TypeOK'
  <2>1. final' \in [Id -> Hash]
    BY DEF BeginPurge, IInv, TypeOK, Hash
  <2>2. faults' \in 0 .. MaxFaults
    BY FilesAssumption DEF BeginPurge, IInv, TypeOK, Fault
  <2>3. QED
    BY <1>1, <2>1, <2>2 DEF IInv, TypeOK
<1>4. /\ \A g : RevisionsOf(g)' = RevisionsOf(g)
      /\ OneChain' /\ RevisionsKnown' /\ StatusTold' /\ Transactions'
  BY <1>1, PurgeFrame
<1>5. \A j \in Id : ~Settled(j) => final'[j] = final[j]
  BY <1>2, KeysOfRevisions DEF RevisionsOf, IInv, RevisionsKnown, RevisionKnown
<1>6. Requests'
  BY <1>1 DEF IInv, Requests, RequestKnown, Reserves, Client, FileOf, Running
<1>7. TransactionBytes'
  BY <1>1, <1>5 DEF IInv, TransactionBytes, BytesOfTransaction, Settled, Running
<1>8. LocksKept'
  BY <1>1 DEF IInv, LocksKept, LockKept, LocksFile, Inserts, Running, FileOf, Live, Unlocked
<1>9. FilesKnown'
  BY <1>1, <1>4 DEF IInv, FilesKnown, FileKnown
<1>10. BytesBehindRevisions'
  <2> SUFFICES ASSUME NEW j \in Id, Row(j), FileOf(j) \notin purged, FileOf(j) # f
               PROVE  /\ final'[rev[j].key] = rev[j].hash
                      /\ rev[j].md # None => rev[j].md \in markdown'
    BY <1>1 DEF BytesBehindRevisions, Row, FileOf
  <2>1. /\ rev[j].key \in Id /\ FileOf(rev[j].key) = FileOf(j)
        /\ rev[j].md # None => FileOf(rev[j].md) = FileOf(j)
    BY DEF IInv, RevisionsKnown, RevisionKnown, RevisionsOf
  <2>2. rev[j].key \notin Keys(f)
    BY <2>1, KeysOfRevisions DEF RevisionsOf
  <2>3. rev[j].md # None => rev[j].md \notin MarkdownKeys(f)
    BY <2>1, KeysOfRevisions
  <2>4. QED
    BY <1>1, <1>2, <2>1, <2>2, <2>3 DEF IInv, BytesBehindRevisions
<1>11. JobsKnown'
  BY <1>1, KeysOfRevisions DEF IInv, JobsKnown, JobKnown, Settled, Extracting, FileOf, Running
<1>12. Recoverable'
  BY <1>1, <1>4, <1>5 DEF IInv, Recoverable, BytesWait, Waits, SavedAlready, Client, FileOf,
     Settled
<1>13. QED
  BY <1>3, <1>4, <1>6, <1>7, <1>8, <1>9, <1>10, <1>11, <1>12 DEF IInv

\* A purge that is rolled back keeps its rows; the File counts as purged.
LEMMA AbortPurgeKeeps ==
    ASSUME IInv, NEW f \in Id, AbortPurge(f)
    PROVE  IInv'
<1>1. /\ UNCHANGED <<upload, rev, file, stage, final, markdown, tx, job, sent, purged, overtaken>>
      /\ purging' = purging \ {f}
  BY DEF AbortPurge, objects, history
<1>2. TypeOK'
  BY <1>1, FilesAssumption DEF AbortPurge, IInv, TypeOK, Fault
<1>3. /\ \A g : RevisionsOf(g)' = RevisionsOf(g)
      /\ OneChain' /\ RevisionsKnown' /\ StatusTold' /\ Transactions'
  BY <1>1, PurgeFrame
<1>4. Requests' /\ TransactionBytes'
  BY <1>1 DEF IInv, Requests, RequestKnown, Reserves, Client, FileOf, Running, TransactionBytes,
     BytesOfTransaction
<1>5. LocksKept'
  BY <1>1 DEF IInv, LocksKept, LockKept, LocksFile, Inserts, Running, FileOf, Live
<1>6. FilesKnown' /\ BytesBehindRevisions'
  BY <1>1, <1>3 DEF IInv, FilesKnown, FileKnown, BytesBehindRevisions, Row, FileOf
<1>7. JobsKnown'
  BY <1>1 DEF IInv, JobsKnown, JobKnown, Settled, Extracting, FileOf, Running
<1>8. Recoverable'
  BY <1>1, <1>3 DEF IInv, Recoverable, BytesWait, Waits, SavedAlready, Client, FileOf
<1>9. QED
  BY <1>2, <1>3, <1>4, <1>5, <1>6, <1>7, <1>8 DEF IInv

\* The rows go with the commit, all those of one File and no other.
LEMMA CommitPurgeKeeps ==
    ASSUME IInv, NEW f \in Id, CommitPurge(f)
    PROVE  IInv'
<1>1. /\ UNCHANGED <<upload, stage, final, markdown, tx, job, faults, overtaken>>
      /\ purging' = purging \ {f} /\ purged' = purged \ {f} /\ f \in purging
      /\ file' = [file EXCEPT ![f] = NoFile]
      /\ rev' = [i \in Id |-> IF FileOf(i) = f THEN NoRevision ELSE rev[i]]
      /\ sent' = [i \in Id |-> IF FileOf(i) = f THEN None ELSE sent[i]]
  BY DEF CommitPurge, objects
<1>2. /\ file'[f] = NoFile /\ \A g \in Id \ {f} : file'[g] = file[g]
      /\ \A i \in Id : Row(i)' <=> (Row(i) /\ FileOf(i) # f)
      /\ \A i \in Id : FileOf(i) # f => rev'[i] = rev[i] /\ sent'[i] = sent[i]
      /\ \A i \in Id : FileOf(i) = f => sent'[i] = None
  BY <1>1 DEF Row, IInv, TypeOK
<1>3. RevisionsOf(f)' = {} /\ \A g : g # f => RevisionsOf(g)' = RevisionsOf(g)
  BY <1>1, <1>2 DEF RevisionsOf, FileOf
<1>4. TypeOK'
  <2>1. Cardinality(Id) \in Nat
    BY FS_CardinalityType, FilesAssumption
  <2>2. NoFile \in FileRecord /\ NoRevision \in Revision
    BY <2>1 DEF NoFile, NoRevision, FileRecord, Revision, Count, Hash
  <2>3. QED
    BY <1>1, <2>2 DEF IInv, TypeOK, Hash
<1>5. Requests' /\ Transactions' /\ TransactionBytes'
  BY <1>1, <1>2 DEF IInv, Requests, RequestKnown, Transactions, TransactionKnown,
     TransactionBytes, BytesOfTransaction, Reserves, Client, Edits, FileOf, Running
<1>6. LocksKept'
  <2>1. \A i \in Id : LocksFile(i) => FileOf(i) # f
    BY <1>1 DEF IInv, LocksKept, LockKept
  <2>2. \A i \in Id : Inserts(i) => FileOf(i) \in Id
    BY DEF Inserts, Running, IInv, Requests, RequestKnown
  <2>3. \A i \in Id : LocksFile(i) => FileOf(i) \in Id
    BY DEF LocksFile, IInv, Requests, RequestKnown
  <2>4. QED
    BY <1>1, <1>2, <2>1, <2>2, <2>3 DEF IInv, LocksKept, LockKept, LocksFile, Inserts, Running,
       FileOf, Live, NoFile
<1>7. FilesKnown'
  BY <1>1, <1>2, <1>3 DEF IInv, FilesKnown, FileKnown, NoFile
<1>8. OneChain'
  <2> SUFFICES ASSUME NEW g \in Id, g # f, file[g].state # "absent"
               PROVE  Chained(g)'
    BY <1>2 DEF OneChain, NoFile
  <2>1. Chained(g) /\ file'[g] = file[g] /\ file[g].current \in RevisionsOf(g)
    BY <1>2 DEF IInv, OneChain, FilesKnown, FileKnown
  <2>2. \A i \in RevisionsOf(g) : rev'[i] = rev[i]
    BY <1>2 DEF RevisionsOf
  <2>3. RevisionsOf(g)' = RevisionsOf(g)
    BY <1>3
  <2>4. {rev'[i].number : i \in RevisionsOf(g)} = {rev[i].number : i \in RevisionsOf(g)}
    BY <2>2
  <2>5. \A i \in RevisionsOf(g) :
           /\ IF rev'[i].number = 1 THEN rev'[i].follows = None
              ELSE /\ rev'[i].follows \in RevisionsOf(g)
                   /\ rev'[rev'[i].follows].number = rev'[i].number - 1
           /\ upload[i].kind \in {"edit", "restore"} => rev'[i].follows = upload[i].base
    BY <2>1, <2>2 DEF Chained
  <2>6. rev'[file'[g].current].number = file[g].count
    BY <2>1, <2>2 DEF Chained
  <2>7. QED
    BY <1>1, <2>1, <2>3, <2>4, <2>5, <2>6 DEF Chained
<1>9. RevisionsKnown'
  <2> SUFFICES ASSUME NEW i \in Id, Row(i), FileOf(i) # f
               PROVE  RevisionKnown(i)'
    BY <1>2 DEF RevisionsKnown, RevisionKnown
  <2>1. RevisionKnown(i) /\ rev'[i] = rev[i] /\ RevisionsOf(FileOf(i))' = RevisionsOf(FileOf(i))
        /\ FileOf(i)' = FileOf(i) /\ Settled(i)' = Settled(i)
    BY <1>1, <1>2, <1>3 DEF IInv, RevisionsKnown, FileOf, Settled, Running
  <2>2. rev'[rev[i].key] = rev[rev[i].key]
    BY <1>2, <2>1 DEF RevisionKnown, RevisionsOf
  <2>3. QED
    BY <1>1, <1>2, <1>3, <2>1, <2>2 DEF RevisionKnown, FileOf
<1>10. BytesBehindRevisions'
  BY <1>1, <1>2 DEF IInv, BytesBehindRevisions, FileOf
<1>11. JobsKnown'
  <2> SUFFICES ASSUME NEW i \in Id
               PROVE  JobKnown(i)'
    BY DEF JobsKnown
  <2>1. JobKnown(i) /\ Settled(i)' = Settled(i) /\ FileOf(i)' = FileOf(i)
    BY <1>1 DEF IInv, JobsKnown, Settled, FileOf, Running
  <2>2. Extracting(i) => FileOf(i) \in Id
    BY <2>1 DEF JobKnown, Extracting, NoJob, Settled, IInv, Requests, RequestKnown
  <2>3. i # None
    BY FilesAssumption
  <2>4. QED
    BY <1>1, <1>2, <2>1, <2>2, <2>3 DEF JobKnown, Extracting, NoFile
<1>12. StatusTold'
  <2> SUFFICES ASSUME NEW g \in Id, g # f, Live(g), g \notin overtaken
               PROVE  Told(g)'
    BY <1>1, <1>2 DEF StatusTold, Live, NoFile
  <2>1. Told(g) /\ file'[g] = file[g] /\ file[g].current \in RevisionsOf(g)
    BY <1>2 DEF IInv, StatusTold, FilesKnown, FileKnown, Live
  <2>2. rev'[file[g].current] = rev[file[g].current]
    BY <1>2, <2>1 DEF RevisionsOf
  <2>3. Ingests(file[g].current)' = Ingests(file[g].current)
    BY <1>1, <2>1 DEF Ingests, IsDocument, FileOf
  <2>4. QED
    BY <1>1, <2>1, <2>2, <2>3 DEF Told
<1>13. Recoverable'
  <2> SUFFICES ASSUME NEW i \in Id, FileOf(i) # f
               PROVE  BytesWait(i)'
    BY <1>1, <1>2 DEF Recoverable, BytesWait, Waits, FileOf
  <2>1. BytesWait(i) /\ sent'[i] = sent[i] /\ RevisionsOf(FileOf(i))' = RevisionsOf(FileOf(i))
    BY <1>1, <1>2, <1>3 DEF IInv, Recoverable, FileOf
  <2>2. FileOf(i)' = FileOf(i) /\ \A j \in RevisionsOf(FileOf(i)) : rev'[j] = rev[j]
    BY <1>1, <1>2 DEF FileOf, RevisionsOf
  <2>3. QED
    BY <1>1, <2>1, <2>2 DEF BytesWait, Waits, SavedAlready, Client, RevisionsOf, FileOf, Row
<1>14. QED
  BY <1>4, <1>5, <1>6, <1>7, <1>8, <1>9, <1>10, <1>11, <1>12, <1>13 DEF IInv

----------------------------------------------------------------------------
(* Commits                                                                  *)

\* What a request that is about to commit a revision has ensured.
Addable(i, source, t) ==
    /\ ~Settled(i) /\ FileOf(i) \in Id /\ FileOf(i) \notin purging
    /\ \/ /\ Live(FileOf(i)) /\ t.current = file[FileOf(i)].current
          /\ t.count = file[FileOf(i)].count
       \/ file[FileOf(i)].state = "absent" /\ t.current = None /\ t.count = 0
    /\ t.hash \in Hash
    /\ source = None => final[i] = t.hash
    /\ source # None => source \in RevisionsOf(FileOf(i)) /\ t.hash = rev[source].hash
    /\ upload[i].kind \in {"edit", "restore"} => t.current = upload[i].base
    /\ \A j \in Id \ {i} : LocksFile(j) \/ Inserts(j) => FileOf(j) # FileOf(i)

\* The end of its transaction.
Commits(i, s) ==
    /\ upload' = [upload EXCEPT ![i].state = s]
    /\ s = "consumed" => upload[i].state = "pending"
    /\ s = "made" => upload[i].state \in {"open", "made"}
    /\ \A j \in Id \ {i} : tx'[j] = tx[j]
    /\ tx'[i].pc \in {"idle", "over"}
    /\ tx' \in [Id -> Transaction]
    /\ UNCHANGED <<objects, purging, faults, sent, purged>>

\* A revision committed under the row lock is the next one of its File, and
\* becomes its head (add_file_revision).
LEMMA AddRevisionKeeps ==
    ASSUME IInv, NEW i \in Id, NEW source \in Id \cup {None}, NEW t,
           NEW s \in {"consumed", "made"}, NEW f \in Id, f = FileOf(i),
           Addable(i, source, t), AddRevision(i, source, t), Commits(i, s)
    PROVE  IInv'
<1> DEFINE n == file[f].count
<1>1. /\ f \in Id /\ ~Settled(i) /\ ~Row(i) /\ job[i] = NoJob
      /\ i \notin RevisionsOf(f)
  BY DEF Addable, IInv, RevisionsKnown, RevisionKnown, JobsKnown, JobKnown, RevisionsOf
<1>2. /\ UNCHANGED <<stage, final, markdown, purging, faults, sent, purged>>
      /\ upload'[i] = [upload[i] EXCEPT !.state = s]
      /\ upload'[i].state = s /\ upload'[i].kind = upload[i].kind
      /\ upload'[i].file = upload[i].file /\ upload'[i].base = upload[i].base
      /\ upload' \in [Id -> UploadRecord]
      /\ \A j \in Id \ {i} : upload'[j] = upload[j] /\ tx'[j] = tx[j]
  <2>1. upload[i] \in UploadRecord
    BY DEF IInv, TypeOK
  <2>2. [upload[i] EXCEPT !.state = s] \in UploadRecord
    BY <2>1 DEF UploadRecord
  <2>3. QED
    BY <2>1, <2>2 DEF Commits, IInv, TypeOK, UploadRecord, objects
<1>3. tx'[i].pc \in {"idle", "over"}
  BY DEF Commits
<1>4. /\ \A j \in Id : FileOf(j)' = FileOf(j) /\ upload'[j].kind = upload[j].kind
      /\ \A j \in Id : upload'[j].base = upload[j].base
      /\ \A j \in Id : upload[j].state = "consumed" => upload'[j].state = "consumed"
      /\ \A j \in Id \ {i} : Settled(j)' = Settled(j) /\ Running(j)' = Running(j)
      /\ \A j \in Id \ {i} : LocksFile(j)' = LocksFile(j) /\ Inserts(j)' = Inserts(j)
      /\ ~Running(i)' /\ ~LocksFile(i)' /\ ~Inserts(i)' /\ Settled(i)'
  BY <1>2, <1>3 DEF FileOf, Settled, Running, LocksFile, Inserts, Commits
<1>5. /\ Cardinality(Id) \in Nat /\ n \in Nat /\ t.count = n
      /\ n = Cardinality(RevisionsOf(f)) /\ n + 1 \in Count
      /\ IsFiniteSet(RevisionsOf(f))
      /\ Cardinality(RevisionsOf(f) \cup {i}) = n + 1
  <2>1. Cardinality(Id) \in Nat
    BY FS_CardinalityType, FilesAssumption
  <2>2. file[f] \in FileRecord
    BY <1>1 DEF IInv, TypeOK
  <2>3. n \in Nat /\ t.count = n
    BY <1>1, <2>1, <2>2 DEF FileRecord, Count, Addable, IInv, FilesKnown, FileKnown, NoFile
  <2>4. n = Cardinality(RevisionsOf(f))
    <3>1. CASE file[f].state = "absent"
      <4>1. RevisionsOf(f) = {} /\ n = 0
        BY <3>1 DEF IInv, FilesKnown, FileKnown, NoFile
      <4>2. QED
        BY <4>1, FS_EmptySet
    <3>2. CASE file[f].state # "absent"
      BY <1>1, <3>2 DEF IInv, OneChain, Chained
    <3>3. QED
      BY <3>1, <3>2
  <2>5. IsFiniteSet(RevisionsOf(f)) /\ RevisionsOf(f) \subseteq Id
    BY FS_Subset, FilesAssumption DEF RevisionsOf
  <2>6. Cardinality(RevisionsOf(f) \cup {i}) = n + 1
    BY <1>1, <2>4, <2>5, FS_AddElement
  <2>7. Cardinality(RevisionsOf(f) \cup {i}) <= Cardinality(Id)
    BY <2>5, FS_Subset, FilesAssumption
  <2>8. QED
    BY <2>1, <2>3, <2>4, <2>5, <2>6, <2>7 DEF Count
<1>6. /\ rev'[i] = [number |-> n + 1, hash |-> t.hash, md |-> None,
                    key |-> IF source = None THEN i ELSE rev[source].key,
                    follows |-> t.current, source |-> source]
      /\ \A j \in Id \ {i} : rev'[j] = rev[j]
      /\ file'[f] = [state |-> "live", current |-> i, count |-> n + 1,
                     status |-> IF Ingests(i) THEN "pending" ELSE "ready"]
      /\ \A g \in Id \ {f} : file'[g] = file[g]
  BY <1>5 DEF AddRevision, IInv, TypeOK
<1>a. /\ Ingests(i) => job'[i].state = "queued" /\ job'[i].tries = 0
      /\ ~Ingests(i) => job'[i] = NoJob
      /\ \A j \in Id \ {i} : job'[j] = job[j]
      /\ job'[i].state \in {"queued", "none"}
      /\ job' \in [Id -> Job]
  <2>1. job \in [Id -> Job]
    BY DEF IInv, TypeOK
  <2>2. CASE Ingests(i)
    <3> DEFINE q == [job[i] EXCEPT !.state = "queued"]
    <3>1. job' = [job EXCEPT ![i] = q]
      BY <2>2 DEF AddRevision
    <3>2. q.state = "queued" /\ q.tries = job[i].tries /\ q \in Job
      BY <2>1 DEF Job
    <3>3. job[i].tries = 0
      BY <1>1 DEF NoJob
    <3> HIDE DEF q
    <3>4. QED
      BY <2>1, <2>2, <3>1, <3>2, <3>3
  <2>3. CASE ~Ingests(i)
    BY <1>1, <2>1, <2>3 DEF AddRevision, NoJob
  <2>4. QED
    BY <2>2, <2>3
<1>b. /\ overtaken \subseteq overtaken' /\ overtaken' \subseteq overtaken \cup {f}
      /\ \A j \in Id : FileOf(j) = f /\ Extracting(j) => f \in overtaken'
  BY DEF AddRevision, Extracting
<1>7. /\ Row(i)' /\ \A j \in Id \ {i} : Row(j)' = Row(j)
      /\ RevisionsOf(f)' = RevisionsOf(f) \cup {i}
      /\ \A g : g # f => RevisionsOf(g)' = RevisionsOf(g)
  <2>1. Row(i)'
    BY <1>5, <1>6 DEF Row, NoRevision
  <2>2. \A j \in Id \ {i} : Row(j)' = Row(j)
    BY <1>6 DEF Row
  <2>3. \A j \in Id : FileOf(j)' = FileOf(j)
    BY <1>4
  <2>4. QED
    BY <1>1, <2>1, <2>2, <2>3 DEF RevisionsOf
<1>8. TypeOK'
  <2>1. t.current \in Id \cup {None}
    BY <1>1 DEF Addable, IInv, FilesKnown, FileKnown, RevisionsOf, Live
  <2>2. source # None => rev[source].key \in Id
    BY DEF Addable, RevisionsOf, IInv, RevisionsKnown, RevisionKnown
  <2>3. rev'[i] \in Revision
    BY <1>5, <1>6, <2>1, <2>2 DEF Revision, Addable
  <2>4. file'[f] \in FileRecord
    BY <1>5, <1>6 DEF FileRecord
  <2>5. rev' \in [Id -> Revision] /\ file' \in [Id -> FileRecord]
    BY <1>6, <2>3, <2>4 DEF AddRevision, IInv, TypeOK
  <2>6. QED
    BY <1>1, <1>2, <1>a, <1>b, <2>5 DEF IInv, TypeOK, Commits
<1>9. Requests'
  <2> SUFFICES ASSUME NEW j \in Id PROVE RequestKnown(j)'
    BY DEF Requests
  <2>1. RequestKnown(j)
    BY DEF IInv, Requests
  <2>2. CASE j = i
    BY <1>1, <1>2, <1>4, <2>1, <2>2 DEF RequestKnown, Reserves, Client, Commits, FileOf
  <2>3. CASE j # i
    BY <1>2, <1>4, <2>1, <2>3 DEF RequestKnown, Reserves, Client
  <2>4. QED
    BY <2>2, <2>3
<1>10. Transactions' /\ TransactionBytes'
  BY <1>2, <1>3, <1>4 DEF IInv, Transactions, TransactionKnown, TransactionBytes,
     BytesOfTransaction, Reserves, Client, Edits, Running
<1>11. LocksKept'
  <2>1. \A j \in Id \ {i} : LocksFile(j) \/ Inserts(j) => FileOf(j) # f /\ FileOf(j) \in Id
    BY DEF Addable, LocksFile, Inserts, Running, IInv, Requests, RequestKnown
  <2>2. QED
    BY <1>2, <1>4, <1>6, <2>1 DEF IInv, LocksKept, LockKept, Live
<1>12. FilesKnown'
  <2> SUFFICES ASSUME NEW g \in Id PROVE FileKnown(g)'
    BY DEF FilesKnown
  <2>1. FileKnown(g)
    BY DEF IInv, FilesKnown
  <2>2. CASE g = f
    <3>1. upload'[f].state = "consumed"
      BY <1>1, <1>2, <1>4 DEF IInv, Requests, RequestKnown, Commits, Settled, FileOf
    <3>2. file'[f].state = "live" /\ file'[f].current = i /\ file'[f].status # "none"
      BY <1>6
    <3>3. QED
      BY <1>2, <1>7, <2>1, <2>2, <3>1, <3>2 DEF FileKnown
  <2>3. CASE g # f
    BY <1>2, <1>4, <1>6, <1>7, <2>1, <2>3 DEF FileKnown
  <2>4. QED
    BY <2>2, <2>3
<1>13. OneChain'
  <2> SUFFICES ASSUME NEW g \in Id, file'[g].state # "absent" PROVE Chained(g)'
    BY DEF OneChain
  <2>1. CASE g # f
    <3>1. Chained(g) /\ file'[g] = file[g] /\ file[g].current \in RevisionsOf(g)
      BY <1>6, <2>1 DEF IInv, OneChain, FilesKnown, FileKnown
    <3>2. \A j \in RevisionsOf(g) : rev'[j] = rev[j] /\ j \in Id
      BY <1>1, <1>6, <2>1 DEF RevisionsOf
    <3>3. RevisionsOf(g)' = RevisionsOf(g)
      BY <1>7, <2>1
    <3>4. {rev'[j].number : j \in RevisionsOf(g)} = {rev[j].number : j \in RevisionsOf(g)}
      BY <3>2
    <3>5. \A j \in RevisionsOf(g) :
             /\ IF rev'[j].number = 1 THEN rev'[j].follows = None
                ELSE /\ rev'[j].follows \in RevisionsOf(g)
                     /\ rev'[rev'[j].follows].number = rev'[j].number - 1
             /\ upload'[j].kind \in {"edit", "restore"} => rev'[j].follows = upload'[j].base
      BY <1>4, <3>1, <3>2 DEF Chained
    <3>6. rev'[file'[g].current].number = file[g].count
      BY <3>1, <3>2 DEF Chained
    <3>7. QED
      BY <3>1, <3>3, <3>4, <3>5, <3>6 DEF Chained
  <2>2. CASE g = f
    <3>1. /\ {rev[j].number : j \in RevisionsOf(f)} = 1 .. n
          /\ \A j \in RevisionsOf(f) :
                /\ IF rev[j].number = 1 THEN rev[j].follows = None
                   ELSE /\ rev[j].follows \in RevisionsOf(f)
                        /\ rev[rev[j].follows].number = rev[j].number - 1
                /\ upload[j].kind \in {"edit", "restore"} => rev[j].follows = upload[j].base
      <4>1. CASE file[f].state = "absent"
        <5>1. RevisionsOf(f) = {} /\ n = 0
          BY <1>1, <4>1 DEF IInv, FilesKnown, FileKnown, NoFile
        <5>2. QED
          BY <5>1
      <4>2. CASE file[f].state # "absent"
        BY <1>1, <4>2 DEF IInv, OneChain, Chained
      <4>3. QED
        BY <4>1, <4>2
    <3>2. \A j \in RevisionsOf(f) : rev'[j] = rev[j] /\ j \in Id \ {i}
      BY <1>1, <1>6 DEF RevisionsOf
    <3>3. rev'[i].number = n + 1
      BY <1>6
    <3>4. {rev'[j].number : j \in RevisionsOf(f) \cup {i}} = 1 .. n + 1
      <4>1. {rev'[j].number : j \in RevisionsOf(f) \cup {i}}
              = {rev[j].number : j \in RevisionsOf(f)} \cup {n + 1}
        BY <3>2, <3>3
      <4>2. (1 .. n) \cup {n + 1} = 1 .. n + 1
        BY <1>5
      <4>3. QED
        BY <3>1, <4>1, <4>2
    <3>5. /\ IF rev'[i].number = 1 THEN rev'[i].follows = None
             ELSE /\ rev'[i].follows \in RevisionsOf(f)
                  /\ rev[rev'[i].follows].number = rev'[i].number - 1
          /\ upload[i].kind \in {"edit", "restore"} => rev'[i].follows = upload[i].base
      <4>1. rev'[i].follows = t.current
        BY <1>6
      <4>2. CASE file[f].state = "absent"
        <5>1. t.current = None /\ n = 0
          BY <1>1, <1>5, <4>2 DEF Addable, Live
        <5>2. QED
          BY <3>3, <4>1, <5>1 DEF Addable
      <4>3. CASE file[f].state # "absent"
        <5>1. t.current = file[f].current /\ file[f].current \in RevisionsOf(f)
              /\ rev[file[f].current].number = n
          BY <1>1, <4>3 DEF Addable, IInv, FilesKnown, FileKnown, OneChain, Chained
        <5>2. n # 0
          BY <1>5, <5>1, FS_EmptySet
        <5>3. QED
          BY <1>5, <3>3, <4>1, <5>1, <5>2 DEF Addable
      <4>4. QED
        BY <4>2, <4>3
    <3>6. \A j \in RevisionsOf(f) \cup {i} :
             /\ IF rev'[j].number = 1 THEN rev'[j].follows = None
                ELSE /\ rev'[j].follows \in RevisionsOf(f) \cup {i}
                     /\ rev'[rev'[j].follows].number = rev'[j].number - 1
             /\ upload'[j].kind \in {"edit", "restore"} => rev'[j].follows = upload'[j].base
      BY <1>4, <3>1, <3>2, <3>5
    <3>7. file'[f].current = i /\ file'[f].count = n + 1
      BY <1>6
    <3>8. QED
      BY <1>5, <1>7, <2>2, <3>3, <3>4, <3>6, <3>7 DEF Chained
  <2>3. QED
    BY <2>1, <2>2
<1>14. RevisionsKnown'
  <2> SUFFICES ASSUME NEW j \in Id, Row(j)' PROVE RevisionKnown(j)'
    BY DEF RevisionsKnown, RevisionKnown
  <2>1. CASE j # i
    <3>1. /\ Row(j) /\ RevisionKnown(j) /\ rev'[j] = rev[j]
          /\ FileOf(j)' = FileOf(j) /\ Settled(j)'
      BY <1>4, <1>6, <1>7, <2>1 DEF IInv, RevisionsKnown, RevisionKnown
    <3>2. /\ rev[j].key \in RevisionsOf(FileOf(j)) /\ rev[j].key # i
          /\ rev'[rev[j].key] = rev[rev[j].key]
      BY <1>1, <1>6, <3>1 DEF RevisionKnown, RevisionsOf
    <3>3. \A g : RevisionsOf(g) \subseteq RevisionsOf(g)'
      BY <1>7
    <3>4. rev[j].md # None => job'[rev[j].md].state = "done" /\ FileOf(rev[j].md) = FileOf(j)
      <4> SUFFICES ASSUME rev[j].md # None
                   PROVE  job'[rev[j].md].state = "done" /\ FileOf(rev[j].md) = FileOf(j)
        OBVIOUS
      <4>1. rev[j].md \in Id /\ job[rev[j].md].state = "done" /\ FileOf(rev[j].md) = FileOf(j)
        BY <3>1 DEF RevisionKnown, IInv, TypeOK, Revision
      <4>2. rev[j].md # i
        BY <1>1, <4>1 DEF NoJob
      <4>3. QED
        BY <1>a, <4>1, <4>2
    <3>5. rev[j].md # None => upload'[rev[j].md].file = FileOf(j)
      BY <1>4, <3>4 DEF FileOf, IInv, TypeOK, Revision
    <3>6. QED
      BY <3>1, <3>2, <3>3, <3>4, <3>5 DEF RevisionKnown, FileOf
  <2>2. CASE j = i
    <3>1. /\ FileOf(i)' = f /\ Settled(i)' /\ rev'[i].md = None /\ rev'[i].source = source
          /\ rev'[i].hash = t.hash
          /\ rev'[i].key = IF source = None THEN i ELSE rev[source].key
      BY <1>4, <1>6
    <3>2. CASE source = None
      BY <1>7, <2>2, <3>1, <3>2 DEF RevisionKnown, FileOf
    <3>3. CASE source # None
      <4>1. source \in Id /\ Row(source) /\ FileOf(source) = f /\ t.hash = rev[source].hash
            /\ source \in RevisionsOf(f)
        BY <3>3 DEF Addable, RevisionsOf
      <4>2. /\ rev[source].key \in RevisionsOf(f) /\ rev[source].key \in Id \ {i}
            /\ rev[rev[source].key].key = rev[source].key
            /\ rev[rev[source].key].hash = rev[source].hash
        BY <1>1, <4>1 DEF IInv, RevisionsKnown, RevisionKnown, RevisionsOf
      <4>3. rev'[rev[source].key] = rev[rev[source].key]
        BY <1>6, <4>2
      <4>4. QED
        BY <1>7, <2>2, <3>1, <3>3, <4>1, <4>2, <4>3 DEF RevisionKnown, FileOf
    <3>4. QED
      BY <3>2, <3>3
  <2>3. QED
    BY <2>1, <2>2
<1>15. BytesBehindRevisions'
  <2> SUFFICES ASSUME NEW j \in Id, Row(j)', FileOf(j) \notin purged
               PROVE  /\ final[rev'[j].key] = rev'[j].hash
                      /\ rev'[j].md # None => rev'[j].md \in markdown
    BY <1>2, <1>4 DEF BytesBehindRevisions
  <2>1. CASE j # i
    BY <1>6, <1>7, <2>1 DEF IInv, BytesBehindRevisions
  <2>2. CASE j = i /\ source = None
    BY <1>6, <2>2 DEF Addable
  <2>3. CASE j = i /\ source # None
    <3>1. source \in Id /\ Row(source) /\ FileOf(source) = f /\ t.hash = rev[source].hash
      BY <2>3 DEF Addable, RevisionsOf
    <3>2. final[rev[source].key] = t.hash
      BY <2>3, <3>1 DEF IInv, BytesBehindRevisions
    <3>3. QED
      BY <1>6, <2>3, <3>2
  <2>4. QED
    BY <2>1, <2>2, <2>3
<1>16. JobsKnown'
  <2> SUFFICES ASSUME NEW j \in Id PROVE JobKnown(j)'
    BY DEF JobsKnown
  <2>1. CASE j = i
    BY <1>4, <1>a, <2>1, FilesAssumption DEF JobKnown, Extracting, NoJob
  <2>2. CASE j # i
    <3>1. /\ JobKnown(j) /\ job'[j] = job[j] /\ Settled(j)' = Settled(j)
          /\ FileOf(j)' = FileOf(j)
      BY <1>4, <1>a, <2>2 DEF IInv, JobsKnown
    <3>2. Extracting(j) => FileOf(j) \in Id
      BY <3>1 DEF JobKnown, Extracting, NoJob, Settled, IInv, Requests, RequestKnown
    <3>3. Extracting(j)' = Extracting(j) /\ (Extracting(j) /\ FileOf(j) = f => f \in overtaken')
      BY <1>b, <3>1 DEF Extracting
    <3>4. QED
      BY <1>2, <1>6, <1>b, <2>2, <3>1, <3>2, <3>3 DEF JobKnown
  <2>3. QED
    BY <2>1, <2>2
<1>17. StatusTold'
  <2> SUFFICES ASSUME NEW g \in Id, Live(g)', g \notin overtaken' PROVE Told(g)'
    BY DEF StatusTold
  <2>1. \A j \in Id : FileOf(j) \in Id => (Ingests(j)' <=> Ingests(j))
    BY <1>4 DEF Ingests, IsDocument, FileOf
  <2>2. CASE g = f
    <3>1. /\ file'[f].current = i /\ (Ingests(i)' <=> Ingests(i))
          /\ file'[f].status = IF Ingests(i) THEN "pending" ELSE "ready"
      BY <1>6, <2>1
    <3>2. Ingests(i) => job'[i].state = "queued"
      BY <1>a
    <3>3. QED
      BY <2>2, <3>1, <3>2 DEF Told
  <2>3. CASE g # f
    <3>1. Told(g) /\ file'[g] = file[g] /\ file[g].current \in RevisionsOf(g)
      BY <1>6, <1>b, <2>3 DEF Live, IInv, StatusTold, FilesKnown, FileKnown
    <3>2. file[g].current \in Id \ {i} /\ FileOf(file[g].current) \in Id
      BY <1>1, <1>7, <2>3, <3>1 DEF RevisionsOf, FilesKnown, FileKnown
    <3>3. QED
      BY <1>6, <1>a, <2>1, <3>1, <3>2 DEF Told
  <2>4. QED
    BY <2>2, <2>3
<1>18. Recoverable'
  <2> SUFFICES ASSUME NEW j \in Id PROVE BytesWait(j)'
    BY DEF Recoverable
  <2>1. CASE j = i
    BY <1>2, <2>1 DEF BytesWait, Waits
  <2>2. CASE j # i
    <3>1. BytesWait(j) /\ Waits(j)' = Waits(j)
      BY <1>2, <2>2 DEF IInv, Recoverable, Waits, Client, FileOf
    <3>2. SavedAlready(j) => SavedAlready(j)'
      <4>1. \A g : RevisionsOf(g) \subseteq RevisionsOf(g)'
        BY <1>7
      <4>2. \A k \in RevisionsOf(FileOf(j)) : rev'[k] = rev[k]
        BY <1>1, <1>6 DEF RevisionsOf
      <4>3. FileOf(j)' = FileOf(j)
        BY <1>4
      <4>4. QED
        BY <1>2, <4>1, <4>2, <4>3 DEF SavedAlready
    <3>3. QED
      BY <1>2, <2>2, <3>1, <3>2 DEF BytesWait
  <2>3. QED
    BY <2>1, <2>2
<1>19. QED
  BY <1>8, <1>9, <1>10, <1>11, <1>12, <1>13, <1>14, <1>15, <1>16, <1>17, <1>18 DEF IInv

\* A File that a transaction reads locked, or inserts, is its own.
LEMMA FileTaken ==
    ASSUME IInv, NEW i \in Id, LocksFile(i) \/ Inserts(i)
    PROVE  /\ FileOf(i) \in Id /\ FileOf(i) \notin purging
           /\ \/ /\ Live(FileOf(i)) /\ tx[i].current = file[FileOf(i)].current
                 /\ tx[i].count = file[FileOf(i)].count
              \/ file[FileOf(i)].state = "absent" /\ tx[i].current = None /\ tx[i].count = 0
           /\ \A j \in Id \ {i} : LocksFile(j) \/ Inserts(j) => FileOf(j) # FileOf(i)
<1>1. FileOf(i) \in Id
  BY DEF LocksFile, Inserts, Running, IInv, Requests, RequestKnown
<1>2. CASE LocksFile(i)
  <2>1. LockKept(i)
    BY DEF IInv, LocksKept
  <2>2. \A j \in Id \ {i} : LocksFile(j) => FileOf(j) # FileOf(i)
    BY <1>2 DEF IInv, LocksKept
  <2>3. \A j \in Id \ {i} : Inserts(j) => FileOf(j) # FileOf(i)
    BY <1>2, <2>1 DEF IInv, LocksKept, LockKept, Live
  <2>4. QED
    BY <1>1, <1>2, <2>1, <2>2, <2>3 DEF LockKept
<1>3. CASE Inserts(i)
  <2>1. file[FileOf(i)].state = "absent" /\ FileOf(i) \notin purging
    BY <1>1, <1>3 DEF IInv, LocksKept, FilesKnown, FileKnown
  <2>2. tx[i].current = None /\ tx[i].count = 0
    BY <1>3 DEF IInv, Transactions, TransactionKnown, Inserts, Running
  <2>3. \A j \in Id \ {i} : Inserts(j) => FileOf(j) # FileOf(i)
    BY <1>3 DEF IInv, LocksKept
  <2>4. \A j \in Id \ {i} : LocksFile(j) => FileOf(j) # FileOf(i)
    BY <2>1 DEF IInv, LocksKept, LockKept, Live
  <2>5. QED
    BY <1>1, <2>1, <2>2, <2>3, <2>4
<1>4. QED
  BY <1>2, <1>3

\* A confirmed upload becomes a revision, or is consumed as a duplicate.
LEMMA CommitConfirmKeeps ==
    ASSUME IInv, NEW i \in Id, CommitConfirm(i)
    PROVE  IInv'
<1>1. /\ tx[i].pc \in {"dropped", "deduplicated"} /\ Client(i) /\ upload[i].state = "pending"
      /\ Running(i) /\ FileOf(i) \in Id /\ tx[i].hash \in Hash /\ None \notin Id
      /\ LocksFile(i) \/ Inserts(i)
  BY FilesAssumption DEF CommitConfirm, Running, LocksFile, Inserts, IInv, Transactions,
     TransactionKnown, Requests, RequestKnown, TypeOK, Transaction
<1>2. Commits(i, "consumed")
  BY <1>1, IdleTyped DEF CommitConfirm, Commits, Idle, IInv, TypeOK
<1>3. CASE tx[i].pc = "dropped"
  <2>1. final[i] = tx[i].hash
    BY <1>3 DEF IInv, TransactionBytes, BytesOfTransaction
  <2>2. Addable(i, None, tx[i])
    BY <1>1, <2>1, FileTaken DEF Addable, Settled, Client
  <2>3. AddRevision(i, None, tx[i])
    BY <1>3 DEF CommitConfirm
  <2>4. QED
    BY <1>1, <1>2, <2>2, <2>3, AddRevisionKeeps
<1>4. CASE tx[i].pc = "deduplicated"
  <2>1. UNCHANGED <<rev, file, job, overtaken, stage, final, markdown, purging, faults,
                    sent, purged>>
    BY <1>4 DEF CommitConfirm, objects
  <2>2. /\ upload'[i].state = "consumed" /\ upload'[i].kind = upload[i].kind
        /\ upload'[i].file = upload[i].file /\ upload'[i].base = upload[i].base
        /\ \A j \in Id \ {i} : upload'[j] = upload[j] /\ tx'[j] = tx[j]
        /\ tx'[i].pc = "idle"
    BY DEF CommitConfirm, Idle, IInv, TypeOK, UploadRecord
  <2>3. Continues
    BY <1>1, <2>2 DEF Continues, FileOf, Settled, Running
  <2>4. TypeOK'
    <3>1. upload[i] \in UploadRecord
      BY DEF IInv, TypeOK
    <3>2. [upload[i] EXCEPT !.state = "consumed"] \in UploadRecord
      BY <3>1 DEF UploadRecord
    <3>3. QED
      BY <2>1, <3>2, IdleTyped DEF CommitConfirm, IInv, TypeOK
  <2>5. Requests' /\ Transactions' /\ TransactionBytes'
    BY <1>1, <2>1, <2>2 DEF IInv, Requests, RequestKnown, Transactions, TransactionKnown,
       TransactionBytes, BytesOfTransaction, Reserves, Client, Edits, FileOf, Running
  <2>6. LocksKept'
    BY <2>1, <2>2 DEF IInv, LocksKept, LockKept, LocksFile, Inserts, Running, FileOf, Live
  <2>7. Recoverable'
    BY <2>1, <2>2 DEF IInv, Recoverable, BytesWait, Waits, SavedAlready, Client, RevisionsOf,
       FileOf, Row
  <2>8. QED
    BY <2>1, <2>3, <2>4, <2>5, <2>6, <2>7, RowsKept DEF IInv
<1>5. QED
  BY <1>1, <1>3, <1>4

\* A reservation that was written becomes the first revision of its File.
LEMMA CommitReservedKeeps ==
    ASSUME IInv, NEW i \in Id, CommitReserved(i)
    PROVE  IInv'
<1>1. /\ tx[i].pc = "stored" /\ Reserves(i) /\ upload[i].state = "pending" /\ tx[i].new
      /\ FileOf(i) = i /\ tx[i].hash \in Hash /\ final[i] = tx[i].hash /\ None \notin Id
      /\ tx[i].current = None /\ tx[i].count = 0
  BY FilesAssumption DEF CommitReserved, Running, Reserves, Edits, IInv, Transactions,
     TransactionKnown, TransactionBytes, BytesOfTransaction, Requests, RequestKnown, TypeOK
<1>2. Commits(i, "consumed")
  BY <1>1, IdleTyped DEF CommitReserved, Commits, Idle, IInv, TypeOK
<1>3. file[i].state = "absent" /\ i \notin purging
  BY <1>1 DEF IInv, FilesKnown, FileKnown
<1>4. \A j \in Id \ {i} : LocksFile(j) \/ Inserts(j) => FileOf(j) # i
  <2>1. \A j \in Id \ {i} : upload[j].state # "none" => FileOf(j) # i
    BY <1>1 DEF IInv, Requests, RequestKnown
  <2>2. QED
    BY <2>1 DEF LocksFile, Inserts, Running, IInv, Requests, RequestKnown
<1>5. Addable(i, None, tx[i])
  BY <1>1, <1>3, <1>4 DEF Addable, Settled, Reserves
<1>6. QED
  BY <1>1, <1>2, <1>5, AddRevisionKeeps DEF CommitReserved

\* An edit becomes the next revision, with the read head as its base.
LEMMA CommitEditKeeps ==
    ASSUME IInv, NEW i \in Id, CommitEdit(i)
    PROVE  IInv'
<1>1. /\ tx[i].pc = "stored" /\ Edits(i) /\ upload[i].state = "made" /\ ~tx[i].new
      /\ tx[i].hash \in Hash /\ final[i] = tx[i].hash /\ None \notin Id /\ Running(i)
      /\ upload[i].kind = "edit" => tx[i].current = upload[i].base
  BY FilesAssumption DEF CommitEdit, Running, Reserves, Edits, IInv, Transactions,
     TransactionKnown, TransactionBytes, BytesOfTransaction, TypeOK, Transaction
<1>2. Commits(i, "made")
  <2>1. upload' = [upload EXCEPT ![i].state = "made"]
    BY <1>1 DEF CommitEdit, IInv, TypeOK, UploadRecord
  <2>2. [Idle EXCEPT !.pc = "over"] \in Transaction
    BY IdleTyped DEF Transaction
  <2>3. QED
    BY <1>1, <2>1, <2>2 DEF CommitEdit, Commits, Idle, IInv, TypeOK
<1>3. Addable(i, None, tx[i])
  BY <1>1, FileTaken DEF Addable, Settled, Edits, LocksFile
<1>4. QED
  BY <1>1, <1>2, <1>3, AddRevisionKeeps DEF CommitEdit, Addable

\* A restored revision shares the object of its source.
LEMMA RestoreKeeps ==
    ASSUME IInv, NEW i \in Id, NEW source \in Id, Restore(i, source)
    PROVE  IInv'
<1> DEFINE t == [Reads(FileOf(i)) EXCEPT !.hash = rev[source].hash]
<1>1. /\ upload[i].state = "open" /\ upload[i].kind = "restore" /\ Live(FileOf(i))
      /\ Unlocked(FileOf(i)) /\ file[FileOf(i)].current = upload[i].base
      /\ source \in RevisionsOf(FileOf(i)) /\ AddRevision(i, source, t) /\ None \notin Id
  BY FilesAssumption DEF Restore, Expected
<1>2. ~Running(i) /\ FileOf(i) \in Id
  BY <1>1 DEF IInv, Requests, RequestKnown, Transactions, TransactionKnown, Running, TypeOK,
     Transaction
<1>3. t.current = file[FileOf(i)].current /\ t.count = file[FileOf(i)].count
      /\ t.hash = rev[source].hash
  BY DEF Reads, Idle
<1>4. rev[source].hash \in Hash
  BY DEF IInv, TypeOK, Revision
<1>5. Commits(i, "made")
  BY <1>1, <1>2 DEF Restore, Commits, Running, IInv, TypeOK
<1>6. \A j \in Id \ {i} : LocksFile(j) \/ Inserts(j) => FileOf(j) # FileOf(i)
  BY <1>1 DEF Unlocked, IInv, LocksKept, Live
<1> HIDE DEF t
<1>7. Addable(i, source, t)
  BY <1>1, <1>2, <1>3, <1>4, <1>6 DEF Addable, Settled, Unlocked
<1>8. QED
  BY <1>1, <1>2, <1>5, <1>7, AddRevisionKeeps

----------------------------------------------------------------------------
(* The theorems                                                             *)

\* No rows, no objects, no requests.
LEMMA InitKeeps == Init => IInv
<1> SUFFICES ASSUME Init PROVE IInv
  OBVIOUS
<1>1. PICK plan \in Plans :
         upload = [i \in Id |-> [kind |-> plan[i], state |-> "none", file |-> None,
                                 base |-> None, expired |-> FALSE]]
  BY DEF Init
<1>2. \A i \in Id : upload[i].state = "none" /\ upload[i].file = None
  BY <1>1
<1>3. upload \in [Id -> UploadRecord]
  BY <1>1, PlansAssumption DEF UploadRecord
<1>4. /\ \A i \in Id : /\ rev[i] = NoRevision /\ file[i] = NoFile /\ tx[i] = Idle
                       /\ job[i] = NoJob /\ stage[i] = None /\ final[i] = None
                       /\ sent[i] = None
      /\ markdown = {} /\ purging = {} /\ purged = {} /\ overtaken = {} /\ faults = 0
  BY DEF Init
<1>5. Cardinality(Id) \in Nat
  BY FS_CardinalityType, FilesAssumption
<1>6. \A i \in Id : /\ file[i].state = "absent" /\ tx[i].pc = "idle" /\ ~tx[i].new
                    /\ ~Row(i) /\ job[i].state = "none" /\ ~Running(i) /\ ~Live(i)
  BY <1>4 DEF NoFile, Idle, Row, NoJob, Running, Live
<1>7. TypeOK
  <2>1. NoFile \in FileRecord /\ NoRevision \in Revision
    BY <1>5 DEF NoFile, NoRevision, FileRecord, Revision, Count, Hash
  <2>2. NoJob \in Job
    BY FilesAssumption DEF NoJob, Job
  <2>3. QED
    BY <1>3, <2>1, <2>2, IdleTyped, FilesAssumption DEF Init, TypeOK, Hash
<1>8. Requests /\ Transactions /\ TransactionBytes
  BY <1>2, <1>4, <1>6 DEF Requests, RequestKnown, Transactions, TransactionKnown,
     TransactionBytes, BytesOfTransaction, FileOf
<1>9. LocksKept /\ Recoverable
  BY <1>2, <1>6 DEF LocksKept, LockKept, LocksFile, Inserts, Recoverable, BytesWait, Waits
<1>10. FilesKnown /\ OneChain /\ RevisionsKnown /\ BytesBehindRevisions
  BY <1>4, <1>6 DEF FilesKnown, FileKnown, OneChain, RevisionsKnown, RevisionKnown,
     BytesBehindRevisions, RevisionsOf
<1>11. JobsKnown /\ StatusTold
  BY <1>4, <1>6 DEF JobsKnown, JobKnown, Extracting, StatusTold
<1>12. QED
  BY <1>7, <1>8, <1>9, <1>10, <1>11 DEF IInv

\* Every step keeps the invariant.
LEMMA StepKeeps ==
    ASSUME IInv, Next
    PROVE  IInv'
<1>1. PICK i \in Id : \/ Request(i) \/ Progress(i) \/ Extract(i) \/ SweepUpload(i)
                      \/ Abort(i) \/ AbortPurge(i) \/ CutExtract(i)
  BY DEF Next
<1>2. CASE Request(i)
  BY <1>2, GrantUploadKeeps, OpenKeeps, DeleteKeeps, BeginPurgeKeeps, UploadKeeps,
     LockReservationKeeps, ExpireKeeps, BeginConfirmKeeps, ReplayKeeps, ReserveKeeps,
     BeginEditKeeps, RestoreKeeps DEF Request
<1>3. CASE Progress(i)
  BY <1>3, DeduplicateKeeps, PromoteKeeps, DropStageKeeps, RefuseKeeps, CommitConfirmKeeps,
     WriteReservedKeeps, CommitReservedKeeps, PutEditKeeps, CommitEditKeeps, CommitPurgeKeeps
     DEF Progress
<1>4. CASE Extract(i)
  BY <1>4, ReadForExtractKeeps, BeginConversionKeeps, WriteMarkdownKeeps, FinishExtractKeeps,
     FailExtractKeeps DEF Extract
<1>5. QED
  BY <1>1, <1>2, <1>3, <1>4, SweepUploadKeeps, AbortKeeps, AbortPurgeKeeps, CutExtractKeeps

\* Nothing happens.
LEMMA StutterKeeps ==
    ASSUME IInv, UNCHANGED vars
    PROVE  IInv'
<1>1. UNCHANGED <<upload, rev, file, stage, final, markdown, tx, purging, job, faults, sent, purged,
                  overtaken>>
  BY DEF vars
<1>2. Continues
  BY <1>1 DEF Continues, FileOf, Settled, Running
<1>3. RowsAlike
  BY <1>1 DEF RowsAlike, Row
<1>4. TypeOK'
  BY <1>1 DEF IInv, TypeOK
<1>5. QED
  BY <1>1, <1>2, <1>3, <1>4, RowsKept, AlikeKeeps DEF IInv

\* The inductive invariant holds of every behaviour: every request, upload,
\* edit, restore, sweep, purge, extraction and fault keeps it.
THEOREM FilesInvariant == Spec => []IInv
<1>1. IInv /\ [Next]_vars => IInv'
  BY StepKeeps, StutterKeeps
<1>2. QED
  BY InitKeeps, <1>1, PTL DEF Spec

\* Records keep their types, and the revisions of every File are one chain
\* whose head is the current one (add_file_revision under the File's row lock).
THEOREM ChainsAlwaysKept == Spec => []ChainsKept
<1>1. IInv => ChainsKept
  BY DEF IInv, ChainsKept
<1>2. QED
  BY FilesInvariant, <1>1, PTL

\* Behind every committed revision are the bytes it was hashed from and the
\* Markdown it names, unless a purge has begun (storage, extraction and purge).
THEOREM BytesAlwaysBehind == Spec => []BytesBehindRevisions
<1>1. IInv => BytesBehindRevisions
  BY DEF IInv
<1>2. QED
  BY FilesInvariant, <1>1, PTL

\* What a browser sent first can be confirmed again until the grant expires,
\* whichever step of an earlier confirmation failed (confirm_upload).
THEOREM UploadsAlwaysRecoverable == Spec => []UploadRecoverable
<1>1. IInv => UploadRecoverable
  BY DEF IInv, Recoverable, BytesWait, Waits, SavedAlready, UploadRecoverable
<1>2. QED
  BY FilesInvariant, <1>1, PTL

\* The status shown is the current revision's own (process_file_extraction).
THEOREM StatusAlwaysTold == Spec => []StatusTold
<1>1. IInv => StatusTold
  BY DEF IInv
<1>2. QED
  BY FilesInvariant, <1>1, PTL

RequestSteps(j) ==
    \/ \E f \in Id : GrantUpload(j, f) \/ Open(j, f)
    \/ \E c \in Content : Upload(j, c) \/ LockReservation(j, c) \/ BeginEdit(j, c)
    \/ Reserve(j, "snapshot") \/ Reserve(j, "copy")
    \/ Delete(j) \/ BeginPurge(j) \/ Expire(j) \/ BeginConfirm(j) \/ Replay(j)

ServerSteps(j) ==
    \/ Deduplicate(j) \/ Promote(j) \/ DropStage(j) \/ Refuse(j) \/ WriteReserved(j) \/ PutEdit(j)
    \/ SweepUpload(j) \/ Abort(j) \/ AbortPurge(j)

CommitSteps(j) ==
    \/ CommitConfirm(j) \/ CommitReserved(j) \/ CommitEdit(j)
    \/ \E source \in Id : Restore(j, source)

ExtractSteps(j) == Extract(j) \/ CutExtract(j)

\* The steps in groups.
LEMMA StepsGrouped ==
    ASSUME Next
    PROVE  \E j \in Id : \/ RequestSteps(j) \/ ServerSteps(j) \/ CommitSteps(j)
                         \/ ExtractSteps(j) \/ CommitPurge(j)
BY DEF Next, Request, Progress, RequestSteps, ServerSteps, CommitSteps, ExtractSteps

\* Rows appear through add_file_revision only.
LEMMA CommitAdds ==
    ASSUME IInv, NEW j \in Id, CommitSteps(j), ~UNCHANGED rev
    PROVE  \E source \in Id \cup {None}, t \in Transaction : AddRevision(j, source, t)
<1>1. tx[j] \in Transaction
  BY DEF IInv, TypeOK
<1>2. CASE CommitConfirm(j) \/ CommitReserved(j) \/ CommitEdit(j)
  BY <1>1, <1>2 DEF CommitConfirm, CommitReserved, CommitEdit
<1>3. ASSUME NEW source \in Id, Restore(j, source)
      PROVE  \E t \in Transaction : AddRevision(j, source, t)
  <2>1. rev[source].hash \in Hash
    BY DEF IInv, TypeOK, Revision
  <2>2. FileOf(j) \in Id
    BY <1>3, FileTyped DEF Restore
  <2>3. Reads(FileOf(j)) \in Transaction
    BY <2>2, ReadsTyped DEF IInv
  <2>4. [Reads(FileOf(j)) EXCEPT !.hash = rev[source].hash] \in Transaction
    BY <2>1, <2>3 DEF Transaction
  <2>5. QED
    BY <1>3, <2>4 DEF Restore
<1>4. QED
  BY <1>2, <1>3 DEF CommitSteps

\* Rows go only with the purge of their File.
LEMMA RowsStay ==
    ASSUME IInv, NEW j \in Id, NEW i \in Id, Row(i), FileOf(i) \notin purging,
           RequestSteps(j) \/ ServerSteps(j) \/ CommitSteps(j) \/ ExtractSteps(j) \/ CommitPurge(j)
    PROVE  Row(i)'
<1>1. rev[i].number # 0 /\ rev \in [Id -> Revision]
  BY NumberPositive DEF IInv, TypeOK
<1>2. CASE UNCHANGED rev
  BY <1>2 DEF Row
<1>3. CASE RequestSteps(j) \/ ServerSteps(j)
  <2>1. UNCHANGED rev
    BY <1>3 DEF RequestSteps, ServerSteps, GrantUpload, Open, Upload, LockReservation,
       BeginEdit, Reserve, Delete, BeginPurge, Expire, BeginConfirm, Replay, Deduplicate,
       Promote, DropStage, Refuse, WriteReserved, PutEdit, SweepUpload, Abort, AbortPurge
  <2>2. QED
    BY <1>2, <2>1
<1>4. CASE CommitSteps(j) /\ ~UNCHANGED rev
  <2>1. PICK source \in Id \cup {None}, t \in Transaction : AddRevision(j, source, t)
    BY <1>4, CommitAdds
  <2>2. t.count \in Nat
    BY FS_CardinalityType, FilesAssumption DEF Transaction, Count
  <2>3. rev'[i].number # 0
    BY <1>1, <2>1, <2>2 DEF AddRevision
  <2>4. QED
    BY <2>3 DEF Row, NoRevision
<1>5. CASE ExtractSteps(j) /\ ~UNCHANGED rev
  <2>1. \E m : rev' = [rev EXCEPT ![j].md = m]
    BY <1>5 DEF ExtractSteps, Extract, ReadForExtract, BeginConversion, WriteMarkdown,
       FinishExtract, FailExtract, CutExtract, CopyMarkdown
  <2>2. rev'[i].number # 0
    BY <1>1, <2>1 DEF Revision
  <2>3. QED
    BY <2>2 DEF Row, NoRevision
<1>6. CASE CommitPurge(j)
  BY <1>6 DEF CommitPurge, Row
<1>7. QED
  BY <1>2, <1>3, <1>4, <1>5, <1>6

\* A pending reservation stays, or is used, or is swept with its object.
LEMMA ReservationStays ==
    ASSUME IInv, NEW j \in Id, NEW i \in Id, Reserves(i), upload[i].state = "pending",
           final'[i] # None,
           RequestSteps(j) \/ ServerSteps(j) \/ CommitSteps(j) \/ ExtractSteps(j) \/ CommitPurge(j)
    PROVE  upload'[i].state = "pending" \/ Row(i)'
<1>1. upload \in [Id -> UploadRecord] /\ upload[i].kind \in {"snapshot", "copy"}
  BY DEF IInv, TypeOK, Reserves
<1>2. CASE RequestSteps(j)
  BY <1>1, <1>2 DEF RequestSteps, GrantUpload, Open, Upload, LockReservation, BeginEdit, Comes,
     Reserve, Delete, BeginPurge, Expire, BeginConfirm, Replay, UploadRecord
<1>3. CASE ServerSteps(j)
  BY <1>1, <1>3 DEF ServerSteps, Deduplicate, Promote, DropStage, Refuse, WriteReserved,
     PutEdit, SweepUpload, Swept, MaySweep, Client, Abort, AbortPurge, objects, UploadRecord,
     IInv, TypeOK
<1>4. CASE CommitSteps(j)
  <2>1. CASE j # i
    BY <1>1, <1>4, <2>1 DEF CommitSteps, CommitConfirm, CommitReserved, CommitEdit, Restore
  <2>2. CASE j = i
    <3>1. CommitReserved(i) \/ UNCHANGED upload
      BY <1>1, <1>4, <2>2 DEF CommitSteps, CommitConfirm, CommitEdit, Restore, Edits, IInv,
         Transactions, TransactionKnown, Client
    <3>2. CASE CommitReserved(i)
      <4>1. rev'[i].number = tx[i].count + 1 /\ tx[i].count \in Count
        BY <3>2 DEF CommitReserved, AddRevision, IInv, TypeOK, Transaction
      <4>2. rev'[i].number # 0
        BY <4>1, FS_CardinalityType, FilesAssumption DEF Count
      <4>3. QED
        BY <4>2 DEF Row, NoRevision
    <3>3. QED
      BY <3>1, <3>2
  <2>3. QED
    BY <2>1, <2>2
<1>5. CASE ExtractSteps(j) \/ CommitPurge(j)
  BY <1>5 DEF ExtractSteps, Extract, ReadForExtract, BeginConversion, WriteMarkdown,
     FinishExtract, FailExtract, CutExtract, CommitPurge
<1>6. QED
  BY <1>2, <1>3, <1>4, <1>5

\* An object at the key of a reservation is written under its pending row.
LEMMA ReservationWrites ==
    ASSUME IInv, NEW j \in Id, NEW i \in Id, Reserves(i), final[i] = None, final'[i] # None,
           RequestSteps(j) \/ ServerSteps(j) \/ CommitSteps(j) \/ ExtractSteps(j) \/ CommitPurge(j)
    PROVE  upload[i].state = "pending"
<1>1. final \in [Id -> Hash] /\ upload[i].kind \in {"snapshot", "copy"}
  BY DEF IInv, TypeOK, Reserves
<1>2. CASE RequestSteps(j)
  BY <1>1, <1>2 DEF RequestSteps, GrantUpload, Open, Upload, LockReservation, BeginEdit, Comes,
     Reserve, Delete, BeginPurge, Expire, BeginConfirm, Replay, objects
<1>3. CASE ServerSteps(j)
  <2>1. Promote(j) \/ WriteReserved(j) \/ PutEdit(j)
    BY <1>1, <1>3 DEF ServerSteps, Deduplicate, DropStage, Refuse, SweepUpload, Swept, Abort,
       AbortPurge, objects
  <2>2. j = i
    BY <1>1, <2>1 DEF Promote, WriteReserved, PutEdit
  <2>3. QED
    BY <1>1, <2>1, <2>2 DEF Promote, WriteReserved, PutEdit, Edits, Client, IInv, Transactions,
       TransactionKnown
<1>4. CASE CommitSteps(j) \/ ExtractSteps(j) \/ CommitPurge(j)
  BY <1>4 DEF CommitSteps, CommitConfirm, CommitReserved, CommitEdit, Restore, ExtractSteps,
     Extract, ReadForExtract, BeginConversion, WriteMarkdown, FinishExtract, FailExtract,
     CutExtract, CommitPurge, objects
<1>5. QED
  BY <1>2, <1>3, <1>4

\* What was written under a reservation keeps an owner, until the sweeper or a
\* purge takes it.
LEMMA OwnedStep ==
    ASSUME IInv, Next, NEW i \in Id, Reserves(i), final'[i] # None
    PROVE  Owned(i)' \/ (final[i] # None /\ (~Owned(i) \/ FileOf(i) \in purging))
<1>1. PICK j \in Id : \/ RequestSteps(j) \/ ServerSteps(j) \/ CommitSteps(j)
                      \/ ExtractSteps(j) \/ CommitPurge(j)
  BY StepsGrouped
<1>2. final[i] = None => upload[i].state = "pending"
  BY <1>1, ReservationWrites
<1>3. upload[i].state = "pending" => Owned(i)'
  BY <1>1, ReservationStays DEF Owned
<1>4. Row(i) /\ FileOf(i) \notin purging => Owned(i)'
  BY <1>1, RowsStay DEF Owned
<1>5. QED
  BY <1>2, <1>3, <1>4 DEF Owned

\* Only the confirmation of a replacement brings a purged File back.
LEMMA RecreatedStep ==
    ASSUME IInv, Next, NEW f \in Id, upload[f].state = "consumed", file[f].state = "absent",
           file'[f].state = "live"
    PROVE  Client(file'[f].current)
<1>1. PICK j \in Id : \/ RequestSteps(j) \/ ServerSteps(j) \/ CommitSteps(j)
                      \/ ExtractSteps(j) \/ CommitPurge(j)
  BY StepsGrouped
<1>2. file \in [Id -> FileRecord]
  BY DEF IInv, TypeOK
<1>3. CASE RequestSteps(j) \/ ServerSteps(j)
  BY <1>2, <1>3 DEF RequestSteps, GrantUpload, Open, Upload, LockReservation, BeginEdit,
     Reserve, Delete, BeginPurge, Expire, BeginConfirm, Replay, ServerSteps, Deduplicate,
     Promote, DropStage, Refuse, WriteReserved, PutEdit, SweepUpload, Abort, AbortPurge, Live
<1>4. CASE CommitPurge(j)
  BY <1>2, <1>4 DEF CommitPurge, NoFile
<1>5. CASE ExtractSteps(j)
  <2>1. UNCHANGED file \/ \E s : file' = [file EXCEPT ![FileOf(j)].status = s]
    BY <1>5 DEF ExtractSteps, Extract, ReadForExtract, BeginConversion, WriteMarkdown,
       FinishExtract, FailExtract, CutExtract, CopyMarkdown, SetStatus
  <2>2. QED
    BY <1>2, <2>1 DEF FileRecord
<1>6. CASE CommitSteps(j)
  <2>1. \E source \in Id \cup {None} : \E t : AddRevision(j, source, t)
    BY <1>6 DEF CommitSteps, CommitConfirm, CommitReserved, CommitEdit, Restore
  <2>2. FileOf(j) = f /\ file'[f].current = j
    BY <1>2, <2>1 DEF AddRevision
  <2>3. CASE CommitConfirm(j)
    BY <2>2, <2>3 DEF CommitConfirm, IInv, Transactions, TransactionKnown
  <2>4. CASE CommitReserved(j)
    BY <2>2, <2>4 DEF CommitReserved, IInv, Transactions, TransactionKnown, Requests,
       RequestKnown, Reserves, Edits
  <2>5. CASE CommitEdit(j)
    BY <2>2, <2>5 DEF CommitEdit, IInv, Transactions, TransactionKnown, LocksKept, LockKept,
       LocksFile, Running, Live, Reserves, Edits
  <2>6. CASE \E x \in Id : Restore(j, x)
    BY <2>2, <2>6 DEF Restore, Expected, Live
  <2>7. QED
    BY <1>6, <2>3, <2>4, <2>5, <2>6 DEF CommitSteps
<1>7. QED
  BY <1>1, <1>3, <1>4, <1>5, <1>6

\* A reservation cleans up what was written under it until it is used, and is
\* used once (copy_files, write_workspace_file, sweep_workspace_uploads).
THEOREM ReservationsAlwaysKept == Spec => ReservationsKept
<1>1. IInv /\ [Next]_vars =>
        /\ \A i \in Id : upload[i].kind \in {"snapshot", "copy"} /\ final'[i] # None
             => Owned(i)' \/ (final[i] # None /\ (~Owned(i) \/ FileOf(i) \in purging))
        /\ \A f \in Id : upload[f].state = "consumed" /\ file[f].state = "absent"
                            /\ file'[f].state = "live" => Client(file'[f].current)
  <2> SUFFICES ASSUME IInv, Next \/ UNCHANGED vars
               PROVE  /\ \A i \in Id : upload[i].kind \in {"snapshot", "copy"} /\ final'[i] # None
                           => Owned(i)' \/ (final[i] # None /\ (~Owned(i) \/ FileOf(i) \in purging))
                      /\ \A f \in Id : upload[f].state = "consumed" /\ file[f].state = "absent"
                            /\ file'[f].state = "live" => Client(file'[f].current)
    OBVIOUS
  <2>1. CASE Next
    BY <2>1, OwnedStep, RecreatedStep DEF Reserves
  <2>2. CASE UNCHANGED vars
    BY <2>2 DEF vars, Owned, Row
  <2>3. QED
    BY <2>1, <2>2
<1>2. QED
  BY FilesInvariant, <1>1, PTL DEF Spec, ReservationsKept, ReservedOwned, CopyStaysGone

=============================================================================
