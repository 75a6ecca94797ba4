----------------------- MODULE DocumentExtractionProofs ------------------------
(***************************************************************************)
(* Theorems about DocumentExtraction for any number of instances, requests *)
(* and restarts.                                                           *)
(***************************************************************************)
EXTENDS DocumentExtraction, TLAPS

\* Before createUploadUrl there is nothing of the document anywhere.
NothingBeforeUrl ==
  ~created =>
    /\ row = NoRow
    /\ ~object
    /\ \A i \in Instances : task[i] = "idle"
    /\ \A c \in Calls : call[c].pc \in {"idle", "rows"} /\ ~call[c].listed

\* Without an overlap one task is at work, under the lease in the row, if there is one.
LeaseExcludes ==
  ~overlap => /\ \A i, j \in Busy : i = j
              /\ Busy # {} /\ Exists => row.status = "PENDING" /\ row.lease = "live"

\* An extraction is only asked for when the file is there.
OnlyUploaded ==
  \/ \E c \in Calls : call[c].pc \in {"reset", "queue"}
  \/ \E i \in Instances : task[i] # "idle"
  => (Exists => row.uploaded)

\* A PENDING row under a lease, live or not, has a task at work.
LeaseIsHeld ==
  row.status = "PENDING" /\ row.lease # "none" /\ ~lost => Busy # {}

\* Some handler saw the object, or uploadedAt says that one did.
Seen ==
  \/ row.uploaded
  \/ \E c \in Calls : \/ call[c].pc \in {"mark", "repair"}
                      \/ call[c].pc = "rows" /\ call[c].listed

\* An object that was seen and is gone was deleted by a removal that is not through.
SeenHasObject ==
  Seen /\ Exists /\ ~object => torn \/ \E c \in Calls : call[c].pc = "delete"

\* The inductive invariant behind the two invariants of the run and the refinement.
IInv ==
  /\ TypeOK
  /\ NothingBeforeUrl
  /\ LeaseExcludes
  /\ OnlyUploaded
  /\ LeaseIsHeld
  /\ RequestIsServed
  /\ SeenHasObject

-----------------------------------------------------------------------------
(* Each conjunct is kept by every step                                     *)

LEMMA MoveType ==
  ASSUME TypeOK, NEW c \in Calls,
         NEW pc \in {"confirm", "mark", "reset", "queue", "unlink", "delete", "rows",
                     "metadata", "insert", "repair", "purge"},
         Goto(c, pc)
  PROVE  call' \in [Calls -> Requests]
  BY DEF TypeOK, Requests, Goto

LEMMA RowType ==
  /\ NoRow \in Row
  /\ \A uploaded \in BOOLEAN : Renew(uploaded) => row' \in Row
  BY DEF NoRow, Row, Renew

LEMMA DoneType ==
  ASSUME TypeOK, NEW c \in Calls, Done(c)
  PROVE  call' \in [Calls -> Requests]
  BY DEF TypeOK, Requests, Done

LEMMA TypeStep ==
  ASSUME TypeOK, [Next]_vars
  PROVE  TypeOK'
  <1>1. CASE CreateUploadUrl
        BY <1>1 DEF CreateUploadUrl, TypeOK, Row, Renew
  <1>2. CASE Upload
        BY <1>2 DEF Upload, TypeOK, Row, Renew
  <1>3. CASE LeaseExpires
        BY <1>3 DEF LeaseExpires, TypeOK, Row, Renew
  <1>4. ASSUME NEW i \in Instances, Claim(i) PROVE TypeOK'
        BY <1>4 DEF Claim, TypeOK, Row, Step
  <1>5. ASSUME NEW i \in Instances, Download(i) PROVE TypeOK'
        BY <1>5 DEF Download, TypeOK, Row, Step
  <1>6. ASSUME NEW i \in Instances, Close(i) PROVE TypeOK'
        BY <1>6 DEF Close, TypeOK, Row, Step
  <1>7. ASSUME NEW i \in Instances, NEW outcome \in {"READY", "FAILED"},
              Settle(i, outcome)
       PROVE  TypeOK'
        BY <1>7 DEF Settle, TypeOK, Row, Step, Exists
  <1>8. ASSUME NEW i \in Instances, Restart(i) PROVE TypeOK'
        BY <1>8 DEF Restart, TypeOK, Requests, Step
  <1>9. ASSUME NEW c \in Calls, BeginConfirm(c) PROVE TypeOK'
        BY <1>9, MoveType, DoneType DEF BeginConfirm, TypeOK, Row, NoRow, Renew, Exists
  <1>10. ASSUME NEW c \in Calls, BeginExtract(c) PROVE TypeOK'
        BY <1>10, MoveType, DoneType DEF BeginExtract, TypeOK, Row, NoRow, Renew, Exists
  <1>11. ASSUME NEW c \in Calls, BeginRemove(c) PROVE TypeOK'
        BY <1>11, MoveType, DoneType DEF BeginRemove, TypeOK, Row, NoRow, Renew, Exists
  <1>12. ASSUME NEW c \in Calls, BeginSync(c) PROVE TypeOK'
        BY <1>12 DEF BeginSync, TypeOK, Requests
  <1>13. ASSUME NEW c \in Calls, CheckObject(c) PROVE TypeOK'
        BY <1>13, MoveType, DoneType DEF CheckObject, TypeOK, Row, NoRow, Renew, Exists
  <1>14. ASSUME NEW c \in Calls, MarkUploaded(c) PROVE TypeOK'
        BY <1>14, MoveType, DoneType DEF MarkUploaded, TypeOK, Row, NoRow, Renew, Exists
  <1>15. ASSUME NEW c \in Calls, Reset(c) PROVE TypeOK'
        <2>1. call' \in [Calls -> Requests]
              BY <1>15, MoveType, DoneType DEF Reset
        <2>2. row' \in Row
              BY <1>15, RowType DEF Reset, TypeOK, Row
        <2> QED
              BY <1>15, <2>1, <2>2 DEF Reset, TypeOK, Renew
  <1>16. ASSUME NEW c \in Calls, Queue(c) PROVE TypeOK'
        BY <1>16, MoveType, DoneType DEF Queue, TypeOK, Row, NoRow, Renew, Exists, Step
  <1>17. ASSUME NEW c \in Calls, DeleteObject(c) PROVE TypeOK'
        BY <1>17, MoveType, DoneType DEF DeleteObject, TypeOK, Row, NoRow, Renew, Exists
  <1>18. ASSUME NEW c \in Calls, DeleteRow(c) PROVE TypeOK'
        BY <1>18, MoveType, DoneType DEF DeleteRow, TypeOK, Row, NoRow, Renew, Exists
  <1>19. ASSUME NEW c \in Calls, ReadRows(c) PROVE TypeOK'
        BY <1>19, MoveType, DoneType DEF ReadRows, TypeOK, Row, NoRow, Renew, Exists
  <1>20. ASSUME NEW c \in Calls, ReadMetadata(c) PROVE TypeOK'
        BY <1>20, MoveType, DoneType DEF ReadMetadata, TypeOK, Row, NoRow, Renew, Exists
  <1>21. ASSUME NEW c \in Calls, InsertMissing(c) PROVE TypeOK'
        <2>1. call' \in [Calls -> Requests]
              BY <1>21, MoveType, DoneType DEF InsertMissing
        <2>2. row' \in Row
              BY <1>21, RowType DEF InsertMissing, TypeOK, Row
        <2> QED
              BY <1>21, <2>1, <2>2 DEF InsertMissing, TypeOK, Renew
  <1>22. ASSUME NEW c \in Calls, RepairUploaded(c) PROVE TypeOK'
        BY <1>22, MoveType, DoneType DEF RepairUploaded, TypeOK, Row, NoRow, Renew, Exists
  <1>23. ASSUME NEW c \in Calls, PurgeMissing(c) PROVE TypeOK'
        <2>1. call' \in [Calls -> Requests]
              BY <1>23, MoveType, DoneType DEF PurgeMissing
        <2>2. row' \in Row
              BY <1>23, RowType DEF PurgeMissing, TypeOK, Row
        <2> QED
              BY <1>23, <2>1, <2>2 DEF PurgeMissing, TypeOK, Renew
  <1>24. CASE UNCHANGED vars
        BY <1>24 DEF vars, TypeOK
  <1> QED
      BY <1>1, <1>2, <1>3, <1>4, <1>5, <1>6, <1>7, <1>8, <1>9, <1>10, <1>11, <1>12, <1>13,
         <1>14, <1>15, <1>16, <1>17, <1>18, <1>19, <1>20, <1>21, <1>22, <1>23, <1>24
      DEF Next, Work, Handle

LEMMA NothingStep ==
  ASSUME TypeOK, NothingBeforeUrl, [Next]_vars
  PROVE  NothingBeforeUrl'
  <1> USE DEF TypeOK, NothingBeforeUrl, Row, NoRow, Requests, Exists, Goto, Done, Step,
              Renew
  <1>1. CASE CreateUploadUrl \/ Upload \/ LeaseExpires
        BY <1>1 DEF CreateUploadUrl, Upload, LeaseExpires
  <1>2. ASSUME NEW i \in Instances,
              Claim(i) \/ Download(i) \/ Close(i)
       PROVE  NothingBeforeUrl'
        BY <1>2 DEF Claim, Download, Close
  <1>3. ASSUME NEW i \in Instances, NEW outcome \in {"READY", "FAILED"},
              Settle(i, outcome)
       PROVE  NothingBeforeUrl'
        BY <1>3 DEF Settle
  <1>4. ASSUME NEW i \in Instances, Restart(i) PROVE NothingBeforeUrl'
        BY <1>4 DEF Restart
  <1>5. ASSUME NEW c \in Calls,
              BeginConfirm(c) \/ BeginExtract(c) \/ BeginRemove(c) \/ BeginSync(c)
       PROVE  NothingBeforeUrl'
        BY <1>5 DEF BeginConfirm, BeginExtract, BeginRemove, BeginSync
  <1>6. ASSUME NEW c \in Calls, CheckObject(c) \/ MarkUploaded(c) PROVE NothingBeforeUrl'
        BY <1>6 DEF CheckObject, MarkUploaded
  <1>7. ASSUME NEW c \in Calls, Reset(c) \/ Queue(c) PROVE NothingBeforeUrl'
        BY <1>7 DEF Reset, Queue
  <1>8. ASSUME NEW c \in Calls, DeleteObject(c) \/ DeleteRow(c) PROVE NothingBeforeUrl'
        BY <1>8 DEF DeleteObject, DeleteRow
  <1>9. ASSUME NEW c \in Calls,
              ReadRows(c) \/ ReadMetadata(c) \/ InsertMissing(c)
       PROVE  NothingBeforeUrl'
        BY <1>9 DEF ReadRows, ReadMetadata, InsertMissing
  <1>10. ASSUME NEW c \in Calls,
              RepairUploaded(c) \/ PurgeMissing(c)
       PROVE  NothingBeforeUrl'
        BY <1>10 DEF RepairUploaded, PurgeMissing
  <1>11. CASE UNCHANGED vars
        BY <1>11 DEF vars
  <1> QED
      BY <1>1, <1>2, <1>3, <1>4, <1>5, <1>6, <1>7, <1>8, <1>9, <1>10, <1>11
      DEF Next, Work, Handle

LEMMA LeaseStep ==
  ASSUME TypeOK, LeaseExcludes, [Next]_vars
  PROVE  LeaseExcludes'
  <1> USE DEF TypeOK, LeaseExcludes, Busy, Row, NoRow, Requests, Exists, Goto, Done, Step,
              Renew
  <1>1. CASE CreateUploadUrl \/ Upload \/ LeaseExpires
        BY <1>1 DEF CreateUploadUrl, Upload, LeaseExpires
  <1>2. ASSUME NEW i \in Instances,
              Claim(i) \/ Download(i) \/ Close(i)
       PROVE  LeaseExcludes'
        BY <1>2 DEF Claim, Download, Close
  <1>3. ASSUME NEW i \in Instances, NEW outcome \in {"READY", "FAILED"},
              Settle(i, outcome)
       PROVE  LeaseExcludes'
        BY <1>3 DEF Settle
  <1>4. ASSUME NEW i \in Instances, Restart(i) PROVE LeaseExcludes'
        BY <1>4 DEF Restart
  <1>5. ASSUME NEW c \in Calls,
              BeginConfirm(c) \/ BeginExtract(c) \/ BeginRemove(c) \/ BeginSync(c)
       PROVE  LeaseExcludes'
        BY <1>5 DEF BeginConfirm, BeginExtract, BeginRemove, BeginSync
  <1>6. ASSUME NEW c \in Calls, CheckObject(c) \/ MarkUploaded(c) PROVE LeaseExcludes'
        BY <1>6 DEF CheckObject, MarkUploaded
  <1>7. ASSUME NEW c \in Calls, Queue(c) PROVE LeaseExcludes'
        BY <1>7 DEF Queue
  <1>8. ASSUME NEW c \in Calls, Reset(c) PROVE LeaseExcludes'
        <2>1. UNCHANGED Busy
              BY <1>8 DEF Reset, Busy
        <2>2. CASE UNCHANGED <<row, overlap>>
              BY <2>1, <2>2 DEF LeaseExcludes, Exists
        <2>3. CASE overlap' = (Busy # {})
              BY <2>1, <2>3 DEF LeaseExcludes
        <2> QED
              BY <1>8, <2>2, <2>3 DEF Reset, Renew
  <1>9. ASSUME NEW c \in Calls, DeleteObject(c) \/ DeleteRow(c) PROVE LeaseExcludes'
        BY <1>9 DEF DeleteObject, DeleteRow
  <1>10. ASSUME NEW c \in Calls, ReadRows(c) \/ ReadMetadata(c) PROVE LeaseExcludes'
        BY <1>10 DEF ReadRows, ReadMetadata
  <1>11. ASSUME NEW c \in Calls, InsertMissing(c) PROVE LeaseExcludes'
        <2>1. UNCHANGED Busy
              BY <1>11 DEF InsertMissing, Busy
        <2>2. CASE UNCHANGED <<row, overlap>>
              BY <2>1, <2>2 DEF LeaseExcludes, Exists
        <2>3. CASE overlap' = (Busy # {})
              BY <2>1, <2>3 DEF LeaseExcludes
        <2> QED
              BY <1>11, <2>2, <2>3 DEF InsertMissing, Renew
  <1>12. ASSUME NEW c \in Calls,
              RepairUploaded(c) \/ PurgeMissing(c)
       PROVE  LeaseExcludes'
        BY <1>12 DEF RepairUploaded, PurgeMissing
  <1>13. CASE UNCHANGED vars
        BY <1>13 DEF vars
  <1> QED
      BY <1>1, <1>2, <1>3, <1>4, <1>5, <1>6, <1>7, <1>8, <1>9, <1>10, <1>11, <1>12, <1>13
      DEF Next, Work, Handle

LEMMA OnlyStep ==
  ASSUME TypeOK, NothingBeforeUrl, OnlyUploaded, [Next]_vars
  PROVE  OnlyUploaded'
  <1> USE DEF TypeOK, OnlyUploaded, NothingBeforeUrl, Row, NoRow, Requests, Exists, Goto,
              Done, Step, Renew
  <1>1. CASE CreateUploadUrl \/ Upload \/ LeaseExpires
        BY <1>1 DEF CreateUploadUrl, Upload, LeaseExpires
  <1>2. ASSUME NEW i \in Instances,
              Claim(i) \/ Download(i) \/ Close(i)
       PROVE  OnlyUploaded'
        BY <1>2 DEF Claim, Download, Close
  <1>3. ASSUME NEW i \in Instances, NEW outcome \in {"READY", "FAILED"},
              Settle(i, outcome)
       PROVE  OnlyUploaded'
        BY <1>3 DEF Settle
  <1>4. ASSUME NEW i \in Instances, Restart(i) PROVE OnlyUploaded'
        BY <1>4 DEF Restart
  <1>5. ASSUME NEW c \in Calls,
              BeginConfirm(c) \/ BeginExtract(c) \/ BeginRemove(c) \/ BeginSync(c)
       PROVE  OnlyUploaded'
        BY <1>5 DEF BeginConfirm, BeginExtract, BeginRemove, BeginSync
  <1>6. ASSUME NEW c \in Calls, CheckObject(c) \/ MarkUploaded(c) PROVE OnlyUploaded'
        BY <1>6 DEF CheckObject, MarkUploaded
  <1>7. ASSUME NEW c \in Calls, Reset(c) \/ Queue(c) PROVE OnlyUploaded'
        BY <1>7 DEF Reset, Queue
  <1>8. ASSUME NEW c \in Calls, DeleteObject(c) \/ DeleteRow(c) PROVE OnlyUploaded'
        BY <1>8 DEF DeleteObject, DeleteRow
  <1>9. ASSUME NEW c \in Calls,
              ReadRows(c) \/ ReadMetadata(c) \/ InsertMissing(c)
       PROVE  OnlyUploaded'
        BY <1>9 DEF ReadRows, ReadMetadata, InsertMissing
  <1>10. ASSUME NEW c \in Calls,
              RepairUploaded(c) \/ PurgeMissing(c)
       PROVE  OnlyUploaded'
        BY <1>10 DEF RepairUploaded, PurgeMissing
  <1>11. CASE UNCHANGED vars
        BY <1>11 DEF vars
  <1> QED
      BY <1>1, <1>2, <1>3, <1>4, <1>5, <1>6, <1>7, <1>8, <1>9, <1>10, <1>11
      DEF Next, Work, Handle

LEMMA HeldStep ==
  ASSUME TypeOK, OnlyUploaded, LeaseIsHeld, [Next]_vars
  PROVE  LeaseIsHeld'
  <1> USE DEF TypeOK, OnlyUploaded, LeaseIsHeld, Busy, Row, NoRow, Requests, Exists, Goto,
              Done, Step, Renew
  <1>1. CASE CreateUploadUrl \/ Upload \/ LeaseExpires
        BY <1>1 DEF CreateUploadUrl, Upload, LeaseExpires
  <1>2. ASSUME NEW i \in Instances,
              Claim(i) \/ Download(i) \/ Close(i)
       PROVE  LeaseIsHeld'
        BY <1>2 DEF Claim, Download, Close
  <1>3. ASSUME NEW i \in Instances, NEW outcome \in {"READY", "FAILED"},
              Settle(i, outcome)
       PROVE  LeaseIsHeld'
        BY <1>3 DEF Settle
  <1>4. ASSUME NEW i \in Instances, Restart(i) PROVE LeaseIsHeld'
        BY <1>4 DEF Restart
  <1>5. ASSUME NEW c \in Calls,
              BeginConfirm(c) \/ BeginExtract(c) \/ BeginRemove(c) \/ BeginSync(c)
       PROVE  LeaseIsHeld'
        BY <1>5 DEF BeginConfirm, BeginExtract, BeginRemove, BeginSync
  <1>6. ASSUME NEW c \in Calls, CheckObject(c) \/ MarkUploaded(c) PROVE LeaseIsHeld'
        BY <1>6 DEF CheckObject, MarkUploaded
  <1>7. ASSUME NEW c \in Calls, Reset(c) \/ Queue(c) PROVE LeaseIsHeld'
        BY <1>7 DEF Reset, Queue
  <1>8. ASSUME NEW c \in Calls, DeleteObject(c) \/ DeleteRow(c) PROVE LeaseIsHeld'
        BY <1>8 DEF DeleteObject, DeleteRow
  <1>9. ASSUME NEW c \in Calls,
              ReadRows(c) \/ ReadMetadata(c) \/ InsertMissing(c)
       PROVE  LeaseIsHeld'
        BY <1>9 DEF ReadRows, ReadMetadata, InsertMissing
  <1>10. ASSUME NEW c \in Calls,
              RepairUploaded(c) \/ PurgeMissing(c)
       PROVE  LeaseIsHeld'
        BY <1>10 DEF RepairUploaded, PurgeMissing
  <1>11. CASE UNCHANGED vars
        BY <1>11 DEF vars
  <1> QED
      BY <1>1, <1>2, <1>3, <1>4, <1>5, <1>6, <1>7, <1>8, <1>9, <1>10, <1>11
      DEF Next, Work, Handle

LEMMA ServedStep ==
  ASSUME TypeOK, LeaseIsHeld, RequestIsServed, [Next]_vars
  PROVE  RequestIsServed'
  <1> USE DEF TypeOK, LeaseIsHeld, RequestIsServed, Busy, Row, NoRow, Requests, Exists,
              Goto, Done, Step, Renew
  <1>1. CASE CreateUploadUrl \/ Upload \/ LeaseExpires
        BY <1>1 DEF CreateUploadUrl, Upload, LeaseExpires
  <1>2. ASSUME NEW i \in Instances,
              Claim(i) \/ Download(i) \/ Close(i)
       PROVE  RequestIsServed'
        BY <1>2 DEF Claim, Download, Close
  <1>3. ASSUME NEW i \in Instances, NEW outcome \in {"READY", "FAILED"},
              Settle(i, outcome)
       PROVE  RequestIsServed'
        BY <1>3 DEF Settle
  <1>4. ASSUME NEW i \in Instances, Restart(i) PROVE RequestIsServed'
        BY <1>4 DEF Restart
  <1>5. ASSUME NEW c \in Calls,
              BeginConfirm(c) \/ BeginExtract(c) \/ BeginRemove(c) \/ BeginSync(c)
       PROVE  RequestIsServed'
        BY <1>5 DEF BeginConfirm, BeginExtract, BeginRemove, BeginSync
  <1>6. ASSUME NEW c \in Calls, CheckObject(c) \/ MarkUploaded(c) PROVE RequestIsServed'
        BY <1>6 DEF CheckObject, MarkUploaded
  <1>7. ASSUME NEW c \in Calls, Reset(c) PROVE RequestIsServed'
        BY <1>7 DEF Reset
  <1>8. ASSUME NEW c \in Calls, Queue(c) PROVE RequestIsServed'
        <2> SUFFICES ASSUME row.status = "PENDING", row.uploaded, ~lost', ~lost
                     PROVE  RequestIsServed'
              BY <1>8 DEF Queue
        <2> At[c] \in Instances
              BY DocumentExtractionAssumption DEF DocumentExtractionAssumption
        <2>1. CASE task[At[c]] = "idle"
              BY <1>8, <2>1 DEF Queue
        <2>2. CASE task[At[c]] # "idle"
              <3>1. task[At[c]] \in {"queued", "working", "fetched"} /\ task' = task
                    BY <1>8, <2>2 DEF Queue
              <3> QED
                    BY <3>1
        <2> QED
              BY <2>1, <2>2
  <1>9. ASSUME NEW c \in Calls, DeleteObject(c) \/ DeleteRow(c) PROVE RequestIsServed'
        BY <1>9 DEF DeleteObject, DeleteRow
  <1>10. ASSUME NEW c \in Calls,
              ReadRows(c) \/ ReadMetadata(c) \/ InsertMissing(c)
       PROVE  RequestIsServed'
        BY <1>10 DEF ReadRows, ReadMetadata, InsertMissing
  <1>11. ASSUME NEW c \in Calls,
              RepairUploaded(c) \/ PurgeMissing(c)
       PROVE  RequestIsServed'
        BY <1>11 DEF RepairUploaded, PurgeMissing
  <1>12. CASE UNCHANGED vars
        BY <1>12 DEF vars
  <1> QED
      BY <1>1, <1>2, <1>3, <1>4, <1>5, <1>6, <1>7, <1>8, <1>9, <1>10, <1>11, <1>12
      DEF Next, Work, Handle

LEMMA SeenStep ==
  ASSUME TypeOK, NothingBeforeUrl, SeenHasObject, [Next]_vars
  PROVE  SeenHasObject'
  <1> USE DEF TypeOK, NothingBeforeUrl, Seen, SeenHasObject, Row, NoRow, Requests, Exists,
              Goto, Done, Step, Renew
  <1>1. CASE CreateUploadUrl \/ Upload \/ LeaseExpires
        BY <1>1 DEF CreateUploadUrl, Upload, LeaseExpires
  <1>2. ASSUME NEW i \in Instances,
              Claim(i) \/ Download(i) \/ Close(i)
       PROVE  SeenHasObject'
        BY <1>2 DEF Claim, Download, Close
  <1>3. ASSUME NEW i \in Instances, NEW outcome \in {"READY", "FAILED"},
              Settle(i, outcome)
       PROVE  SeenHasObject'
        BY <1>3 DEF Settle
  <1>4. ASSUME NEW i \in Instances, Restart(i) PROVE SeenHasObject'
        BY <1>4 DEF Restart
  <1>5. ASSUME NEW c \in Calls,
              BeginConfirm(c) \/ BeginExtract(c) \/ BeginRemove(c) \/ BeginSync(c)
       PROVE  SeenHasObject'
        BY <1>5 DEF BeginConfirm, BeginExtract, BeginRemove, BeginSync
  <1>6. ASSUME NEW c \in Calls, CheckObject(c) \/ MarkUploaded(c) PROVE SeenHasObject'
        BY <1>6 DEF CheckObject, MarkUploaded
  <1>7. ASSUME NEW c \in Calls, Reset(c) \/ Queue(c) PROVE SeenHasObject'
        BY <1>7 DEF Reset, Queue
  <1>8. ASSUME NEW c \in Calls, DeleteObject(c) \/ DeleteRow(c) PROVE SeenHasObject'
        BY <1>8 DEF DeleteObject, DeleteRow
  <1>9. ASSUME NEW c \in Calls,
              ReadRows(c) \/ ReadMetadata(c) \/ InsertMissing(c)
       PROVE  SeenHasObject'
        BY <1>9 DEF ReadRows, ReadMetadata, InsertMissing
  <1>10. ASSUME NEW c \in Calls,
              RepairUploaded(c) \/ PurgeMissing(c)
       PROVE  SeenHasObject'
        BY <1>10 DEF RepairUploaded, PurgeMissing
  <1>11. CASE UNCHANGED vars
        BY <1>11 DEF vars
  <1> QED
      BY <1>1, <1>2, <1>3, <1>4, <1>5, <1>6, <1>7, <1>8, <1>9, <1>10, <1>11
      DEF Next, Work, Handle

-----------------------------------------------------------------------------
(* The theorems                                                            *)

LEMMA InvInit == Init => IInv
  <1> SUFFICES ASSUME Init PROVE IInv
      OBVIOUS
  <1>1. TypeOK
        BY DEF Init, TypeOK, Row, NoRow, Requests
  <1> QED
      BY <1>1 DEF Init, IInv, NothingBeforeUrl, LeaseExcludes, OnlyUploaded, LeaseIsHeld,
                  RequestIsServed, Seen, SeenHasObject, NoRow, Exists, Busy

LEMMA InvStep == IInv /\ [Next]_vars => IInv'
  BY TypeStep, NothingStep, LeaseStep, OnlyStep, HeldStep, ServedStep, SeenStep DEF IInv

LEMMA Invariance == Spec => []IInv
  BY InvInit, InvStep, PTL DEF Spec

\* Every reachable state of DocumentExtraction is well typed.
THEOREM TypeCorrect == Spec => []TypeOK
  <1>1. IInv => TypeOK
        BY DEF IInv
  <1> QED
      BY Invariance, <1>1, PTL

\* A document that waits for its extraction is served, unless its request was lost.
THEOREM RequestsAreServed == Spec => []RequestIsServed
  <1>1. IInv => RequestIsServed
        BY DEF IInv
  <1> QED
      BY Invariance, <1>1, PTL

\* A document marked as uploaded has its object, except around a removal.
THEOREM UploadsHaveObjects == Spec => []UploadedHasObject
  <1>1. IInv => UploadedHasObject
        BY DEF IInv, SeenHasObject, Seen, UploadedHasObject
  <1> QED
      BY Invariance, <1>1, PTL

\* A step of the extraction is one of LeasedJob, or a stutter.
LEMMA JobStep ==
  ASSUME IInv, [Next]_vars
  PROVE  [Job!Next]_(Job!vars)
  <1> USE DEF Job!vars, IInv, TypeOK
  <1>1. ASSUME Upload \/ (\E c \in Calls : \/ BeginConfirm(c) \/ BeginExtract(c)
                                           \/ BeginRemove(c) \/ BeginSync(c) \/ CheckObject(c)
                                           \/ DeleteObject(c) \/ ReadRows(c) \/ ReadMetadata(c))
        PROVE  UNCHANGED Job!vars
        BY <1>1 DEF Upload, BeginConfirm, BeginExtract, BeginRemove, BeginSync, CheckObject,
                    DeleteObject, ReadRows, ReadMetadata, Busy
  <1>2. ASSUME NEW c \in Calls, MarkUploaded(c) \/ RepairUploaded(c)
        PROVE  UNCHANGED Job!vars
        BY <1>2 DEF MarkUploaded, RepairUploaded, Busy, Row
  <1>3. ASSUME (\E i \in Instances : Download(i) \/ Close(i)) \/ \E c \in Calls : Queue(c)
        PROVE  UNCHANGED Job!vars
        BY <1>3, DocumentExtractionAssumption
        DEF Download, Close, Queue, Step, Busy, DocumentExtractionAssumption
  <1>4. ASSUME CreateUploadUrl \/ \E c \in Calls : Reset(c) \/ InsertMissing(c)
        PROVE  Job!Request \/ UNCHANGED Job!vars
        <2>1. Busy' = Busy
              BY <1>4 DEF CreateUploadUrl, Reset, InsertMissing, Busy
        <2>2. UNCHANGED <<row, overlap>> \/ \E uploaded : Renew(uploaded)
              BY <1>4 DEF CreateUploadUrl, Reset, InsertMissing
        <2> QED
              BY <2>1, <2>2 DEF Renew, Job!Request
  <1>5. ASSUME NEW c \in Calls, DeleteRow(c) \/ PurgeMissing(c)
        PROVE  Job!Withdraw \/ UNCHANGED Job!vars
        BY <1>5 DEF DeleteRow, PurgeMissing, NoRow, Busy, Job!Withdraw
  <1>6. ASSUME LeaseExpires
        PROVE  Job!Lapse \/ UNCHANGED Job!vars
        BY <1>6 DEF LeaseExpires, Row, Busy, Job!Lapse
  <1>7. ASSUME NEW i \in Instances, Claim(i)
        PROVE  Job!Take(i) \/ UNCHANGED Job!vars
        <2>1. CASE task'[i] = "working"
              <3>1. /\ row.status = "PENDING" /\ row'.status = "PENDING" /\ row.lease # "live"
                    /\ i \notin Busy /\ Busy' = Busy \cup {i} /\ overlap' = overlap
                    BY <1>7, <2>1 DEF Claim, Step, Busy, Row
              <3>2. Busy = {} \/ overlap
                    BY <3>1 DEF LeaseExcludes, Exists
              <3> QED
                    BY <3>1, <3>2 DEF Job!Take
        <2>2. CASE task'[i] # "working"
              BY <1>7, <2>2 DEF Claim, Step, Busy, Row
        <2> QED
              BY <2>1, <2>2
  <1>8. ASSUME NEW i \in Instances, NEW outcome \in {"READY", "FAILED"}, Settle(i, outcome)
        PROVE  Job!Settle(i) \/ Job!Stop(i)
        <2>1. i \in Busy /\ Busy' = Busy \ {i} /\ overlap' = overlap
              BY <1>8 DEF Settle, Step, Busy
        <2>2. row'.status = row.status \/ row'.status \in Job!Settled
              BY <1>8 DEF Settle, Row, Job!Settled
        <2> QED
              BY <2>1, <2>2 DEF Job!Settle, Job!Stop
  <1>9. ASSUME NEW i \in Instances, Restart(i)
        PROVE  Job!Stop(i) \/ UNCHANGED Job!vars
        <2>1. Busy' = Busy \ {i} /\ UNCHANGED <<row, overlap>>
              BY <1>9 DEF Restart, Step, Busy
        <2> QED
              BY <2>1 DEF Job!Stop
  <1>10. CASE UNCHANGED vars
         BY <1>10 DEF vars, Busy
  <1> QED
      BY <1>1, <1>2, <1>3, <1>4, <1>5, <1>6, <1>7, <1>8, <1>9, <1>10
      DEF Next, Handle, Work, Job!Next

\* The extraction implements LeasedJob.
THEOREM ImplementsLeasedJob == Spec => OneOutcomePerRequest
  <1>1. Init => Job!Init
        BY DEF Init, NoRow, Busy, Job!Init
  <1>2. IInv /\ [Next]_vars => [Job!Next]_(Job!vars)
        BY JobStep
  <1> QED
      BY <1>1, <1>2, Invariance, PTL DEF Spec, Job!Spec, OneOutcomePerRequest

LEMMA JobWorkers == IInv => Job!OneWorker
  BY DEF IInv, LeaseExcludes, Exists, Job!OneWorker, Job!Settled

\* So it keeps what LeasedJob promises: for any number of instances, one extraction of
\* the document runs at a time, and none once the row has an outcome, unless a lease ran
\* out or a request came during an extraction.
THEOREM OneExtraction == Spec => []Job!OneWorker
  BY Invariance, JobWorkers, PTL

\* READY is not replaced by FAILED, nor FAILED by READY, without a request between them,
\* or such an overlap.
THEOREM OutcomesStand == Spec => Job!OutcomeStands
  <1> DEFINE Replaced == /\ row.status \in Job!Settled
                         /\ (row.status)' \in Job!Settled \ {row.status}
  <1>1. IInv /\ [Next]_vars => [Replaced => overlap]_(Job!vars)
    <2> SUFFICES ASSUME IInv, [Next]_vars, ~overlap, Replaced
                 PROVE  FALSE
        OBVIOUS
    <2>1. Busy = {}
          BY JobWorkers DEF Job!OneWorker
    <2>2. Job!Next
          BY JobStep DEF Job!vars
    <2>3. ~Job!Request /\ ~Job!Lapse /\ ~Job!Withdraw
          BY DEF Job!Request, Job!Lapse, Job!Withdraw, Job!Settled
    <2>4. \A i \in Instances : ~Job!Take(i) /\ ~Job!Settle(i) /\ ~Job!Stop(i)
          BY <2>1 DEF Job!Take, Job!Settle, Job!Stop, Job!Settled
    <2> QED
        BY <2>2, <2>3, <2>4 DEF Job!Next
  <1> QED
      BY <1>1, Invariance, PTL DEF Spec, Job!OutcomeStands

=============================================================================
