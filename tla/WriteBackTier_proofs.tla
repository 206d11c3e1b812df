------------------------ MODULE WriteBackTier_proofs ------------------------
(***************************************************************************)
(* What holds of the write-back tier for every set of streams, indices,    *)
(* requests and bytes, every capacity and every choice of events.          *)
(***************************************************************************)
EXTENDS WriteBackTier, FiniteSetTheorems, TLAPS

----------------------------------------------------------------------------
(* Type correctness *)

\* The shapes of the suspended operations, by program point.
LEMMA OperationShapes ==
  ASSUME NEW o \in Operation
  PROVE  /\ o.pc \in {"record", "hit", "fill", "refill"}
              => o \in [pc : {o.pc}, key : Chunk, bytes : Bytes]
         /\ o.pc \in {"fetch", "notfound"}
              => o \in [pc : {o.pc}, key : Chunk, owed : BOOLEAN]
         /\ o.pc \in {"offload", "readopt"}
              => o \in [pc : {o.pc}, queue : SUBSET Victim]
         /\ o.pc \in {"upload", "drop"}
              => o \in [pc : {o.pc}, key : Chunk, bytes : Bytes, queue : SUBSET Victim]
         /\ o.pc = "readd"
              => o \in [pc : {o.pc}, key : Chunk, inCold : BOOLEAN, queue : SUBSET Victim]
         /\ o.pc \in {"countCold", "countOverlap", "counted"}
              => o \in [pc : {o.pc}, stream : Stream, n : Nat]
         /\ o.pc \in {"delCold", "delIndex"}
              => o \in [pc : {o.pc}, keys : SUBSET Chunk]
         /\ o.pc \in {"copy", "report"}
              => o \in [pc : {o.pc}, todo : SUBSET Chunk, refs : SUBSET Chunk,
                        missing : SUBSET Chunk]
         /\ o.pc \in {"copyRead", "copyReprobe"}
              => o \in [pc : {o.pc}, key : Chunk, todo : SUBSET Chunk,
                        refs : SUBSET Chunk, missing : SUBSET Chunk]
         /\ o.pc = "copyPut"
              => o \in [pc : {o.pc}, key : Chunk, bytes : Bytes, todo : SUBSET Chunk,
                        refs : SUBSET Chunk, missing : SUBSET Chunk]
  BY DEF Operation, IdleOp

\* There are finitely many chunks, so what the tier counts can be counted.
LEMMA ChunksFinite == IsFiniteSet(Chunk)
  BY TierAssumption, FS_Product DEF Chunk

\* The chunks a store holds of a stream, as CountLocal and CountCold count them, are a
\* natural number.
LEMMA HeldCounts ==
  ASSUME NEW s \in Stream, NEW store
  PROVE  Cardinality(Held(store, s)) \in Nat
  <1>1. Held(store, s) \subseteq Chunk
    BY DEF Held
  <1> QED
    BY <1>1, ChunksFinite, FS_Subset, FS_CardinalityType

\* Recording a chunk keeps the index well formed.
LEMMA RecordPutType ==
  ASSUME TypeOK, NEW c \in Chunk, NEW flag \in BOOLEAN, NEW victims, RecordPut(c, flag, victims)
  PROVE  entries' \subseteq Chunk /\ inCold' \subseteq entries' /\ older' \subseteq entries' \X entries'
  BY DEF TypeOK, RecordPut, FlagsOf, LatestOf

\* Victims taken from the index make a well-typed queue.
LEMMA QueueType ==
  ASSUME TypeOK, NEW victims \in SUBSET entries
  PROVE  QueueOf(victims) \in SUBSET Victim
  <1> SUFFICES ASSUME NEW c \in victims
               PROVE  [key |-> c, inCold |-> c \in inCold] \in Victim
    BY DEF QueueOf
  <1>1. (c \in inCold) \in BOOLEAN
    OBVIOUS
  <1>2. c \in Chunk
    BY DEF TypeOK
  <1> QED
    BY <1>1, <1>2 DEF Victim

\* Eviction and the idle sweep choose among the indexed chunks.
LEMMA VictimsIndexed == ASSUME NEW c PROVE VictimsOf(c) \subseteq entries
  BY DEF VictimsOf, LeastRecent, Evictable

\* ... so does the idle sweep.
LEMMA IdleVictimsIndexed == ASSUME NEW n PROVE IdleVictims(n) \subseteq entries
  BY DEF IdleVictims, LeastRecent, Evictable

\* A task that has victims left, or none, is in a well-typed operation: offloading, ...
LEMMA OffloadingType == ASSUME NEW q \in SUBSET Victim PROVE Offloading(q) \in Operation
  BY DEF Offloading, Operation, IdleOp

\* ... re-adopting, ...
LEMMA ReadoptingType == ASSUME NEW q \in SUBSET Victim PROVE Readopting(q) \in Operation
  BY DEF Readopting, Operation, IdleOp

\* ... copying for the backup, ...
LEMMA CopyingType ==
  ASSUME NEW o, o.refs \in SUBSET Chunk, NEW todo \in SUBSET Chunk, NEW missing \in SUBSET Chunk
  PROVE  Copying(o, todo, missing) \in Operation
  BY DEF Copying, Operation

\* ... or idle.
LEMMA IdleType == IdleOp \in Operation
  BY DEF Operation

\* Every task's step changes the operation of that task alone, to an operation.
LEMMA GotoType ==
  ASSUME TypeOK, NEW t \in Task, NEW o \in Operation, Goto(t, o)
  PROVE  op' \in [Task -> Operation]
  BY DEF TypeOK, Goto

\* A server that starts on empty stores is well typed ...
LEMMA TypeInit == Init => TypeOK
  BY DEF Init, TypeOK, Operation

\* ... and every step of every task keeps it so.
LEMMA TypePreserved == TypeOK /\ [Next]_vars => TypeOK'
  <1> SUFFICES ASSUME TypeOK, [Next]_vars PROVE TypeOK'
    OBVIOUS
  <1> USE DEF Task
  <1>1. ASSUME NEW t \in Request, NEW c \in Chunk, NEW b \in Bytes, PutLocal(t, c, b)
        PROVE  TypeOK'
    <2>1. [pc |-> "record", key |-> c, bytes |-> b] \in Operation
      BY DEF Operation
    <2>2. op' \in [Task -> Operation]
      BY <1>1, <2>1, GotoType DEF PutLocal
    <2> QED
      BY <1>1, <2>2 DEF TypeOK, PutLocal, indexVars
  <1>2. ASSUME NEW t \in Task, PutRecord(t)
        PROVE  TypeOK'
    <2>1. op[t].key \in Chunk
      BY <1>2, OperationShapes DEF TypeOK, PutRecord
    <2>2. op' \in [Task -> Operation]
      BY <1>2, VictimsIndexed, QueueType, OffloadingType, GotoType DEF PutRecord
    <2> QED
      BY <1>2, <2>1, <2>2, RecordPutType DEF TypeOK, PutRecord, storeVars, historyVars
  <1>3. ASSUME NEW t \in Task, OffloadDrop(t)
        PROVE  TypeOK'
    <2>1. op[t].queue \in SUBSET Victim
      BY <1>3, OperationShapes DEF TypeOK, OffloadDrop
    <2>2. op' \in [Task -> Operation]
      BY <1>3, <2>1, OffloadingType, GotoType DEF OffloadDrop
    <2>3. local' \in [Chunk -> Bytes \cup {None}]
      BY <1>3 DEF TypeOK, OffloadDrop, Without
    <2> QED
      BY <1>3, <2>2, <2>3 DEF TypeOK, OffloadDrop, indexVars, historyVars
  <1>4. ASSUME NEW t \in Task, OffloadRead(t)
        PROVE  TypeOK'
    <2>1. PICK v \in op[t].queue :
            /\ Present(local, v.key)
            /\ Goto(t, [pc |-> "upload", key |-> v.key, bytes |-> local[v.key],
                        queue |-> op[t].queue \ {v}])
      BY <1>4 DEF OffloadRead
    <2>2. op[t].queue \in SUBSET Victim
      BY <1>4, OperationShapes DEF TypeOK, OffloadRead
    <2>3. v.key \in Chunk /\ local[v.key] \in Bytes
      BY <2>1, <2>2 DEF TypeOK, Victim, Present
    <2>4. [pc |-> "upload", key |-> v.key, bytes |-> local[v.key],
           queue |-> op[t].queue \ {v}] \in Operation
      BY <2>2, <2>3 DEF Operation
    <2>5. op' \in [Task -> Operation]
      BY <2>1, <2>4, GotoType
    <2> QED
      BY <1>4, <2>5 DEF TypeOK, OffloadRead, others
  <1>5. ASSUME NEW t \in Task, OffloadUpload(t)
        PROVE  TypeOK'
    <2>1. op[t] \in [pc : {"upload"}, key : Chunk, bytes : Bytes, queue : SUBSET Victim]
      BY <1>5, OperationShapes DEF TypeOK, OffloadUpload
    <2>2. [op[t] EXCEPT !.pc = "drop"] \in Operation
      BY <2>1 DEF Operation
    <2>3. op' \in [Task -> Operation]
      BY <1>5, <2>2, GotoType DEF OffloadUpload
    <2> QED
      BY <1>5, <2>1, <2>3 DEF TypeOK, OffloadUpload, indexVars, historyVars
  <1>6. ASSUME NEW t \in Task, OffloadDelete(t)
        PROVE  TypeOK'
    <2>1. op[t].queue \in SUBSET Victim
      BY <1>6, OperationShapes DEF TypeOK, OffloadDelete
    <2>2. op' \in [Task -> Operation]
      BY <1>6, <2>1, OffloadingType, GotoType DEF OffloadDelete
    <2> QED
      BY <1>6, <2>2 DEF TypeOK, OffloadDelete, Without, indexVars, historyVars
  <1>7. ASSUME NEW t \in Task, OffloadFails(t)
        PROVE  TypeOK'
    <2>1. CASE /\ op[t].pc = "offload"
               /\ Goto(t, [pc |-> "readopt", queue |-> op[t].queue])
               /\ UNCHANGED cold
      <3>1. op[t].queue \in SUBSET Victim
        BY <2>1, OperationShapes DEF TypeOK
      <3>2. [pc |-> "readopt", queue |-> op[t].queue] \in Operation
        BY <3>1 DEF Operation
      <3>3. op' \in [Task -> Operation]
        BY <2>1, <3>2, GotoType
      <3> QED
        BY <1>7, <2>1, <3>3 DEF TypeOK, OffloadFails, indexVars, historyVars
    <2>2. CASE /\ op[t].pc \in {"upload", "drop"}
               /\ Goto(t, [pc |-> "readopt",
                           queue |-> op[t].queue \cup {[key |-> op[t].key, inCold |-> FALSE]}])
               /\ \/ UNCHANGED cold
                  \/ op[t].pc = "upload" /\ cold' = [cold EXCEPT ![op[t].key] = op[t].bytes]
      <3>1. op[t].queue \in SUBSET Victim /\ op[t].key \in Chunk /\ op[t].bytes \in Bytes
        BY <2>2, OperationShapes DEF TypeOK
      <3>2. [pc |-> "readopt",
             queue |-> op[t].queue \cup {[key |-> op[t].key, inCold |-> FALSE]}] \in Operation
        <4>1. [key |-> op[t].key, inCold |-> FALSE] \in Victim
          BY <3>1 DEF Victim
        <4> QED
          BY <3>1, <4>1 DEF Operation
      <3>3. op' \in [Task -> Operation]
        BY <2>2, <3>2, GotoType
      <3>4. cold' \in [Chunk -> Bytes \cup {None}]
        BY <2>2, <3>1 DEF TypeOK
      <3> QED
        BY <1>7, <3>3, <3>4 DEF TypeOK, OffloadFails, indexVars, historyVars
    <2> QED
      BY <1>7, <2>1, <2>2 DEF OffloadFails
  <1>8. ASSUME NEW t \in Task, ReadoptRead(t)
        PROVE  TypeOK'
    <2>1. op[t].queue \in SUBSET Victim
      BY <1>8, OperationShapes DEF TypeOK, ReadoptRead
    <2>2. ASSUME NEW v \in op[t].queue
          PROVE  [pc |-> "readd", key |-> v.key, inCold |-> v.inCold,
                  queue |-> op[t].queue \ {v}] \in Operation
      BY <2>1 DEF Operation, Victim
    <2>3. op' \in [Task -> Operation]
      BY <1>8, <2>1, <2>2, ReadoptingType, GotoType DEF ReadoptRead
    <2> QED
      BY <1>8, <2>3 DEF TypeOK, ReadoptRead, others
  <1>9. ASSUME NEW t \in Task, ReadoptRecord(t)
        PROVE  TypeOK'
    <2>1. op[t] \in [pc : {"readd"}, key : Chunk, inCold : BOOLEAN, queue : SUBSET Victim]
      BY <1>9, OperationShapes DEF TypeOK, ReadoptRecord
    <2>2. op' \in [Task -> Operation]
      BY <1>9, <2>1, ReadoptingType, GotoType DEF ReadoptRecord
    <2> QED
      BY <1>9, <2>1, <2>2, RecordPutType DEF TypeOK, ReadoptRecord, storeVars, historyVars
  <1>10. ASSUME NEW t \in Task, NEW c \in Chunk, GetLocalHit(t, c)
         PROVE  TypeOK'
    <2>1. [pc |-> "hit", key |-> c, bytes |-> local[c]] \in Operation
      BY <1>10 DEF TypeOK, GetLocalHit, Present, Operation
    <2>2. op' \in [Task -> Operation]
      BY <1>10, <2>1, GotoType DEF GetLocalHit
    <2> QED
      BY <1>10, <2>2 DEF TypeOK, GetLocalHit, others
  <1>11. ASSUME NEW t \in Task, GetHitRecord(t)
         PROVE  TypeOK'
    <2>1. op[t].key \in Chunk
      BY <1>11, OperationShapes DEF TypeOK, GetHitRecord
    <2>2. op' \in [Task -> Operation]
      BY <1>11, IdleType, GotoType DEF GetHitRecord, Finish
    <2>3. CASE op[t].key \in entries
      BY <1>11, <2>1, <2>2, <2>3
      DEF TypeOK, GetHitRecord, RecordAccess, LatestOf, storeVars, historyVars
    <2>4. CASE op[t].key \notin entries
      BY <1>11, <2>1, <2>2, <2>4, RecordPutType DEF TypeOK, GetHitRecord, storeVars, historyVars
    <2> QED
      BY <2>3, <2>4
  <1>12. ASSUME NEW t \in Task, NEW c \in Chunk, GetLocalMiss(t, c)
         PROVE  TypeOK'
    <2>1. [pc |-> "fetch", key |-> c, owed |-> Wanted(c)] \in Operation
      <3>1. Wanted(c) \in BOOLEAN
        BY DEF Wanted
      <3> QED
        BY <3>1 DEF Operation
    <2>2. op' \in [Task -> Operation]
      BY <1>12, <2>1, GotoType DEF GetLocalMiss
    <2> QED
      BY <1>12, <2>2 DEF TypeOK, GetLocalMiss, storeVars, indexVars, historyVars
  <1>13. ASSUME NEW t \in Task, GetCold(t)
         PROVE  TypeOK'
    <2>1. op[t] \in [pc : {"fetch"}, key : Chunk, owed : BOOLEAN]
      BY <1>13, OperationShapes DEF TypeOK, GetCold
    <2>2. Present(cold, op[t].key)
            => [pc |-> "fill", key |-> op[t].key, bytes |-> cold[op[t].key]] \in Operation
      BY <2>1 DEF TypeOK, Present, Operation
    <2>3. [op[t] EXCEPT !.pc = "notfound"] \in Operation
      BY <2>1 DEF Operation
    <2>4. op' \in [Task -> Operation]
      BY <1>13, <2>2, <2>3, IdleType, GotoType DEF GetCold, Finish
    <2> QED
      BY <1>13, <2>4 DEF TypeOK, GetCold, storeVars, indexVars, historyVars
  <1>14. ASSUME NEW t \in Task, GetFill(t)
         PROVE  TypeOK'
    <2>1. op[t] \in [pc : {"fill"}, key : Chunk, bytes : Bytes]
      BY <1>14, OperationShapes DEF TypeOK, GetFill
    <2>2. [op[t] EXCEPT !.pc = "refill"] \in Operation
      BY <2>1 DEF Operation
    <2>3. op' \in [Task -> Operation]
      BY <1>14, <2>2, IdleType, GotoType DEF GetFill, Finish
    <2> QED
      BY <1>14, <2>1, <2>3 DEF TypeOK, GetFill, indexVars, historyVars
  <1>15. ASSUME NEW t \in Task, GetFillRecord(t)
         PROVE  TypeOK'
    <2>1. op[t].key \in Chunk
      BY <1>15, OperationShapes DEF TypeOK, GetFillRecord
    <2>2. op' \in [Task -> Operation]
      BY <1>15, VictimsIndexed, QueueType, OffloadingType, GotoType DEF GetFillRecord
    <2> QED
      BY <1>15, <2>1, <2>2, RecordPutType DEF TypeOK, GetFillRecord, storeVars, historyVars
  <1>16. ASSUME NEW t \in Task, NEW s \in Stream, CountLocal(t, s)
         PROVE  TypeOK'
    <2>1. [pc |-> "countCold", stream |-> s, n |-> Cardinality(Held(local, s))] \in Operation
      BY HeldCounts DEF Operation
    <2>2. op' \in [Task -> Operation]
      BY <1>16, <2>1, GotoType DEF CountLocal
    <2> QED
      BY <1>16, <2>2 DEF TypeOK, CountLocal, others
  <1>17. ASSUME NEW t \in Task, CountCold(t)
         PROVE  TypeOK'
    <2>1. op[t] \in [pc : {"countCold"}, stream : Stream, n : Nat]
      BY <1>17, OperationShapes DEF TypeOK, CountCold
    <2>2. Cardinality(Held(cold, op[t].stream)) \in Nat
      BY <2>1, HeldCounts
    <2>3. /\ [pc |-> "countOverlap", stream |-> op[t].stream,
              n |-> op[t].n + Cardinality(Held(cold, op[t].stream))] \in Operation
          /\ [op[t] EXCEPT !.pc = "counted"] \in Operation
      BY <2>1, <2>2 DEF Operation
    <2>4. op' \in [Task -> Operation]
      BY <1>17, <2>3, GotoType DEF CountCold
    <2> QED
      BY <1>17, <2>4 DEF TypeOK, CountCold, others
  <1>18. ASSUME NEW t \in Task, CountOverlap(t)
         PROVE  TypeOK'
    <2>1. op[t] \in [pc : {"countOverlap"}, stream : Stream, n : Nat]
      BY <1>18, OperationShapes DEF TypeOK, CountOverlap
    <2>2. Overlap(op[t].stream) \in Nat
      <3>1. {c \in inCold : c[1] = op[t].stream} \subseteq Chunk
        BY DEF TypeOK
      <3> QED
        BY <3>1, ChunksFinite, FS_Subset, FS_CardinalityType DEF Overlap
    <2>3. [pc |-> "counted", stream |-> op[t].stream,
           n |-> SaturatingSub(op[t].n, Overlap(op[t].stream))] \in Operation
      BY <2>1, <2>2 DEF Operation, SaturatingSub
    <2>4. op' \in [Task -> Operation]
      BY <1>18, <2>3, GotoType DEF CountOverlap
    <2> QED
      BY <1>18, <2>4 DEF TypeOK, CountOverlap, others
  <1>19. ASSUME NEW t \in Task, NEW s \in Stream, DeleteLocal(t, s)
         PROVE  TypeOK'
    <2> DEFINE keys == {c \in Chunk : c[1] = s}
    <2>1. [pc |-> "delCold", keys |-> keys] \in Operation
      BY DEF Operation
    <2>2. op' \in [Task -> Operation]
      BY <1>19, <2>1, GotoType DEF DeleteLocal
    <2> QED
      BY <1>19, <2>2 DEF TypeOK, DeleteLocal, indexVars
  <1>20. ASSUME NEW t \in Task, DeleteCold(t)
         PROVE  TypeOK'
    <2>1. op[t] \in [pc : {"delCold"}, keys : SUBSET Chunk]
      BY <1>20, OperationShapes DEF TypeOK, DeleteCold
    <2>2. [op[t] EXCEPT !.pc = "delIndex"] \in Operation
      BY <2>1 DEF Operation
    <2>3. op' \in [Task -> Operation]
      BY <1>20, <2>2, IdleType, GotoType DEF DeleteCold, Finish
    <2> QED
      BY <1>20, <2>3 DEF TypeOK, DeleteCold, indexVars, historyVars
  <1>21. ASSUME NEW t \in Task, DeleteIndex(t)
         PROVE  TypeOK'
    <2>1. op' \in [Task -> Operation]
      BY <1>21, IdleType, GotoType DEF DeleteIndex, Finish
    <2> QED
      BY <1>21, <2>1 DEF TypeOK, DeleteIndex, storeVars, historyVars
  <1>22. ASSUME NEW t \in Task, NEW n, Sweep(t, n)
         PROVE  TypeOK'
    <2>1. op' \in [Task -> Operation]
      BY <1>22, IdleVictimsIndexed, QueueType, OffloadingType, GotoType DEF Sweep
    <2> QED
      BY <1>22, <2>1 DEF TypeOK, Sweep, others
  <1>23. ASSUME NEW t \in Task, BackupBegin(t)
         PROVE  TypeOK'
    <2>1. [pc |-> "copy", todo |-> FinalizedRefs, refs |-> FinalizedRefs, missing |-> {}]
            \in Operation
      BY DEF Operation, FinalizedRefs
    <2>2. op' \in [Task -> Operation]
      BY <1>23, <2>1, GotoType DEF BackupBegin
    <2> QED
      BY <1>23, <2>2 DEF TypeOK, BackupBegin, others
  <1>24. ASSUME NEW t \in Task, BackupProbe(t)
         PROVE  TypeOK'
    <2>1. op[t] \in [pc : {"copy"}, todo : SUBSET Chunk, refs : SUBSET Chunk,
                     missing : SUBSET Chunk]
      BY <1>24, OperationShapes DEF TypeOK, BackupProbe
    <2>2. ASSUME NEW c \in op[t].todo
          PROVE  /\ Copying(op[t], op[t].todo \ {c}, op[t].missing) \in Operation
                 /\ [pc |-> "copyRead", key |-> c, todo |-> op[t].todo \ {c},
                     refs |-> op[t].refs, missing |-> op[t].missing] \in Operation
      <3>1. op[t].todo \ {c} \in SUBSET Chunk
        BY <2>1
      <3> QED
        BY <2>1, <3>1, CopyingType DEF Operation
    <2>3. op' \in [Task -> Operation]
      BY <1>24, <2>2, GotoType DEF BackupProbe
    <2> QED
      BY <1>24, <2>3 DEF TypeOK, BackupProbe, others
  <1>25. ASSUME NEW t \in Task, BackupRead(t)
         PROVE  TypeOK'
    <2>1. op[t] \in [pc : {"copyRead"}, key : Chunk, todo : SUBSET Chunk,
                     refs : SUBSET Chunk, missing : SUBSET Chunk]
      BY <1>25, OperationShapes DEF TypeOK, BackupRead
    <2>2. CASE Present(local, op[t].key)
      <3>1. [pc |-> "copyPut", key |-> op[t].key, bytes |-> local[op[t].key],
             todo |-> op[t].todo, refs |-> op[t].refs, missing |-> op[t].missing] \in Operation
        BY <2>1, <2>2 DEF TypeOK, Present, Operation
      <3>2. op' \in [Task -> Operation]
        BY <1>25, <2>2, <3>1, GotoType DEF BackupRead
      <3> QED
        BY <1>25, <3>2 DEF TypeOK, BackupRead, others
    <2>3. CASE ~Present(local, op[t].key)
      <3>1. [op[t] EXCEPT !.pc = "copyReprobe"] \in Operation
        BY <2>1 DEF Operation
      <3>2. op' \in [Task -> Operation]
        BY <1>25, <2>3, <3>1, GotoType DEF BackupRead
      <3> QED
        BY <1>25, <3>2 DEF TypeOK, BackupRead, others
    <2> QED
      BY <2>2, <2>3
  <1>26. ASSUME NEW t \in Task, BackupReprobe(t)
         PROVE  TypeOK'
    <2>1. op[t] \in [pc : {"copyReprobe"}, key : Chunk, todo : SUBSET Chunk,
                     refs : SUBSET Chunk, missing : SUBSET Chunk]
      BY <1>26, OperationShapes DEF TypeOK, BackupReprobe
    <2>2. op[t].missing \cup HoleAt(op[t].key) \in SUBSET Chunk
      BY <2>1 DEF HoleAt
    <2>3. op' \in [Task -> Operation]
      BY <1>26, <2>1, <2>2, CopyingType, GotoType DEF BackupReprobe
    <2> QED
      BY <1>26, <2>3 DEF TypeOK, BackupReprobe, others
  <1>27. ASSUME NEW t \in Task, BackupPut(t)
         PROVE  TypeOK'
    <2>1. op[t] \in [pc : {"copyPut"}, key : Chunk, bytes : Bytes, todo : SUBSET Chunk,
                     refs : SUBSET Chunk, missing : SUBSET Chunk]
      BY <1>27, OperationShapes DEF TypeOK, BackupPut
    <2>2. op' \in [Task -> Operation]
      BY <1>27, <2>1, CopyingType, GotoType DEF BackupPut
    <2> QED
      BY <1>27, <2>1, <2>2 DEF TypeOK, BackupPut, indexVars, historyVars
  <1>28. ASSUME NEW t \in Task, Return(t) \/ BackupAbort(t)
         PROVE  TypeOK'
    <2>1. op' \in [Task -> Operation]
      BY <1>28, IdleType, GotoType DEF Return, BackupAbort, Finish
    <2> QED
      BY <1>28, <2>1 DEF TypeOK, Return, BackupAbort, others
  <1>29. ASSUME Restart
         PROVE  TypeOK'
    <2>1. op' \in [Task -> Operation]
      BY <1>29, IdleType DEF TypeOK, Restart
    <2> QED
      BY <1>29, <2>1 DEF TypeOK, Restart, storeVars, historyVars
  <1>30. ASSUME NEW t \in Task, Cancel(t)
         PROVE  TypeOK'
    <2>1. op' \in [Task -> Operation]
      BY <1>30, IdleType, GotoType DEF Cancel, Finish
    <2>2. cold' \in [Chunk -> Bytes \cup {None}]
      <3>1. op[t].pc = "upload" => op[t].bytes \in Bytes
        BY OperationShapes DEF TypeOK
      <3> QED
        BY <1>30, <3>1 DEF TypeOK, Cancel
    <2> QED
      BY <1>30, <2>1, <2>2 DEF TypeOK, Cancel, indexVars, historyVars
  <1>31. CASE UNCHANGED vars
    BY <1>31 DEF TypeOK, vars
  <1> QED
    BY <1>1, <1>2, <1>3, <1>4, <1>5, <1>6, <1>7, <1>8, <1>9, <1>10, <1>11, <1>12, <1>13,
       <1>14, <1>15, <1>16, <1>17, <1>18, <1>19, <1>20, <1>21, <1>22, <1>23, <1>24, <1>25,
       <1>26, <1>27, <1>28, <1>29, <1>30, <1>31 DEF Next, Call, Proceed, Copy

\* Every reachable state of the tier is well typed; in particular the in_cold flags are
\* flags of indexed chunks, though record_put and remove_stream update the two apart.
THEOREM TypeCorrect == Spec => []TypeOK
  BY TypeInit, TypePreserved, PTL DEF Spec

----------------------------------------------------------------------------
(* The inductive invariant behind the durability properties *)

\* The chunks whose local copy may go: dead ones, and those the cold tier holds.
Safe == {c \in Chunk : c \in gone \/ Present(cold, c)}

\* The chunks that are dead or in either store; those sent and not lost since.
Known == {c \in Chunk : c \in gone \/ Present(cold, c) \/ Present(local, c)}
Due == {c \in Chunk : c \in gone \/ Wanted(c)}

\* What a suspended operation relies on: an already-cold victim, a chunk about to
\* be dropped or rehydrated and a read that was owed its chunk are safe; an upload
\* carries a known chunk; a deletion works on dead ones; and a backup's references
\* are safe, missing and dead, or still ahead of it.
OpRelies(o, safe, known, due, dead) ==
  /\ o.pc \in {"offload", "readopt", "upload", "drop", "readd"} =>
       \A v \in o.queue : v.inCold => v.key \in safe
  /\ o.pc = "readd" /\ o.inCold => o.key \in safe
  /\ o.pc \in {"upload", "copyPut"} => o.key \in known
  /\ o.pc \in {"drop", "fill", "refill", "copyReprobe"} => o.key \in safe
  /\ o.pc = "fetch" /\ o.owed => o.key \in safe
  /\ o.pc = "notfound" /\ o.owed => o.key \in dead
  /\ o.pc \in {"delCold", "delIndex"} => o.keys \subseteq dead
  /\ o.pc \in {"copy", "report", "copyRead", "copyReprobe", "copyPut"} =>
       /\ o.refs \subseteq due
       /\ o.todo \subseteq o.refs
       /\ o.missing \subseteq dead
  /\ o.pc = "report" => o.refs \subseteq safe \cup o.missing
  /\ o.pc = "copy" => o.refs \subseteq safe \cup o.missing \cup o.todo
  /\ o.pc \in {"copyRead", "copyReprobe", "copyPut"} =>
       /\ o.key \in o.refs
       /\ o.refs \subseteq safe \cup o.missing \cup o.todo \cup {o.key}

Durable ==
  /\ Due \subseteq Known
  /\ \A c \in Chunk : Wanted(c) => c \notin gone
  /\ inCold \subseteq Safe
  /\ \A t \in Task : OpRelies(op[t], Safe, Known, Due, gone)

\* What an operation relies on survives when more chunks are safe, known, due and dead.
LEMMA ReliesMonotone ==
  ASSUME NEW o, NEW safe, NEW known, NEW due, NEW dead,
         NEW safe1, NEW known1, NEW due1, NEW dead1,
         safe \subseteq safe1, known \subseteq known1, due \subseteq due1, dead \subseteq dead1,
         OpRelies(o, safe, known, due, dead)
  PROVE  OpRelies(o, safe1, known1, due1, dead1)
  BY DEF OpRelies

\* An idle task relies on nothing.
LEMMA IdleRelies == \A safe, known, due, dead : OpRelies(IdleOp, safe, known, due, dead)
  BY DEF OpRelies, IdleOp

\* A task with victims left to offload, re-adopt or copy relies on their flags and lists.
LEMMA OffloadingRelies ==
  ASSUME NEW safe, NEW known, NEW due, NEW dead, NEW queue,
         \A v \in queue : v.inCold => v.key \in safe
  PROVE  OpRelies(Offloading(queue), safe, known, due, dead)
  BY DEF OpRelies, Offloading, IdleOp

\* ... to re-adopt, ...
LEMMA ReadoptingRelies ==
  ASSUME NEW safe, NEW known, NEW due, NEW dead, NEW queue,
         \A v \in queue : v.inCold => v.key \in safe
  PROVE  OpRelies(Readopting(queue), safe, known, due, dead)
  BY DEF OpRelies, Readopting, IdleOp

\* ... to copy for the backup.
LEMMA CopyingRelies ==
  ASSUME NEW safe, NEW known, NEW due, NEW dead, NEW o, NEW todo, NEW missing,
         o.refs \subseteq due, todo \subseteq o.refs, missing \subseteq dead,
         o.refs \subseteq safe \cup missing \cup todo
  PROVE  OpRelies(Copying(o, todo, missing), safe, known, due, dead)
  BY DEF OpRelies, Copying

\* A queue built from the index relies on its flags alone.
LEMMA QueueSafe ==
  ASSUME NEW victims, NEW safe, inCold \subseteq safe, NEW v \in QueueOf(victims), v.inCold
  PROVE  v.key \in safe
  <1>1. PICK c \in victims : v = [key |-> c, inCold |-> c \in inCold]
    BY DEF QueueOf
  <1>2. v.key = c /\ v.inCold = (c \in inCold)
    BY <1>1
  <1> QED
    BY <1>2

\* record_put flags no chunk as cold that is not safe.
LEMMA RecordPutFlags ==
  ASSUME NEW c, NEW flag \in BOOLEAN, NEW victims, NEW safe,
         RecordPut(c, flag, victims), inCold \subseteq safe, flag => c \in safe
  PROVE  inCold' \subseteq safe
  BY DEF RecordPut, FlagsOf

\* How a step may change what is known and dead.
Kept == Known' = Known /\ gone' = gone
Added(c) == Known' = Known \cup {c} /\ gone' = gone
Removed(keys) == Known' = Known \cup keys /\ gone' = gone \cup keys

\* A step that neither sends a chunk nor deletes a stream.
LEMMA StepKeeps ==
  ASSUME Durable, TypeOK, NEW t \in Task, NEW o, Goto(t, o), UNCHANGED historyVars,
         Safe \subseteq Safe', Known' = Known, inCold' \subseteq Safe',
         OpRelies(o, Safe', Known, Due, gone)
  PROVE  Durable' /\ Kept
  <1>1. Due' = Due /\ gone' = gone /\ written' = written
    BY DEF historyVars, Due, Wanted
  <1>2. ASSUME NEW u \in Task
        PROVE  OpRelies(op'[u], Safe', Known', Due', gone')
    <2>1. op'[u] = IF u = t THEN o ELSE op[u]
      BY DEF Goto, TypeOK
    <2>2. OpRelies(op[u], Safe', Known, Due, gone)
      BY ReliesMonotone DEF Durable
    <2> QED
      BY <1>1, <2>1, <2>2
  <1> QED
    BY <1>1, <1>2 DEF Durable, Kept, Wanted

\* ... and leaves both stores alone.
LEMMA StepInPlace ==
  ASSUME Durable, TypeOK, NEW t \in Task, NEW o, Goto(t, o),
         UNCHANGED <<storeVars, historyVars>>, inCold' \subseteq Safe,
         OpRelies(o, Safe, Known, Due, gone)
  PROVE  Durable' /\ Kept
  <1>1. Safe' = Safe /\ Known' = Known
    BY DEF Safe, Known, Present, storeVars, historyVars
  <1> QED
    BY <1>1, StepKeeps

\* ... or writes a known chunk to the cold tier.
LEMMA ColdWritten ==
  ASSUME TypeOK, NEW k \in Known, NEW b \in Bytes,
         cold' = [cold EXCEPT ![k] = b], UNCHANGED <<local, gone>>
  PROVE  Safe \subseteq Safe' /\ Known' = Known /\ k \in Safe'
  <1>1. b # None
    BY TierAssumption
  <1>2. k \in Chunk /\ cold'[k] = b /\ \A c \in Chunk \ {k} : cold'[c] = cold[c]
    BY DEF Known, TypeOK
  <1> QED
    BY <1>1, <1>2 DEF Safe, Known, Present

\* ... or drops a safe one from the local store.
LEMMA LocalDropped ==
  ASSUME TypeOK, NEW k \in Safe, local' = Without(local, k), UNCHANGED <<cold, gone>>
  PROVE  Safe' = Safe /\ Known' = Known
  BY DEF Safe, Known, Present, TypeOK, Without

\* ... or takes dead ones out of the cold tier.
LEMMA ColdPurged ==
  ASSUME TypeOK, NEW keys \in SUBSET gone, UNCHANGED <<local, gone>>,
         cold' = [c \in Chunk |-> IF c \in keys THEN None ELSE cold[c]]
  PROVE  Safe' = Safe /\ Known' = Known
  BY DEF Safe, Known, Present, TypeOK

\* Durable is inductive: it holds at the start ...
LEMMA DurableInit == Init => Durable
  BY DEF Init, Durable, Due, Safe, Known, Wanted, OpRelies, IdleOp

\* ... and every step keeps it, and adds to what callers may read one chunk, deletes one
\* stream, or leaves it alone.
LEMMA DurablePreserved ==
  ASSUME TypeOK, Durable, [Next]_vars
  PROVE  /\ Durable'
         /\ \/ Kept
            \/ \E c \in Chunk : Added(c)
            \/ \E s \in Stream : Removed({c \in Chunk : c[1] = s})
  <1> USE DEF Task
  <1> DEFINE Relies(o) == OpRelies(o, Safe, Known, Due, gone)
  <1>a. \A t \in Task : op[t] \in Operation /\ Relies(op[t])
    BY DEF Durable, TypeOK
  <1>b. inCold \subseteq Safe /\ Safe \subseteq Known /\ Due \subseteq Known
    BY DEF Durable, Safe, Known
  <1>1. ASSUME NEW t \in Request, NEW c \in Chunk, NEW b \in Bytes, PutLocal(t, c, b)
        PROVE  Durable' /\ Added(c)
    <2>1. b # None
      BY TierAssumption
    <2>2. Safe' = Safe /\ Known' = Known \cup {c} /\ gone' = gone /\ Due \subseteq Due'
      BY <1>1, <2>1 DEF PutLocal, Safe, Known, Due, Present, Wanted, TypeOK
    <2>3. Due' \subseteq Known'
      BY <1>1, <1>b, <2>2 DEF PutLocal, Due, Wanted, TypeOK
    <2>4. \A d \in Chunk : Wanted(d)' => d \notin gone'
      BY <1>1 DEF PutLocal, Durable, Wanted, TypeOK
    <2>5. inCold' \subseteq Safe'
      BY <1>1, <1>b, <2>2 DEF PutLocal, indexVars
    <2>6. ASSUME NEW u \in Task
          PROVE  OpRelies(op'[u], Safe', Known', Due', gone')
      <3>1. CASE u = t
        <4>1. op'[u] = [pc |-> "record", key |-> c, bytes |-> b]
          BY <1>1, <3>1 DEF PutLocal, Goto, TypeOK
        <4> QED
          BY <4>1 DEF OpRelies
      <3>2. CASE u # t
        <4>1. op'[u] = op[u]
          BY <1>1, <3>2 DEF PutLocal, Goto, TypeOK
        <4> QED
          BY <1>a, <2>2, <4>1, ReliesMonotone
      <3> QED
        BY <3>1, <3>2
    <2> QED
      BY <2>2, <2>3, <2>4, <2>5, <2>6 DEF Durable, Added
  <1>2. ASSUME NEW t \in Request, NEW s \in Stream, DeleteLocal(t, s)
        PROVE  Durable' /\ Removed({c \in Chunk : c[1] = s})
    <2> DEFINE keys == {c \in Chunk : c[1] = s}
    <2>1. Safe' = Safe \cup keys /\ Known' = Known \cup keys /\ gone' = gone \cup keys
          /\ Due' = Due \cup keys
      BY <1>2 DEF DeleteLocal, Safe, Known, Due, Present, Wanted, TypeOK
    <2>2. \A d \in Chunk : Wanted(d)' => d \notin gone'
      BY <1>2 DEF DeleteLocal, Durable, Wanted, TypeOK
    <2>3. inCold' \subseteq Safe'
      BY <1>2, <1>b, <2>1 DEF DeleteLocal, indexVars
    <2>4. ASSUME NEW u \in Task
          PROVE  OpRelies(op'[u], Safe', Known', Due', gone')
      <3>1. CASE u = t
        <4>1. op'[u] = [pc |-> "delCold", keys |-> keys]
          BY <1>2, <3>1 DEF DeleteLocal, Goto, TypeOK
        <4> QED
          BY <2>1, <4>1 DEF OpRelies
      <3>2. CASE u # t
        <4>1. op'[u] = op[u]
          BY <1>2, <3>2 DEF DeleteLocal, Goto, TypeOK
        <4> QED
          BY <1>a, <2>1, <4>1, ReliesMonotone
      <3> QED
        BY <3>1, <3>2
    <2> QED
      BY <1>b, <2>1, <2>2, <2>3, <2>4 DEF Durable, Removed
  <1>3. ASSUME NEW t \in Task, PutRecord(t)
        PROVE  Durable' /\ Kept
    <2>1. inCold' \subseteq Safe
      BY <1>3, <1>b, RecordPutFlags DEF PutRecord
    <2>2. Relies(Offloading(QueueOf(VictimsOf(op[t].key))))
      BY <1>b, QueueSafe, OffloadingRelies
    <2> QED
      BY <1>3, <2>1, <2>2, StepInPlace DEF PutRecord
  <1>4. ASSUME NEW t \in Task, OffloadDrop(t)
        PROVE  Durable' /\ Kept
    <2>1. PICK v \in op[t].queue :
            /\ \/ v.inCold /\ local' = Without(local, v.key)
               \/ UNCHANGED local
            /\ Goto(t, Offloading(op[t].queue \ {v}))
      BY <1>4 DEF OffloadDrop
    <2>2. \A w \in op[t].queue : w.inCold => w.key \in Safe
      BY <1>4, <1>a DEF OffloadDrop, OpRelies
    <2>3. UNCHANGED <<cold, indexVars, historyVars>>
      BY <1>4 DEF OffloadDrop
    <2>4. Safe' = Safe /\ Known' = Known
      <3>1. CASE v.inCold /\ local' = Without(local, v.key)
        BY <2>2, <2>3, <3>1, LocalDropped DEF historyVars
      <3>2. CASE UNCHANGED local
        BY <2>3, <3>2 DEF Safe, Known, Present, historyVars
      <3> QED
        BY <2>1, <3>1, <3>2
    <2>5. Relies(Offloading(op[t].queue \ {v}))
      BY <2>2, OffloadingRelies
    <2>6. inCold' \subseteq Safe'
      BY <1>b, <2>3, <2>4 DEF indexVars
    <2> QED
      BY <2>1, <2>3, <2>4, <2>5, <2>6, StepKeeps
  <1>5. ASSUME NEW t \in Task, OffloadRead(t)
        PROVE  Durable' /\ Kept
    <2>1. PICK v \in op[t].queue :
            /\ Present(local, v.key)
            /\ Goto(t, [pc |-> "upload", key |-> v.key, bytes |-> local[v.key],
                        queue |-> op[t].queue \ {v}])
      BY <1>5 DEF OffloadRead
    <2>2. op[t].queue \in SUBSET Victim
      BY <1>5, <1>a, OperationShapes DEF OffloadRead
    <2>3. v.key \in Known
      BY <2>1, <2>2 DEF Known, Victim
    <2>4. Relies([pc |-> "upload", key |-> v.key, bytes |-> local[v.key],
                  queue |-> op[t].queue \ {v}])
      BY <1>5, <1>a, <2>3 DEF OffloadRead, OpRelies
    <2> QED
      BY <1>5, <1>b, <2>1, <2>4, StepInPlace DEF OffloadRead, others, storeVars, historyVars
  <1>6. ASSUME NEW t \in Task, OffloadUpload(t)
        PROVE  Durable' /\ Kept
    <2>1. op[t] \in [pc : {"upload"}, key : Chunk, bytes : Bytes, queue : SUBSET Victim]
      BY <1>6, <1>a, OperationShapes DEF OffloadUpload
    <2>2. op[t].key \in Known /\ UNCHANGED <<local, indexVars, historyVars>>
      BY <1>6, <1>a DEF OffloadUpload, OpRelies
    <2>3. Safe \subseteq Safe' /\ Known' = Known /\ op[t].key \in Safe'
      BY <1>6, <2>1, <2>2, ColdWritten DEF OffloadUpload, historyVars
    <2>4. OpRelies([op[t] EXCEPT !.pc = "drop"], Safe', Known, Due, gone)
      BY <1>6, <1>a, <2>1, <2>3 DEF OffloadUpload, OpRelies
    <2>5. inCold' \subseteq Safe'
      BY <1>b, <2>2, <2>3 DEF indexVars
    <2> QED
      BY <1>6, <2>2, <2>3, <2>4, <2>5, StepKeeps DEF OffloadUpload
  <1>7. ASSUME NEW t \in Task, OffloadDelete(t)
        PROVE  Durable' /\ Kept
    <2>1. op[t].key \in Safe /\ \A w \in op[t].queue : w.inCold => w.key \in Safe
      BY <1>7, <1>a DEF OffloadDelete, OpRelies
    <2>2. UNCHANGED <<cold, indexVars, historyVars>>
      BY <1>7 DEF OffloadDelete
    <2>3. Safe' = Safe /\ Known' = Known
      BY <1>7, <2>1, <2>2, LocalDropped DEF OffloadDelete, historyVars
    <2>4. Relies(Offloading(op[t].queue))
      BY <2>1, OffloadingRelies
    <2>5. inCold' \subseteq Safe'
      BY <1>b, <2>2, <2>3 DEF indexVars
    <2> QED
      BY <1>7, <2>2, <2>3, <2>4, <2>5, StepKeeps DEF OffloadDelete
  <1>8. ASSUME NEW t \in Task, OffloadFails(t)
        PROVE  Durable' /\ Kept
    <2>1. UNCHANGED <<local, indexVars, historyVars>>
      BY <1>8 DEF OffloadFails
    <2>2. CASE /\ op[t].pc = "offload"
               /\ Goto(t, [pc |-> "readopt", queue |-> op[t].queue])
               /\ UNCHANGED cold
      <3>1. Relies([pc |-> "readopt", queue |-> op[t].queue])
        BY <1>a, <2>2 DEF OpRelies
      <3>2. UNCHANGED <<storeVars, historyVars>> /\ inCold' \subseteq Safe
        BY <1>b, <2>1, <2>2 DEF storeVars, indexVars, historyVars
      <3> QED
        BY <2>2, <3>1, <3>2, StepInPlace
    <2>3. CASE /\ op[t].pc \in {"upload", "drop"}
               /\ Goto(t, [pc |-> "readopt",
                           queue |-> op[t].queue \cup {[key |-> op[t].key, inCold |-> FALSE]}])
               /\ \/ UNCHANGED cold
                  \/ op[t].pc = "upload" /\ cold' = [cold EXCEPT ![op[t].key] = op[t].bytes]
      <3> DEFINE queue == op[t].queue \cup {[key |-> op[t].key, inCold |-> FALSE]}
      <3>1. Safe \subseteq Safe' /\ Known' = Known
        <4>1. CASE UNCHANGED cold
          BY <2>1, <4>1 DEF Safe, Known, Present, historyVars
        <4>2. CASE op[t].pc = "upload" /\ cold' = [cold EXCEPT ![op[t].key] = op[t].bytes]
          <5>1. op[t].key \in Known
            BY <1>a, <4>2 DEF OpRelies
          <5>2. op[t].bytes \in Bytes
            BY <1>a, <4>2, OperationShapes
          <5> QED
            BY <2>1, <4>2, <5>1, <5>2, ColdWritten DEF historyVars
        <4> QED
          BY <2>3, <4>1, <4>2
      <3>2. \A v \in queue : v.inCold => v.key \in Safe
        BY <1>a, <2>3 DEF OpRelies
      <3>3. OpRelies([pc |-> "readopt", queue |-> queue], Safe', Known, Due, gone)
        BY <3>1, <3>2 DEF OpRelies
      <3>4. inCold' \subseteq Safe'
        BY <1>b, <2>1, <3>1 DEF indexVars
      <3> QED
        BY <2>1, <2>3, <3>1, <3>3, <3>4, StepKeeps
    <2> QED
      BY <1>8, <2>2, <2>3 DEF OffloadFails
  <1>9. ASSUME NEW t \in Task, ReadoptRead(t)
        PROVE  Durable' /\ Kept
    <2>1. PICK v \in op[t].queue :
            \/ Goto(t, [pc |-> "readd", key |-> v.key, inCold |-> v.inCold,
                        queue |-> op[t].queue \ {v}])
            \/ Goto(t, Readopting(op[t].queue \ {v}))
      BY <1>9 DEF ReadoptRead
    <2>2. \A w \in op[t].queue : w.inCold => w.key \in Safe
      BY <1>9, <1>a DEF ReadoptRead, OpRelies
    <2>3. Relies(Readopting(op[t].queue \ {v}))
      BY <2>2, ReadoptingRelies
    <2>5. Relies([pc |-> "readd", key |-> v.key, inCold |-> v.inCold,
                  queue |-> op[t].queue \ {v}])
      <3> DEFINE o == [pc |-> "readd", key |-> v.key, inCold |-> v.inCold,
                       queue |-> op[t].queue \ {v}]
      <3>1. v.inCold \in BOOLEAN
        BY <1>9, <1>a, OperationShapes DEF ReadoptRead, Victim
      <3>2. /\ o.pc = "readd" /\ o.key = v.key /\ o.inCold = v.inCold
            /\ o.queue = op[t].queue \ {v}
        OBVIOUS
      <3>3. o.inCold => o.key \in Safe
        BY <2>2, <3>1, <3>2
      <3>4. \A w \in o.queue : w.inCold => w.key \in Safe
        BY <2>2, <3>2
      <3> HIDE DEF o
      <3> QED
        BY <3>2, <3>3, <3>4 DEF OpRelies
    <2>4. UNCHANGED <<storeVars, historyVars>> /\ inCold' \subseteq Safe
      BY <1>9, <1>b DEF ReadoptRead, others, storeVars, historyVars
    <2> QED
      BY <2>1, <2>3, <2>4, <2>5, StepInPlace
  <1>10. ASSUME NEW t \in Task, ReadoptRecord(t)
         PROVE  Durable' /\ Kept
    <2>1. op[t] \in [pc : {"readd"}, key : Chunk, inCold : BOOLEAN, queue : SUBSET Victim]
      BY <1>10, <1>a, OperationShapes DEF ReadoptRecord
    <2>2. op[t].inCold => op[t].key \in Safe
      BY <1>10, <1>a DEF ReadoptRecord, OpRelies
    <2>3. inCold' \subseteq Safe
      BY <1>10, <1>b, <2>1, <2>2, RecordPutFlags DEF ReadoptRecord
    <2>4. Relies(Readopting(op[t].queue))
      <3>1. \A w \in op[t].queue : w.inCold => w.key \in Safe
        BY <1>10, <1>a DEF ReadoptRecord, OpRelies
      <3> QED
        BY <3>1, ReadoptingRelies
    <2> QED
      BY <1>10, <2>3, <2>4, StepInPlace DEF ReadoptRecord
  <1>11. ASSUME NEW t \in Task, NEW c \in Chunk, GetLocalHit(t, c)
         PROVE  Durable' /\ Kept
    <2>1. Relies([pc |-> "hit", key |-> c, bytes |-> local[c]])
      BY DEF OpRelies
    <2> QED
      BY <1>11, <1>b, <2>1, StepInPlace DEF GetLocalHit, others, storeVars, historyVars
  <1>12. ASSUME NEW t \in Task, GetHitRecord(t)
         PROVE  Durable' /\ Kept
    <2>1. inCold' \subseteq Safe
      BY <1>12, <1>b, RecordPutFlags DEF GetHitRecord, RecordAccess
    <2> QED
      BY <1>12, <2>1, IdleRelies, StepInPlace DEF GetHitRecord, Finish
  <1>13. ASSUME NEW t \in Task, NEW c \in Chunk, GetLocalMiss(t, c)
         PROVE  Durable' /\ Kept
    <2>1. Wanted(c) => c \in Safe
      BY <1>13, <1>b DEF GetLocalMiss, Due, Known, Safe
    <2>2. Relies([pc |-> "fetch", key |-> c, owed |-> Wanted(c)])
      BY <2>1 DEF OpRelies
    <2> QED
      BY <1>13, <1>b, <2>2, StepInPlace DEF GetLocalMiss, indexVars
  <1>14. ASSUME NEW t \in Task, GetCold(t)
         PROVE  Durable' /\ Kept
    <2>1. op[t] \in [pc : {"fetch"}, key : Chunk, owed : BOOLEAN]
      BY <1>14, <1>a, OperationShapes DEF GetCold
    <2>2. op[t].owed => op[t].key \in Safe
      BY <1>14, <1>a DEF GetCold, OpRelies
    <2>3. UNCHANGED <<storeVars, historyVars>> /\ inCold' \subseteq Safe
      BY <1>14, <1>b DEF GetCold, indexVars
    <2>4. CASE /\ Present(cold, op[t].key)
               /\ Goto(t, [pc |-> "fill", key |-> op[t].key, bytes |-> cold[op[t].key]])
      <3>1. Relies([pc |-> "fill", key |-> op[t].key, bytes |-> cold[op[t].key]])
        BY <2>1, <2>4 DEF OpRelies, Safe
      <3> QED
        BY <2>3, <2>4, <3>1, StepInPlace
    <2>5. CASE ~Present(cold, op[t].key) /\ Goto(t, [op[t] EXCEPT !.pc = "notfound"])
      <3>1. Relies([op[t] EXCEPT !.pc = "notfound"])
        BY <2>1, <2>2, <2>5 DEF OpRelies, Safe
      <3> QED
        BY <2>3, <2>5, <3>1, StepInPlace
    <2>6. CASE Finish(t)
      BY <2>3, <2>6, IdleRelies, StepInPlace DEF Finish
    <2> QED
      BY <1>14, <2>4, <2>5, <2>6 DEF GetCold
  <1>15. ASSUME NEW t \in Task, GetFill(t)
         PROVE  Durable' /\ Kept
    <2>1. op[t] \in [pc : {"fill"}, key : Chunk, bytes : Bytes] /\ op[t].key \in Safe
      BY <1>15, <1>a, OperationShapes DEF GetFill, OpRelies
    <2>2. UNCHANGED <<cold, indexVars, historyVars>>
      BY <1>15 DEF GetFill
    <2>3. Safe' = Safe /\ Known' = Known
      BY <1>15, <2>1, <2>2, TierAssumption DEF GetFill, Safe, Known, Present, TypeOK, historyVars
    <2>4. Relies([op[t] EXCEPT !.pc = "refill"]) /\ Relies(IdleOp)
      BY <2>1, IdleRelies DEF OpRelies
    <2>5. inCold' \subseteq Safe'
      BY <1>b, <2>2, <2>3 DEF indexVars
    <2> QED
      BY <1>15, <2>2, <2>3, <2>4, <2>5, StepKeeps DEF GetFill, Finish
  <1>16. ASSUME NEW t \in Task, GetFillRecord(t)
         PROVE  Durable' /\ Kept
    <2>1. op[t].key \in Safe
      BY <1>16, <1>a DEF GetFillRecord, OpRelies
    <2>2. inCold' \subseteq Safe
      BY <1>16, <1>b, <2>1, RecordPutFlags DEF GetFillRecord
    <2>3. Relies(Offloading(QueueOf(VictimsOf(op[t].key))))
      BY <1>b, QueueSafe, OffloadingRelies
    <2> QED
      BY <1>16, <2>2, <2>3, StepInPlace DEF GetFillRecord
  <1>17. ASSUME NEW t \in Task, NEW s \in Stream, CountLocal(t, s)
         PROVE  Durable' /\ Kept
    <2>1. Relies([pc |-> "countCold", stream |-> s, n |-> Cardinality(Held(local, s))])
      BY DEF OpRelies
    <2> QED
      BY <1>17, <1>b, <2>1, StepInPlace DEF CountLocal, others, storeVars, historyVars
  <1>18. ASSUME NEW t \in Task, CountCold(t)
         PROVE  Durable' /\ Kept
    <2>1. op[t] \in [pc : {"countCold"}, stream : Stream, n : Nat]
      BY <1>18, <1>a, OperationShapes DEF CountCold
    <2>2. /\ Relies([pc |-> "countOverlap", stream |-> op[t].stream,
                     n |-> op[t].n + Cardinality(Held(cold, op[t].stream))])
          /\ Relies([op[t] EXCEPT !.pc = "counted"])
      BY <2>1 DEF OpRelies
    <2> QED
      BY <1>18, <1>b, <2>2, StepInPlace DEF CountCold, others, storeVars, historyVars
  <1>19. ASSUME NEW t \in Task, CountOverlap(t)
         PROVE  Durable' /\ Kept
    <2>1. Relies([pc |-> "counted", stream |-> op[t].stream,
                  n |-> SaturatingSub(op[t].n, Overlap(op[t].stream))])
      BY DEF OpRelies
    <2> QED
      BY <1>19, <1>b, <2>1, StepInPlace DEF CountOverlap, others, storeVars, historyVars
  <1>20. ASSUME NEW t \in Task, DeleteCold(t)
         PROVE  Durable' /\ Kept
    <2>1. op[t] \in [pc : {"delCold"}, keys : SUBSET Chunk] /\ op[t].keys \subseteq gone
      BY <1>20, <1>a, OperationShapes DEF DeleteCold, OpRelies
    <2>2. UNCHANGED <<local, indexVars, historyVars>>
      BY <1>20 DEF DeleteCold
    <2>3. Safe' = Safe /\ Known' = Known
      BY <1>20, <2>1, <2>2, ColdPurged DEF DeleteCold, Safe, Known, Present, historyVars
    <2>4. Relies([op[t] EXCEPT !.pc = "delIndex"])
      BY <2>1 DEF OpRelies
    <2>5. inCold' \subseteq Safe'
      BY <1>b, <2>2, <2>3 DEF indexVars
    <2>6. CASE Goto(t, [op[t] EXCEPT !.pc = "delIndex"])
      BY <2>2, <2>3, <2>4, <2>5, <2>6, StepKeeps
    <2>7. CASE Finish(t)
      BY <2>2, <2>3, <2>5, <2>7, IdleRelies, StepKeeps DEF Finish
    <2> QED
      BY <1>20, <2>6, <2>7 DEF DeleteCold
  <1>21. ASSUME NEW t \in Task, DeleteIndex(t)
         PROVE  Durable' /\ Kept
    <2>1. inCold' \subseteq Safe
      BY <1>21, <1>b DEF DeleteIndex
    <2> QED
      BY <1>21, <2>1, IdleRelies, StepInPlace DEF DeleteIndex, Finish
  <1>22. ASSUME NEW t \in Task, NEW n, Sweep(t, n)
         PROVE  Durable' /\ Kept
    <2>1. Relies(Offloading(QueueOf(IdleVictims(n))))
      BY <1>b, QueueSafe, OffloadingRelies
    <2> QED
      BY <1>22, <1>b, <2>1, StepInPlace DEF Sweep, others, storeVars, historyVars
  <1>23. ASSUME NEW t \in Task, BackupBegin(t)
         PROVE  Durable' /\ Kept
    <2>1. FinalizedRefs \subseteq Due
      <3>1. ASSUME NEW c \in FinalizedRefs
            PROVE  c \in Due
        <4>1. c \in Chunk /\ c = <<c[1], c[2]>> /\ c[2] \in Index
          BY DEF FinalizedRefs, Chunk
        <4> QED
          BY <4>1 DEF FinalizedRefs, Due
      <3> QED
        BY <3>1
    <2>2. Relies([pc |-> "copy", todo |-> FinalizedRefs, refs |-> FinalizedRefs,
                  missing |-> {}])
      BY <2>1 DEF OpRelies
    <2> QED
      BY <1>23, <1>b, <2>2, StepInPlace DEF BackupBegin, others, storeVars, historyVars
  <1>24. ASSUME NEW t \in Task, BackupProbe(t)
         PROVE  Durable' /\ Kept
    <2>1. PICK c \in op[t].todo :
            IF AlreadyCold(c)
            THEN Goto(t, Copying(op[t], op[t].todo \ {c}, op[t].missing))
            ELSE Goto(t, [pc |-> "copyRead", key |-> c, todo |-> op[t].todo \ {c},
                          refs |-> op[t].refs, missing |-> op[t].missing])
      BY <1>24 DEF BackupProbe
    <2>2. /\ op[t].refs \subseteq Due /\ op[t].todo \subseteq op[t].refs
          /\ op[t].missing \subseteq gone
          /\ op[t].refs \subseteq Safe \cup op[t].missing \cup op[t].todo
      BY <1>24, <1>a DEF BackupProbe, OpRelies
    <2>3. UNCHANGED <<storeVars, historyVars>> /\ inCold' \subseteq Safe
      BY <1>24, <1>b DEF BackupProbe, others, storeVars, historyVars
    <2>4. CASE AlreadyCold(c)
      <3>1. c \in Safe
        BY <2>2, <2>4 DEF AlreadyCold, Safe, Due
      <3>2. Relies(Copying(op[t], op[t].todo \ {c}, op[t].missing))
        BY <2>2, <3>1, CopyingRelies
      <3> QED
        BY <2>1, <2>3, <2>4, <3>2, StepInPlace
    <2>5. CASE ~AlreadyCold(c)
      <3>1. Relies([pc |-> "copyRead", key |-> c, todo |-> op[t].todo \ {c},
                    refs |-> op[t].refs, missing |-> op[t].missing])
        BY <2>2 DEF OpRelies
      <3> QED
        BY <2>1, <2>3, <2>5, <3>1, StepInPlace
    <2> QED
      BY <2>4, <2>5
  <1>25. ASSUME NEW t \in Task, BackupRead(t)
         PROVE  Durable' /\ Kept
    <2>1. op[t] \in [pc : {"copyRead"}, key : Chunk, todo : SUBSET Chunk,
                     refs : SUBSET Chunk, missing : SUBSET Chunk]
      BY <1>25, <1>a, OperationShapes DEF BackupRead
    <2>2. /\ op[t].refs \subseteq Due /\ op[t].todo \subseteq op[t].refs
          /\ op[t].missing \subseteq gone /\ op[t].key \in op[t].refs
          /\ op[t].refs \subseteq Safe \cup op[t].missing \cup op[t].todo \cup {op[t].key}
      BY <1>25, <1>a DEF BackupRead, OpRelies
    <2>3. UNCHANGED <<storeVars, historyVars>> /\ inCold' \subseteq Safe
      BY <1>25, <1>b DEF BackupRead, others, storeVars, historyVars
    <2>4. CASE Present(local, op[t].key)
      <3>1. Relies([pc |-> "copyPut", key |-> op[t].key, bytes |-> local[op[t].key],
                    todo |-> op[t].todo, refs |-> op[t].refs, missing |-> op[t].missing])
        BY <2>1, <2>2, <2>4 DEF OpRelies, Known
      <3> QED
        BY <1>25, <2>3, <2>4, <3>1, StepInPlace DEF BackupRead
    <2>5. CASE ~Present(local, op[t].key)
      <3>1. op[t].key \in Safe
        BY <1>b, <2>2, <2>5 DEF Known, Safe
      <3>2. Relies([op[t] EXCEPT !.pc = "copyReprobe"])
        BY <2>1, <2>2, <3>1 DEF OpRelies
      <3> QED
        BY <1>25, <2>3, <2>5, <3>2, StepInPlace DEF BackupRead
    <2> QED
      BY <2>4, <2>5
  <1>26. ASSUME NEW t \in Task, BackupReprobe(t)
         PROVE  Durable' /\ Kept
    <2>1. /\ op[t].refs \subseteq Due /\ op[t].todo \subseteq op[t].refs
          /\ op[t].missing \subseteq gone /\ op[t].key \in Safe
          /\ op[t].refs \subseteq Safe \cup op[t].missing \cup op[t].todo \cup {op[t].key}
      BY <1>26, <1>a DEF BackupReprobe, OpRelies
    <2>2. HoleAt(op[t].key) \subseteq gone
      BY <2>1 DEF HoleAt, Safe
    <2>3. Relies(Copying(op[t], op[t].todo, op[t].missing \cup HoleAt(op[t].key)))
      BY <2>1, <2>2, CopyingRelies
    <2> QED
      BY <1>26, <1>b, <2>3, StepInPlace DEF BackupReprobe, others, storeVars, historyVars
  <1>27. ASSUME NEW t \in Task, BackupPut(t)
         PROVE  Durable' /\ Kept
    <2>1. op[t] \in [pc : {"copyPut"}, key : Chunk, bytes : Bytes, todo : SUBSET Chunk,
                     refs : SUBSET Chunk, missing : SUBSET Chunk]
      BY <1>27, <1>a, OperationShapes DEF BackupPut
    <2>2. /\ op[t].refs \subseteq Due /\ op[t].todo \subseteq op[t].refs
          /\ op[t].missing \subseteq gone /\ op[t].key \in Known
          /\ op[t].refs \subseteq Safe \cup op[t].missing \cup op[t].todo \cup {op[t].key}
      BY <1>27, <1>a DEF BackupPut, OpRelies
    <2>3. UNCHANGED <<local, indexVars, historyVars>>
      BY <1>27 DEF BackupPut
    <2>4. Safe \subseteq Safe' /\ Known' = Known /\ op[t].key \in Safe'
      BY <1>27, <2>1, <2>2, <2>3, ColdWritten DEF BackupPut, historyVars
    <2>5. OpRelies(Copying(op[t], op[t].todo, op[t].missing), Safe', Known, Due, gone)
      BY <2>2, <2>4, CopyingRelies
    <2>6. inCold' \subseteq Safe'
      BY <1>b, <2>3, <2>4 DEF indexVars
    <2> QED
      BY <1>27, <2>3, <2>4, <2>5, <2>6, StepKeeps DEF BackupPut
  <1>28. ASSUME NEW t \in Task, Return(t) \/ BackupAbort(t)
         PROVE  Durable' /\ Kept
    <2>1. /\ Finish(t) /\ UNCHANGED <<storeVars, historyVars>>
          /\ inCold' \subseteq Safe
      BY <1>28, <1>b DEF Return, BackupAbort, others, storeVars, historyVars
    <2> QED
      BY <2>1, IdleRelies, StepInPlace DEF Finish
  <1>29. ASSUME Restart
         PROVE  Durable' /\ Kept
    <2>1. Safe' = Safe /\ Known' = Known /\ Due' = Due /\ gone' = gone /\ written' = written
      BY <1>29 DEF Restart, Safe, Known, Due, Present, Wanted, storeVars, historyVars
    <2>2. ASSUME NEW u \in Task
          PROVE  OpRelies(op'[u], Safe', Known', Due', gone')
      BY <1>29, <1>a, <2>1, IdleRelies DEF Restart
    <2>3. inCold' \subseteq Safe'
      BY <1>29 DEF Restart
    <2> QED
      BY <2>1, <2>2, <2>3 DEF Durable, Kept, Wanted
  <1>30. ASSUME NEW t \in Task, Cancel(t)
         PROVE  Durable' /\ Kept
    <2>1. UNCHANGED <<local, indexVars, historyVars>>
      BY <1>30 DEF Cancel
    <2>2. Safe \subseteq Safe' /\ Known' = Known
      <3>1. CASE UNCHANGED cold
        BY <2>1, <3>1 DEF Safe, Known, Present, historyVars
      <3>2. CASE op[t].pc = "upload" /\ cold' = [cold EXCEPT ![op[t].key] = op[t].bytes]
        <4>1. op[t].key \in Known /\ op[t].bytes \in Bytes
          BY <1>a, <3>2, OperationShapes DEF OpRelies
        <4> QED
          BY <2>1, <3>2, <4>1, ColdWritten DEF historyVars
      <3>3. CASE /\ op[t].pc = "delCold"
                 /\ cold' = [c \in Chunk |-> IF c \in op[t].keys THEN None ELSE cold[c]]
        <4>1. op[t].keys \in SUBSET gone
          BY <1>a, <3>3 DEF OpRelies
        <4> QED
          BY <2>1, <3>3, <4>1, ColdPurged DEF historyVars
      <3> QED
        BY <1>30, <3>1, <3>2, <3>3 DEF Cancel
    <2>3. inCold' \subseteq Safe'
      BY <1>b, <2>1, <2>2 DEF indexVars
    <2> QED
      BY <1>30, <2>1, <2>2, <2>3, IdleRelies, StepKeeps DEF Cancel, Finish
  <1>31. CASE UNCHANGED vars
    <2>1. /\ Safe' = Safe /\ Known' = Known /\ Due' = Due /\ gone' = gone
          /\ op' = op /\ inCold' = inCold /\ written' = written
      BY <1>31 DEF vars, Safe, Known, Due, Present, Wanted
    <2> QED
      BY <2>1 DEF Durable, Kept, Wanted
  <1> QED
    BY <1>1, <1>2, <1>3, <1>4, <1>5, <1>6, <1>7, <1>8, <1>9, <1>10, <1>11, <1>12, <1>13,
       <1>14, <1>15, <1>16, <1>17, <1>18, <1>19, <1>20, <1>21, <1>22, <1>23, <1>24, <1>25,
       <1>26, <1>27, <1>28, <1>29, <1>30, <1>31 DEF Next, Call, Proceed, Copy

\* ... so it holds in every reachable state.
LEMMA DurableAlways == Spec => [](TypeOK /\ Durable)
  <1>1. TypeOK /\ Durable /\ [Next]_vars => (TypeOK /\ Durable)'
    BY TypePreserved, DurablePreserved
  <1> QED
    BY <1>1, TypeInit, DurableInit, PTL DEF Spec

----------------------------------------------------------------------------
(* The theorems *)

\* No chunk a client has sent and nobody has deleted is ever in neither tier.
THEOREM NoChunkIsLost == Spec => []NoChunkLost
  <1>1. TypeOK /\ Durable => NoChunkLost
    BY DEF Durable, Due, Known, NoChunkLost
  <1> QED
    BY <1>1, DurableAlways, PTL

\* A read of a chunk that was there when it began does not answer "not found".
THEOREM NoReadMissesFalsely == Spec => []NoFalseMiss
  <1>1. TypeOK /\ Durable => NoFalseMiss
    BY DEF Durable, OpRelies, NoFalseMiss, Task
  <1> QED
    BY <1>1, DurableAlways, PTL

\* A backup run that ends has accounted for every chunk it was asked for.
THEOREM BackupAccounts == Spec => []BackupAccountsForAll
  <1>1. TypeOK /\ Durable => BackupAccountsForAll
    BY DEF Durable, OpRelies, Safe, BackupAccountsForAll, Task
  <1> QED
    BY <1>1, DurableAlways, PTL

\* What a backup run lists as missing has been deleted while it ran.
THEOREM BackupHolesAreDeletions == Spec => []BackupMissingIsGone
  <1>1. TypeOK /\ Durable => BackupMissingIsGone
    BY DEF Durable, OpRelies, BackupMissingIsGone, Task
  <1> QED
    BY <1>1, DurableAlways, PTL

\* The tier implements a ChunkStore: each step adds one readable chunk, deletes one
\* stream, or changes nothing a caller can see, whatever moves between the stores.
THEOREM TierImplementsChunkStore == Spec => ImplementsChunkStore
  <1>1. Readable = Known \ gone
    BY DEF Readable, Known
  <1>2. Init => Abstract!Init
    BY TierAssumption DEF Init, Abstract!Init, Readable, Present
  <1>3. TypeOK /\ Durable /\ [Next]_vars => [Abstract!Next]_<<Readable, gone>>
    <2> SUFFICES ASSUME TypeOK, Durable, [Next]_vars
                 PROVE  [Abstract!Next]_<<Readable, gone>>
      OBVIOUS
    <2>1. Readable' = Known' \ gone'
      BY DEF Readable, Known
    <2>2. CASE Kept
      BY <1>1, <2>1, <2>2 DEF Kept
    <2>3. ASSUME NEW c \in Chunk, Added(c)
          PROVE  [Abstract!Next]_<<Readable, gone>>
      <3>1. gone' = gone /\ Readable' = (Known \cup {c}) \ gone
        BY <2>1, <2>3 DEF Added
      <3>2. CASE c \in gone
        BY <1>1, <3>1, <3>2
      <3>3. CASE c \notin gone
        <4>1. Abstract!Put(c)
          BY <1>1, <3>1, <3>3 DEF Abstract!Put
        <4> QED
          BY <4>1 DEF Abstract!Next
      <3> QED
        BY <3>2, <3>3
    <2>4. ASSUME NEW s \in Stream, Removed({c \in Chunk : c[1] = s})
          PROVE  [Abstract!Next]_<<Readable, gone>>
      <3> DEFINE keys == {c \in Chunk : c[1] = s}
      <3>1. gone' = gone \cup keys /\ Readable' = Readable \ keys
        BY <1>1, <2>1, <2>4 DEF Removed
      <3>2. CASE keys = {}
        BY <3>1, <3>2
      <3>3. CASE keys # {}
        <4>1. PICK c \in Chunk : c[1] = s
          BY <3>3
        <4>2. keys = {d \in Chunk : StreamOf(d) = StreamOf(c)}
          BY <4>1 DEF StreamOf
        <4>3. Abstract!DeleteStream(StreamOf(c))
          BY <3>1, <4>2 DEF Abstract!DeleteStream
        <4> QED
          BY <4>3 DEF Abstract!Next
      <3> QED
        BY <3>2, <3>3
    <2> QED
      BY <2>2, <2>3, <2>4, DurablePreserved
  <1> QED
    BY <1>2, <1>3, DurableAlways, PTL DEF Spec, ImplementsChunkStore, Abstract!Spec

----------------------------------------------------------------------------
(* Pinned streams *)

\* No offload in progress has a chunk of a pinned stream in hand.
Unpinned(o) ==
  /\ o.pc \in {"offload", "upload", "drop"} => \A v \in o.queue : v.key[1] \notin Pinned
  /\ o.pc \in {"upload", "drop"} => o.key[1] \notin Pinned

PinnedInv == PinnedStaysLocal /\ \A t \in Task : Unpinned(op[t])

\* A queue without pinned chunks makes an offload without them.
LEMMA OffloadingUnpinned ==
  ASSUME NEW queue, \A v \in queue : v.key[1] \notin Pinned
  PROVE  Unpinned(Offloading(queue))
  BY DEF Unpinned, Offloading, IdleOp

\* Victims and idle chunks are chosen among the evictable ones.
LEMMA VictimsUnpinned ==
  /\ \A c : \A v \in QueueOf(VictimsOf(c)) : v.key[1] \notin Pinned
  /\ \A n : \A v \in QueueOf(IdleVictims(n)) : v.key[1] \notin Pinned
  <1>1. ASSUME NEW victims, \A c \in victims : c[1] \notin Pinned, NEW v \in QueueOf(victims)
        PROVE  v.key[1] \notin Pinned
    BY <1>1 DEF QueueOf
  <1>2. \A c : \A d \in VictimsOf(c) : d[1] \notin Pinned
    BY DEF VictimsOf, LeastRecent, Evictable
  <1>3. \A n : \A d \in IdleVictims(n) : d[1] \notin Pinned
    BY DEF IdleVictims, Evictable
  <1> QED
    BY <1>1, <1>2, <1>3

\* PinnedInv is inductive: it holds at the start ...
LEMMA PinnedInit == Init => PinnedInv
  BY DEF Init, PinnedInv, PinnedStaysLocal, Wanted, Unpinned, IdleOp

\* A step of one task that takes no pinned chunk from the local store.
LEMMA PinnedStep ==
  ASSUME TypeOK, PinnedInv, NEW t \in Task, NEW o, Goto(t, o), Unpinned(o),
         UNCHANGED historyVars,
         \A c \in Chunk : c[1] \in Pinned /\ Present(local, c) => Present(local', c)
  PROVE  PinnedInv'
  BY DEF PinnedInv, PinnedStaysLocal, Wanted, Present, Goto, TypeOK, historyVars

\* A step of one task that leaves the local store alone.
LEMMA PinnedInPlace ==
  ASSUME TypeOK, PinnedInv, NEW t \in Task, NEW o, Goto(t, o), Unpinned(o),
         UNCHANGED <<local, historyVars>>
  PROVE  PinnedInv'
  BY PinnedStep

\* ... and every step of every task keeps it.
LEMMA PinnedPreserved == TypeOK /\ PinnedInv /\ [Next]_vars => PinnedInv'
  <1> SUFFICES ASSUME TypeOK, PinnedInv, [Next]_vars PROVE PinnedInv'
    OBVIOUS
  <1> USE DEF Task
  <1>a. \A t \in Task : op[t] \in Operation /\ Unpinned(op[t])
    BY DEF PinnedInv, TypeOK
  <1>1. ASSUME NEW t \in Request, NEW c \in Chunk, NEW b \in Bytes, PutLocal(t, c, b)
        PROVE  PinnedInv'
    <2>1. b # None
      BY TierAssumption
    <2>2. \A d \in Chunk : Present(local', d) <=> d = c \/ Present(local, d)
      BY <1>1, <2>1 DEF PutLocal, Present, TypeOK
    <2>3. \A d \in Chunk : Wanted(d)' => d = c \/ Wanted(d)
      BY <1>1 DEF PutLocal, Wanted, TypeOK
    <2>4. Unpinned([pc |-> "record", key |-> c, bytes |-> b])
      BY DEF Unpinned
    <2>5. PinnedStaysLocal'
      BY <2>2, <2>3 DEF PinnedInv, PinnedStaysLocal, Present
    <2> QED
      BY <1>1, <1>a, <2>4, <2>5 DEF PutLocal, PinnedInv, Goto, TypeOK
  <1>2. ASSUME NEW t \in Request, NEW s \in Stream, DeleteLocal(t, s)
        PROVE  PinnedInv'
    <2>1. PinnedStaysLocal'
      BY <1>2 DEF DeleteLocal, PinnedInv, PinnedStaysLocal, Wanted, Present
    <2>2. \A keys : Unpinned([pc |-> "delCold", keys |-> keys])
      BY DEF Unpinned
    <2> QED
      BY <1>2, <1>a, <2>1, <2>2 DEF DeleteLocal, PinnedInv, Goto, TypeOK
  <1>3. ASSUME NEW t \in Task, PutRecord(t) \/ GetFillRecord(t)
        PROVE  PinnedInv'
    BY <1>3, VictimsUnpinned, OffloadingUnpinned, PinnedInPlace
    DEF PutRecord, GetFillRecord, storeVars
  <1>4. ASSUME NEW t \in Task, NEW n, Sweep(t, n)
        PROVE  PinnedInv'
    BY <1>4, VictimsUnpinned, OffloadingUnpinned, PinnedInPlace DEF Sweep, others, historyVars
  <1>5. ASSUME NEW t \in Task, OffloadDrop(t)
        PROVE  PinnedInv'
    <2>1. PICK v \in op[t].queue :
            /\ local' = Without(local, v.key) \/ UNCHANGED local
            /\ Goto(t, Offloading(op[t].queue \ {v}))
      BY <1>5 DEF OffloadDrop
    <2>2. \A w \in op[t].queue : w.key[1] \notin Pinned
      BY <1>5, <1>a DEF OffloadDrop, Unpinned
    <2>3. Unpinned(Offloading(op[t].queue \ {v}))
      BY <2>2, OffloadingUnpinned
    <2>4. \A c \in Chunk : c[1] \in Pinned /\ Present(local, c) => Present(local', c)
      BY <2>1, <2>2 DEF Without, Present, TypeOK
    <2> QED
      BY <1>5, <2>1, <2>3, <2>4, PinnedStep DEF OffloadDrop
  <1>6. ASSUME NEW t \in Task, OffloadRead(t)
        PROVE  PinnedInv'
    <2>1. PICK v \in op[t].queue :
            Goto(t, [pc |-> "upload", key |-> v.key, bytes |-> local[v.key],
                     queue |-> op[t].queue \ {v}])
      BY <1>6 DEF OffloadRead
    <2>2. Unpinned([pc |-> "upload", key |-> v.key, bytes |-> local[v.key],
                    queue |-> op[t].queue \ {v}])
      BY <1>6, <1>a DEF OffloadRead, Unpinned
    <2> QED
      BY <1>6, <2>1, <2>2, PinnedInPlace DEF OffloadRead, others, historyVars
  <1>7. ASSUME NEW t \in Task, OffloadUpload(t)
        PROVE  PinnedInv'
    <2>1. op[t] \in [pc : {"upload"}, key : Chunk, bytes : Bytes, queue : SUBSET Victim]
      BY <1>7, <1>a, OperationShapes DEF OffloadUpload
    <2>2. Unpinned([op[t] EXCEPT !.pc = "drop"])
      BY <1>7, <1>a, <2>1 DEF OffloadUpload, Unpinned
    <2> QED
      BY <1>7, <2>2, PinnedInPlace DEF OffloadUpload
  <1>8. ASSUME NEW t \in Task, OffloadDelete(t)
        PROVE  PinnedInv'
    <2>1. /\ op[t].key[1] \notin Pinned
          /\ \A w \in op[t].queue : w.key[1] \notin Pinned
      BY <1>8, <1>a DEF OffloadDelete, Unpinned
    <2>2. \A c \in Chunk : c[1] \in Pinned /\ Present(local, c) => Present(local', c)
      BY <1>8, <2>1 DEF OffloadDelete, Without, Present, TypeOK
    <2> QED
      BY <1>8, <2>1, <2>2, OffloadingUnpinned, PinnedStep DEF OffloadDelete
  <1>9. ASSUME NEW t \in Task, GetFill(t)
        PROVE  PinnedInv'
    <2>1. op[t] \in [pc : {"fill"}, key : Chunk, bytes : Bytes]
      BY <1>9, <1>a, OperationShapes DEF GetFill
    <2>2. \A c \in Chunk : Present(local, c) => Present(local', c)
      BY <1>9, <2>1, TierAssumption DEF GetFill, Present, TypeOK
    <2>3. Unpinned([op[t] EXCEPT !.pc = "refill"]) /\ Unpinned(IdleOp)
      BY <2>1 DEF Unpinned, IdleOp
    <2> QED
      BY <1>9, <2>2, <2>3, PinnedStep DEF GetFill, Finish
  <1>10. ASSUME NEW t \in Task, ReadoptRead(t) \/ ReadoptRecord(t) \/ OffloadFails(t)
         PROVE  PinnedInv'
    <2>1. \A queue : /\ Unpinned(Readopting(queue))
                     /\ Unpinned([pc |-> "readopt", queue |-> queue])
                     /\ \A key, flag : Unpinned([pc |-> "readd", key |-> key,
                                                 inCold |-> flag, queue |-> queue])
      BY DEF Unpinned, Readopting, IdleOp
    <2>2. UNCHANGED <<local, historyVars>>
      BY <1>10 DEF ReadoptRead, ReadoptRecord, OffloadFails, others, storeVars, historyVars
    <2>3. PICK o : Goto(t, o) /\ Unpinned(o)
      BY <1>10, <2>1 DEF ReadoptRead, ReadoptRecord, OffloadFails
    <2> QED
      BY <2>2, <2>3, PinnedInPlace
  <1>11. ASSUME NEW t \in Task, NEW c \in Chunk, GetLocalHit(t, c) \/ GetLocalMiss(t, c)
         PROVE  PinnedInv'
    <2>1. PICK o : Goto(t, o) /\ Unpinned(o)
      BY <1>11 DEF GetLocalHit, GetLocalMiss, Unpinned
    <2> QED
      BY <1>11, <2>1, PinnedInPlace DEF GetLocalHit, GetLocalMiss, others, storeVars, historyVars
  <1>12. ASSUME NEW t \in Task, GetCold(t)
         PROVE  PinnedInv'
    <2>1. op[t] \in [pc : {"fetch"}, key : Chunk, owed : BOOLEAN]
      BY <1>12, <1>a, OperationShapes DEF GetCold
    <2>2. PICK o : Goto(t, o) /\ Unpinned(o)
      BY <1>12, <2>1 DEF GetCold, Finish, IdleOp, Unpinned
    <2> QED
      BY <1>12, <2>2, PinnedInPlace DEF GetCold, storeVars
  <1>13. ASSUME NEW t \in Task, NEW s \in Stream, CountLocal(t, s)
         PROVE  PinnedInv'
    <2>1. PICK o : Goto(t, o) /\ Unpinned(o)
      BY <1>13 DEF CountLocal, Unpinned
    <2> QED
      BY <1>13, <2>1, PinnedInPlace DEF CountLocal, others, historyVars
  <1>14. ASSUME NEW t \in Task, CountCold(t) \/ CountOverlap(t)
         PROVE  PinnedInv'
    <2>1. op[t] \in [pc : {op[t].pc}, stream : Stream, n : Nat]
      BY <1>14, <1>a, OperationShapes DEF CountCold, CountOverlap
    <2>2. PICK o : Goto(t, o) /\ Unpinned(o)
      BY <1>14, <2>1 DEF CountCold, CountOverlap, Unpinned
    <2> QED
      BY <1>14, <2>2, PinnedInPlace DEF CountCold, CountOverlap, others, historyVars
  <1>15. ASSUME NEW t \in Task, DeleteCold(t)
         PROVE  PinnedInv'
    <2>1. op[t] \in [pc : {"delCold"}, keys : SUBSET Chunk]
      BY <1>15, <1>a, OperationShapes DEF DeleteCold
    <2>2. PICK o : Goto(t, o) /\ Unpinned(o)
      BY <1>15, <2>1 DEF DeleteCold, Finish, IdleOp, Unpinned
    <2> QED
      BY <1>15, <2>2, PinnedInPlace DEF DeleteCold
  <1>16. ASSUME NEW t \in Task,
                GetHitRecord(t) \/ DeleteIndex(t) \/ Return(t) \/ BackupAbort(t) \/ Cancel(t)
         PROVE  PinnedInv'
    <2>1. Unpinned(IdleOp) /\ Goto(t, IdleOp) /\ UNCHANGED <<local, historyVars>>
      BY <1>16 DEF GetHitRecord, DeleteIndex, Return, BackupAbort, Cancel, Finish, Unpinned,
                   IdleOp, others, storeVars, historyVars
    <2> QED
      BY <2>1, PinnedInPlace
  <1>17. ASSUME NEW t \in Task, Copy(t)
         PROVE  PinnedInv'
    <2>1. \A o, todo, missing : Unpinned(Copying(o, todo, missing))
      BY DEF Copying, Unpinned
    <2>2. CASE BackupRead(t)
      <3>1. op[t] \in [pc : {"copyRead"}, key : Chunk, todo : SUBSET Chunk,
                       refs : SUBSET Chunk, missing : SUBSET Chunk]
        BY <1>a, <2>2, OperationShapes DEF BackupRead
      <3>2. PICK o : Goto(t, o) /\ Unpinned(o)
        BY <2>2, <3>1 DEF BackupRead, Unpinned
      <3> QED
        BY <2>2, <3>2, PinnedInPlace DEF BackupRead, others, historyVars
    <2>3. CASE BackupProbe(t)
      <3>1. PICK c \in op[t].todo :
              \/ Goto(t, Copying(op[t], op[t].todo \ {c}, op[t].missing))
              \/ Goto(t, [pc |-> "copyRead", key |-> c, todo |-> op[t].todo \ {c},
                          refs |-> op[t].refs, missing |-> op[t].missing])
        BY <2>3 DEF BackupProbe
      <3>2. Unpinned([pc |-> "copyRead", key |-> c, todo |-> op[t].todo \ {c},
                      refs |-> op[t].refs, missing |-> op[t].missing])
        BY DEF Unpinned
      <3> QED
        BY <2>1, <2>3, <3>1, <3>2, PinnedInPlace DEF BackupProbe, others, historyVars
    <2>4. CASE BackupBegin(t) \/ BackupReprobe(t) \/ BackupPut(t)
      <3>1. Unpinned([pc |-> "copy", todo |-> FinalizedRefs, refs |-> FinalizedRefs,
                      missing |-> {}])
        BY DEF Unpinned
      <3>2. PICK o : Goto(t, o) /\ Unpinned(o)
        BY <2>1, <2>4, <3>1 DEF BackupBegin, BackupReprobe, BackupPut
      <3> QED
        BY <2>4, <3>2, PinnedInPlace
        DEF BackupBegin, BackupReprobe, BackupPut, others, historyVars
    <2> QED
      BY <1>16, <1>17, <2>2, <2>3, <2>4 DEF Copy
  <1>18. ASSUME Restart
         PROVE  PinnedInv'
    BY <1>18, <1>a DEF Restart, PinnedInv, PinnedStaysLocal, Wanted, Present, Unpinned, IdleOp,
                       storeVars, historyVars
  <1>19. CASE UNCHANGED vars
    BY <1>19 DEF vars, PinnedInv, PinnedStaysLocal, Wanted, Present
  <1> QED
    BY <1>1, <1>2, <1>3, <1>4, <1>5, <1>6, <1>7, <1>8, <1>9, <1>10, <1>11, <1>12, <1>13,
       <1>14, <1>15, <1>16, <1>17, <1>18, <1>19 DEF Next, Call, Proceed

\* A chunk of a Thumbnail or Preview stream is never offloaded.
THEOREM PinnedIsLocal == Spec => []PinnedStaysLocal
  <1>1. PinnedInv => PinnedStaysLocal
    BY DEF PinnedInv
  <1> QED
    BY <1>1, TypeInit, TypePreserved, PinnedInit, PinnedPreserved, PTL DEF Spec

----------------------------------------------------------------------------
(* chunk_count *)

\* Chunks are only uploaded and offloaded, and counted: nobody reads, sends an index again,
\* deletes or backs up, and nothing fails or restarts.
UploadsOnly == Events \subseteq {"count"} /\ Backup = {}

\* A task then only uploads, offloads what cold does not have yet, or counts.
UploadOp(o, sent) ==
  /\ o.pc \in {"idle", "record", "offload", "upload", "drop", "countCold", "countOverlap",
               "counted"}
  /\ o.pc \in {"offload", "upload", "drop"} => \A v \in o.queue : ~v.inCold
  /\ o.pc \in {"upload", "drop"} => sent[o.key] # None

\* The tiers hold what was uploaded, and both hold a chunk only while the task that has
\* just copied it is about to delete the local one.
ApartInv ==
  /\ inCold = {} /\ gone = {}
  /\ \A c \in Chunk : Present(local, c) \/ Present(cold, c) => written[c] # None
  /\ \A c \in Chunk : Present(local, c) /\ Present(cold, c) =>
       \E t \in Task : op[t].pc = "drop" /\ op[t].key = c
  /\ \A t \in Task : UploadOp(op[t], written)

\* Queues taken from an index without in_cold flags have none either.
LEMMA UploadQueues ==
  ASSUME inCold = {}, NEW sent
  PROVE  /\ UploadOp(IdleOp, sent)
         /\ \A victims : UploadOp(Offloading(QueueOf(victims)), sent)
         /\ \A queue : (\A v \in queue : ~v.inCold) => UploadOp(Offloading(queue), sent)
  <1>1. UploadOp(IdleOp, sent)
    BY DEF UploadOp, IdleOp
  <1>2. \A queue : (\A v \in queue : ~v.inCold) => UploadOp(Offloading(queue), sent)
    BY <1>1 DEF UploadOp, Offloading
  <1>3. ASSUME NEW victims, NEW v \in QueueOf(victims)
        PROVE  ~v.inCold
    <2>1. PICK c \in victims : v = [key |-> c, inCold |-> c \in inCold]
      BY DEF QueueOf
    <2>2. v.inCold = (c \in inCold)
      BY <2>1, Zenon
    <2> QED
      BY <2>2
  <1> QED
    BY <1>1, <1>2, <1>3

\* A step that moves one task, which was not about to delete a chunk, and leaves the stores
\* alone keeps the tiers apart.
LEMMA ApartMoves ==
  ASSUME TypeOK, ApartInv, NEW t \in Task, NEW o, Goto(t, o), UploadOp(o, written),
         op[t].pc # "drop", UNCHANGED <<local, cold, written, gone>>, inCold' = {}
  PROVE  ApartInv'
  <1>1. /\ op'[t] = o
        /\ \A u \in Task : u # t => op'[u] = op[u]
    BY DEF Goto, TypeOK
  <1>2. \A u \in Task : UploadOp(op'[u], written')
    BY <1>1 DEF ApartInv
  <1>3. \A u \in Task : op[u].pc = "drop" => op'[u] = op[u]
    BY <1>1
  <1>4. \A c \in Chunk : Present(local', c) /\ Present(cold', c) =>
          \E u \in Task : op'[u].pc = "drop" /\ op'[u].key = c
    BY <1>3 DEF ApartInv, Present
  <1>5. \A c \in Chunk : Present(local', c) \/ Present(cold', c) => written'[c] # None
    BY DEF ApartInv, Present
  <1>6. inCold' = {} /\ gone' = {}
    BY DEF ApartInv
  <1> QED
    BY <1>2, <1>4, <1>5, <1>6 DEF ApartInv, Present

LEMMA ApartInit == Init => ApartInv
  BY DEF Init, ApartInv, UploadOp, IdleOp, Present

\* Every step keeps the tiers apart.
LEMMA ApartPreserved ==
  ASSUME UploadsOnly, TypeOK, ApartInv, [Next]_vars
  PROVE  ApartInv'
  <1>0. /\ inCold = {} /\ \A t \in Task : UploadOp(op[t], written)
        /\ Task = Request \cup Sweeper
        /\ op \in [Task -> Operation]
        /\ local \in [Chunk -> Bytes \cup {None}] /\ cold \in [Chunk -> Bytes \cup {None}]
        /\ written \in [Chunk -> Bytes \cup {None}]
    BY DEF ApartInv, Task, UploadsOnly, TypeOK
  <1>e. /\ "reput" \notin Events /\ "get" \notin Events /\ "delete" \notin Events
        /\ "iofail" \notin Events /\ "restart" \notin Events /\ "cancel" \notin Events
    BY DEF UploadsOnly
  <1>1. ASSUME NEW t \in Request, NEW c \in Chunk, NEW b \in Bytes, PutLocal(t, c, b)
        PROVE  ApartInv'
    <2>0. t \in Task /\ b # None /\ op[t].pc = "idle"
      BY <1>0, <1>1, TierAssumption DEF PutLocal, IdleOp
    <2>1. /\ written[c] = None /\ gone = {} /\ gone' = {} /\ inCold' = {}
          /\ local' = [local EXCEPT ![c] = b] /\ written' = [written EXCEPT ![c] = b]
          /\ cold' = cold
      BY <1>0, <1>1, <1>e DEF PutLocal, ApartInv, indexVars
    <2>2. ~Present(cold, c)
      BY <2>1 DEF ApartInv
    <2>3. \A d \in Chunk : written[d] # None => written'[d] # None
      BY <1>0, <2>0, <2>1
    <2>4. /\ op'[t] = [pc |-> "record", key |-> c, bytes |-> b]
          /\ \A u \in Task : u # t => op'[u] = op[u]
      BY <1>0, <1>1, <2>0 DEF PutLocal, Goto
    <2>5. \A d \in Chunk : Present(local', d) \/ Present(cold', d) => written'[d] # None
      BY <1>0, <2>0, <2>1, <2>3 DEF ApartInv, Present
    <2>6. \A d \in Chunk : Present(local', d) /\ Present(cold', d) =>
            \E u \in Task : op'[u].pc = "drop" /\ op'[u].key = d
      BY <1>0, <2>0, <2>1, <2>2, <2>4 DEF ApartInv, Present
    <2>7. \A u \in Task : UploadOp(op'[u], written')
      <3>1. UploadOp(op'[t], written')
        BY <2>4 DEF UploadOp
      <3>2. ASSUME NEW u \in Task, u # t
            PROVE  UploadOp(op'[u], written')
        <4>1. UploadOp(op[u], written) /\ op'[u] = op[u]
          BY <1>0, <2>4, <3>2
        <4>2. op[u].pc \in {"upload", "drop"} => op[u].key \in Chunk
          BY <1>0, <3>2, OperationShapes
        <4> QED
          BY <2>3, <4>1, <4>2 DEF UploadOp
      <3> QED
        BY <3>1, <3>2
    <2> QED
      BY <2>1, <2>5, <2>6, <2>7 DEF ApartInv, Present
  <1>2. ASSUME NEW t \in Task, PutRecord(t)
        PROVE  ApartInv'
    <2>1. inCold' = {}
      BY <1>0, <1>2 DEF PutRecord, RecordPut, FlagsOf
    <2>2. PICK victims : Goto(t, Offloading(QueueOf(victims)))
      BY <1>2 DEF PutRecord
    <2> QED
      BY <1>0, <1>2, <2>1, <2>2, UploadQueues, ApartMoves DEF PutRecord, storeVars, historyVars
  <1>3. ASSUME NEW t \in Task, OffloadDrop(t)
        PROVE  ApartInv'
    <2>1. \A v \in op[t].queue : ~v.inCold
      BY <1>0, <1>3 DEF OffloadDrop, UploadOp
    <2>2. PICK v \in op[t].queue : UNCHANGED local /\ Goto(t, Offloading(op[t].queue \ {v}))
      BY <1>3, <2>1 DEF OffloadDrop
    <2> QED
      BY <1>0, <1>3, <2>1, <2>2, UploadQueues, ApartMoves
      DEF OffloadDrop, indexVars, historyVars
  <1>4. ASSUME NEW t \in Task, OffloadRead(t)
        PROVE  ApartInv'
    <2>1. PICK v \in op[t].queue :
            /\ Present(local, v.key)
            /\ Goto(t, [pc |-> "upload", key |-> v.key, bytes |-> local[v.key],
                        queue |-> op[t].queue \ {v}])
      BY <1>4 DEF OffloadRead
    <2>2. /\ op[t].queue \in SUBSET Victim
          /\ \A w \in op[t].queue : ~w.inCold
      BY <1>0, <1>4, OperationShapes DEF OffloadRead, UploadOp
    <2>3. written[v.key] # None
      BY <2>1, <2>2 DEF ApartInv, Victim
    <2>4. UploadOp([pc |-> "upload", key |-> v.key, bytes |-> local[v.key],
                    queue |-> op[t].queue \ {v}], written)
      BY <2>2, <2>3 DEF UploadOp
    <2> QED
      BY <1>0, <1>4, <2>1, <2>4, ApartMoves DEF OffloadRead, others
  <1>5. ASSUME NEW t \in Task, OffloadUpload(t)
        PROVE  ApartInv'
    <2>1. /\ op[t] \in [pc : {"upload"}, key : Chunk, bytes : Bytes, queue : SUBSET Victim]
          /\ UploadOp(op[t], written)
      BY <1>0, <1>5, OperationShapes DEF OffloadUpload
    <2>2. /\ op'[t] = [op[t] EXCEPT !.pc = "drop"]
          /\ \A u \in Task : u # t => op'[u] = op[u]
          /\ cold' = [cold EXCEPT ![op[t].key] = op[t].bytes]
          /\ UNCHANGED <<local, inCold, written, gone>>
      BY <1>0, <1>5 DEF OffloadUpload, Goto, indexVars, historyVars
    <2>3. op'[t].pc = "drop" /\ op'[t].key = op[t].key /\ op'[t].queue = op[t].queue
      BY <2>1, <2>2
    <2>4. written[op[t].key] # None
      BY <2>1 DEF UploadOp
    <2>5. \A u \in Task : UploadOp(op'[u], written')
      BY <1>0, <2>1, <2>2, <2>3 DEF UploadOp
    <2>6. \A c \in Chunk : Present(local', c) \/ Present(cold', c) => written'[c] # None
      BY <1>0, <2>2, <2>4 DEF ApartInv, Present
    <2>7. \A c \in Chunk : Present(local', c) /\ Present(cold', c) =>
            \E u \in Task : op'[u].pc = "drop" /\ op'[u].key = c
      <3>1. \A u \in Task : op[u].pc = "drop" => op'[u] = op[u]
        BY <2>1, <2>2
      <3>2. \A c \in Chunk : c # op[t].key => cold'[c] = cold[c]
        BY <1>0, <2>2
      <3>3. ASSUME NEW c \in Chunk, Present(local', c), Present(cold', c), c # op[t].key
            PROVE  \E u \in Task : op'[u].pc = "drop" /\ op'[u].key = c
        <4>1. PICK u \in Task : op[u].pc = "drop" /\ op[u].key = c
          BY <2>2, <3>2, <3>3 DEF ApartInv, Present
        <4> QED
          BY <3>1, <4>1
      <3> QED
        BY <2>3, <3>3
    <2> QED
      BY <2>2, <2>5, <2>6, <2>7 DEF ApartInv, Present
  <1>6. ASSUME NEW t \in Task, OffloadDelete(t)
        PROVE  ApartInv'
    <2>1. /\ op[t] \in [pc : {"drop"}, key : Chunk, bytes : Bytes, queue : SUBSET Victim]
          /\ UploadOp(op[t], written)
      BY <1>0, <1>6, OperationShapes DEF OffloadDelete
    <2>2. /\ op'[t] = Offloading(op[t].queue)
          /\ \A u \in Task : u # t => op'[u] = op[u]
          /\ local' = [local EXCEPT ![op[t].key] = None]
          /\ UNCHANGED <<cold, inCold, written, gone>>
      BY <1>0, <1>6 DEF OffloadDelete, Goto, Without, indexVars, historyVars
    <2>3. UploadOp(op'[t], written')
      BY <1>0, <2>1, <2>2, UploadQueues DEF UploadOp
    <2>4. \A u \in Task : UploadOp(op'[u], written')
      BY <1>0, <2>2, <2>3
    <2>5. \A c \in Chunk : Present(local', c) => c # op[t].key /\ Present(local, c)
      BY <1>0, <2>1, <2>2 DEF Present
    <2>6. \A c \in Chunk : Present(local', c) \/ Present(cold', c) => written'[c] # None
      BY <2>2, <2>5 DEF ApartInv, Present
    <2>7. \A c \in Chunk : Present(local', c) /\ Present(cold', c) =>
            \E u \in Task : op'[u].pc = "drop" /\ op'[u].key = c
      BY <2>2, <2>5 DEF ApartInv, Present
    <2> QED
      BY <2>2, <2>4, <2>6, <2>7 DEF ApartInv, Present
  <1>7. ASSUME NEW t \in Task,
               \/ \E s \in Stream : CountLocal(t, s)
               \/ CountCold(t) \/ CountOverlap(t)
        PROVE  ApartInv'
    <2>1. \A pc \in {"countCold", "countOverlap", "counted"} : \A s, n :
            UploadOp([pc |-> pc, stream |-> s, n |-> n], written)
      BY DEF UploadOp
    <2>2. PICK o : Goto(t, o) /\ UploadOp(o, written)
      BY <1>7, <1>e, <2>1 DEF CountLocal, CountCold, CountOverlap
    <2>3. op[t].pc # "drop"
      <3>1. op[t] = IdleOp \/ op[t].pc \in {"countCold", "countOverlap"}
        BY <1>7 DEF CountLocal, CountCold, CountOverlap
      <3> QED
        BY <3>1 DEF IdleOp
    <2> QED
      BY <1>0, <1>7, <2>2, <2>3, ApartMoves DEF CountLocal, CountCold, CountOverlap, others
  <1>8. ASSUME NEW t \in Task, Return(t)
        PROVE  ApartInv'
    BY <1>0, <1>8, UploadQueues, ApartMoves DEF Return, Finish, others
  <1>9. ASSUME NEW t \in Sweeper, NEW n, Sweep(t, n)
        PROVE  ApartInv'
    BY <1>0, <1>9, UploadQueues, ApartMoves DEF Sweep, others, IdleOp
  <1>10. ASSUME NEW t \in Task
         PROVE  /\ ~ReadoptRead(t) /\ ~ReadoptRecord(t) /\ ~GetHitRecord(t) /\ ~GetCold(t)
                /\ ~GetFill(t) /\ ~GetFillRecord(t) /\ ~DeleteCold(t) /\ ~DeleteIndex(t)
                /\ ~OffloadFails(t) /\ ~Cancel(t)
    BY <1>0, <1>e, <1>10 DEF UploadOp, ReadoptRead, ReadoptRecord, GetHitRecord, GetCold, GetFill,
       GetFillRecord, DeleteCold, DeleteIndex, OffloadFails, Cancel
  <1>11. CASE UNCHANGED vars
    BY <1>11 DEF vars, ApartInv, Present
  <1> QED
    BY <1>0, <1>e, <1>1, <1>2, <1>3, <1>4, <1>5, <1>6, <1>7, <1>8, <1>9, <1>10, <1>11
    DEF UploadsOnly, Next, Call, Proceed, GetLocalHit, GetLocalMiss, DeleteLocal, Restart

\* With uploads and offloads alone, whatever their number and order, chunk_count is exact
\* once nothing is in flight: the finalize check neither refuses a whole upload nor accepts
\* one with a hole.
THEOREM QuietCountIsExact == ASSUME UploadsOnly PROVE Spec => []QuietCountExact
  <1>1. ApartInv => QuietCountExact
    <2> SUFFICES ASSUME ApartInv, Quiet, NEW s \in Stream PROVE CountOf(s) = Stored(s)
      BY DEF QuietCountExact
    <2>1. Held(local, s) \cap Held(cold, s) = {}
      BY DEF ApartInv, Quiet, IdleOp, Held
    <2>2. IsFiniteSet(Held(local, s)) /\ IsFiniteSet(Held(cold, s))
      BY ChunksFinite, FS_Subset DEF Held
    <2>3. Overlap(s) = 0
      <3>1. {c \in inCold : c[1] = s} = {}
        BY DEF ApartInv
      <3> QED
        BY <3>1, FS_EmptySet DEF Overlap
    <2>4. Stored(s) = Cardinality(Held(local, s)) + Cardinality(Held(cold, s))
      BY <2>1, <2>2, FS_Union, FS_EmptySet, HeldCounts DEF Stored
    <2> QED
      BY <2>3, <2>4, HeldCounts DEF CountOf, SaturatingSub
  <1>2. TypeOK /\ ApartInv /\ [Next]_vars => ApartInv'
    BY ApartPreserved
  <1> QED
    BY TypeCorrect, ApartInit, <1>1, <1>2, PTL DEF Spec


----------------------------------------------------------------------------
(* The order of use, and what it evicts *)

\* The order of use is a strict total order on what is indexed.
OrderInv ==
  /\ \A a \in entries : <<a, a>> \notin older
  /\ \A a, b, c \in entries : <<a, b>> \in older /\ <<b, c>> \in older => <<a, c>> \in older
  /\ \A a, b \in entries : a = b \/ <<a, b>> \in older \/ <<b, a>> \in older

\* What was used before c, and after it.
Before(S, c) == {d \in S : <<d, c>> \in older}
After(S, c) == {d \in S : <<c, d>> \in older}

\* Sets of indexed chunks are finite, and can be counted.
LEMMA EntriesFinite ==
  ASSUME TypeOK, NEW S \in SUBSET entries
  PROVE  IsFiniteSet(S) /\ Cardinality(S) \in Nat
  BY ChunksFinite, FS_Subset, FS_CardinalityType DEF TypeOK

\* A smaller set of indexed chunks has no more of them.
LEMMA FewerEntries ==
  ASSUME TypeOK, NEW S \in SUBSET entries, NEW T \in SUBSET S
  PROVE  Cardinality(T) <= Cardinality(S)
  BY EntriesFinite, FS_Subset

\* Among the indexed chunks of a set one has nothing of the set before it ...
LEMMA FirstEntry ==
  ASSUME TypeOK, OrderInv, NEW S \in SUBSET entries, S # {}
  PROVE  \E m \in S : \A d \in S : <<d, m>> \notin older
<1> DEFINE Sets == {Before(S, c) : c \in S}
<1>1. Sets \subseteq FiniteSubsetsOf(S) /\ Sets # {}
  <2>1. ASSUME NEW c \in S PROVE Before(S, c) \in FiniteSubsetsOf(S)
    <3>1. Before(S, c) \in SUBSET S
      BY DEF Before
    <3> QED
      BY <3>1, EntriesFinite DEF FiniteSubsetsOf
  <2> QED
    BY <2>1
<1>2. PICK X \in Sets : \A Y \in Sets : <<Y, X>> \notin StrictSubsetOrdering(S)
  <2> HIDE DEF Sets
  <2> QED
    BY <1>1, FS_StrictSubsetOrderingWellFounded, WFMin
<1>3. PICK m \in S : X = Before(S, m)
  OBVIOUS
<1>4. ASSUME NEW d \in S, <<d, m>> \in older PROVE FALSE
  <2>1. Before(S, d) \subseteq X /\ d \in X /\ d \notin Before(S, d)
    BY <1>3, <1>4 DEF Before, OrderInv
  <2>2. <<Before(S, d), X>> \in StrictSubsetOrdering(S)
    BY <1>3, <2>1 DEF StrictSubsetOrdering, Before
  <2> QED
    BY <1>2, <2>2
<1> QED
  BY <1>4

\* ... and one has nothing of the set after it.
LEMMA LastEntry ==
  ASSUME TypeOK, OrderInv, NEW S \in SUBSET entries, S # {}
  PROVE  \E m \in S : \A d \in S : <<m, d>> \notin older
<1> DEFINE Sets == {After(S, c) : c \in S}
<1>1. Sets \subseteq FiniteSubsetsOf(S) /\ Sets # {}
  <2>1. ASSUME NEW c \in S PROVE After(S, c) \in FiniteSubsetsOf(S)
    <3>1. After(S, c) \in SUBSET S
      BY DEF After
    <3> QED
      BY <3>1, EntriesFinite DEF FiniteSubsetsOf
  <2> QED
    BY <2>1
<1>2. PICK X \in Sets : \A Y \in Sets : <<Y, X>> \notin StrictSubsetOrdering(S)
  <2> HIDE DEF Sets
  <2> QED
    BY <1>1, FS_StrictSubsetOrderingWellFounded, WFMin
<1>3. PICK m \in S : X = After(S, m)
  OBVIOUS
<1>4. ASSUME NEW d \in S, <<m, d>> \in older PROVE FALSE
  <2>1. After(S, d) \subseteq X /\ d \in X /\ d \notin After(S, d)
    BY <1>3, <1>4 DEF After, OrderInv
  <2>2. <<After(S, d), X>> \in StrictSubsetOrdering(S)
    BY <1>3, <2>1 DEF StrictSubsetOrdering, After
  <2> QED
    BY <1>2, <2>2
<1> QED
  BY <1>4

\* The n least recently used members of a set are n, or all of it: the first of the
\* others has n members before it, all of them among the n.
LEMMA LeastRecentEnough ==
  ASSUME TypeOK, OrderInv, NEW S \in SUBSET entries, NEW n \in Int
  PROVE  LeastRecent(n, S) = S \/ n <= Cardinality(LeastRecent(n, S))
<1> DEFINE L == LeastRecent(n, S)
<1> SUFFICES ASSUME L # S PROVE n <= Cardinality(L)
  OBVIOUS
<1>1. L \in SUBSET S
  BY DEF LeastRecent
<1> HIDE DEF L
<1>2. PICK m \in S \ L : \A d \in S \ L : <<d, m>> \notin older
  BY <1>1, FirstEntry
<1>3. Before(S, m) \subseteq L
  BY <1>2 DEF Before
<1>4. Before(S, m) \in SUBSET entries /\ ~(Cardinality(Before(S, m)) < n)
  BY <1>2 DEF L, LeastRecent, Before
<1> QED
  BY <1>1, <1>3, <1>4, EntriesFinite, FewerEntries

\* ... and they are no more than n: before the last of them are all the others.
LEMMA LeastRecentOnly ==
  ASSUME TypeOK, OrderInv, NEW S \in SUBSET entries, NEW n \in Int, LeastRecent(n, S) # {}
  PROVE  Cardinality(LeastRecent(n, S)) <= n
<1> DEFINE L == LeastRecent(n, S)
<1>1. L \in SUBSET S
  BY DEF LeastRecent
<1>2. L # {}
  OBVIOUS
<1> HIDE DEF L
<1>3. PICK m \in L : \A d \in L : <<m, d>> \notin older
  BY <1>1, <1>2, LastEntry
<1>4. L \ {m} \subseteq Before(S, m)
  BY <1>1, <1>3 DEF Before, OrderInv
<1>5. Before(S, m) \in SUBSET entries /\ Cardinality(Before(S, m)) < n
  BY <1>3 DEF L, LeastRecent, Before
<1>6. Cardinality(L \ {m}) = Cardinality(L) - 1
  BY <1>1, <1>3, EntriesFinite, FS_RemoveElement
<1>7. Cardinality(L \ {m}) <= Cardinality(Before(S, m))
  BY <1>4, <1>5, FewerEntries
<1> QED
  BY <1>1, <1>5, <1>6, <1>7, EntriesFinite DEF L

\* A member that was used before one of the n is one of them.
LEMMA LeastRecentDown ==
  ASSUME TypeOK, OrderInv, NEW S \in SUBSET entries, NEW n \in Int,
         NEW v \in LeastRecent(n, S), NEW d \in S \ LeastRecent(n, S)
  PROVE  <<v, d>> \in older
<1>1. v \in S /\ v # d
  BY DEF LeastRecent
<1>2. ASSUME <<d, v>> \in older PROVE FALSE
  <2>1. Before(S, d) \subseteq Before(S, v) /\ Before(S, v) \in SUBSET entries
    BY <1>1, <1>2 DEF Before, OrderInv
  <2>2. Cardinality(Before(S, v)) < n /\ ~(Cardinality(Before(S, d)) < n)
    BY <1>1 DEF LeastRecent, Before
  <2> QED
    BY <2>1, <2>2, EntriesFinite, FewerEntries
<1> QED
  BY <1>1, <1>2 DEF OrderInv

\* The order survives when chunks leave and one becomes the latest.
LEMMA LatestOrder ==
  ASSUME OrderInv, TypeOK, NEW c \in Chunk, NEW kept \in SUBSET entries,
         entries' = kept \cup {c}, older' = LatestOf(kept, c)
  PROVE  OrderInv'
<1>1. \A a, b \in entries' : <<a, b>> \in older' <=> a # c /\ (b = c \/ <<a, b>> \in older)
  BY DEF LatestOf, TypeOK
<1> QED
  BY <1>1 DEF OrderInv

LEMMA RecordPutOrder ==
  ASSUME OrderInv, TypeOK, NEW c \in Chunk, NEW flag, NEW victims, RecordPut(c, flag, victims)
  PROVE  OrderInv'
  BY LatestOrder DEF RecordPut

\* What is indexed once c is recorded: as much as the capacity, or what was there, or no
\* evictable chunk but c.
LEMMA RecordPutKeeps ==
  ASSUME TypeOK, OrderInv, NEW c \in Chunk, NEW flag, RecordPut(c, flag, VictimsOf(c))
  PROVE  /\ Cardinality(entries') <= Capacity \/ Evictable(entries') \subseteq {c}
         /\ entries \subseteq entries' \/ Capacity <= Cardinality(entries')
         /\ \A v \in entries \ entries', d \in Evictable(entries' \ {c}) : <<v, d>> \in older
<1> DEFINE all == entries \cup {c}
           S == Evictable(entries \ {c})
           n == Cardinality(all) - Capacity
           L == LeastRecent(n, S)
<1>1. /\ IsFiniteSet(all) /\ Cardinality(all) \in Nat /\ n \in Int /\ Capacity \in Nat
  BY EntriesFinite, FS_AddElement, FS_CardinalityType, TierAssumption
<1>2. S \in SUBSET entries /\ L \in SUBSET S /\ c \notin L
  BY DEF Evictable, LeastRecent
<1>3. entries' = all \ L
  BY <1>2 DEF RecordPut, VictimsOf
<1>4. Cardinality(entries') = Cardinality(all) - Cardinality(L) /\ Cardinality(L) \in Nat
  <2>1. all \cap L = L
    BY <1>2
  <2> QED
    BY <1>1, <1>2, <1>3, <2>1, FS_Difference, EntriesFinite
<1>5. L = S \/ n <= Cardinality(L)
  BY <1>1, <1>2, LeastRecentEnough
<1>6. L # {} => Cardinality(L) <= n
  BY <1>1, <1>2, LeastRecentOnly
<1>7. Cardinality(entries') <= Capacity \/ Evictable(entries') \subseteq {c}
  <2>1. CASE L = S
    BY <1>3, <2>1 DEF Evictable
  <2>2. CASE n <= Cardinality(L)
    BY <1>1, <1>4, <2>2
  <2> QED
    BY <1>5, <2>1, <2>2
<1>8. entries \subseteq entries' \/ Capacity <= Cardinality(entries')
  <2>1. CASE L = {}
    BY <1>3, <2>1
  <2>2. CASE L # {}
    BY <1>1, <1>4, <1>6, <2>2
  <2> QED
    BY <2>1, <2>2
<1>9. ASSUME NEW v \in entries \ entries', NEW d \in Evictable(entries' \ {c})
      PROVE  <<v, d>> \in older
  <2>1. v \in L /\ d \in S \ L
    BY <1>3, <1>9 DEF Evictable
  <2> HIDE DEF n, S
  <2> QED
    BY <1>1, <1>2, <2>1, LeastRecentDown
<1> QED
  BY <1>7, <1>8, <1>9

\* A step records a chunk, touches one, or takes chunks from the index.
IndexStep ==
  \/ \E c \in Chunk, flag \in BOOLEAN : RecordPut(c, flag, VictimsOf(c))
  \/ \E c \in entries : RecordAccess(c)
  \/ entries' \subseteq entries /\ older' = older \cap (entries' \X entries')

LEMMA IndexSteps == ASSUME TypeOK, [Next]_vars PROVE IndexStep
<1>0. older = older \cap (entries \X entries)
  BY DEF TypeOK
<1>1. CASE UNCHANGED indexVars
  BY <1>0, <1>1 DEF IndexStep, indexVars
<1>2. ASSUME NEW t \in Task, PutRecord(t) \/ GetHitRecord(t) \/ GetFillRecord(t) \/ ReadoptRecord(t)
      PROVE  IndexStep
  <2>1. op[t] \in Operation
    BY DEF TypeOK
  <2>2. op[t].key \in Chunk /\ (op[t].pc = "readd" => op[t].inCold \in BOOLEAN)
    BY <1>2, <2>1, OperationShapes DEF PutRecord, GetHitRecord, GetFillRecord, ReadoptRecord
  <2> QED
    BY <1>2, <2>2 DEF PutRecord, GetHitRecord, GetFillRecord, ReadoptRecord, IndexStep
<1>3. ASSUME NEW t \in Task, DeleteIndex(t)
      PROVE  IndexStep
  BY <1>0, <1>3 DEF DeleteIndex, IndexStep, TypeOK
<1>4. CASE Restart
  BY <1>4 DEF Restart, IndexStep
<1>5. ASSUME NEW t \in Task, Call(t) PROVE UNCHANGED indexVars
  BY <1>5 DEF Call, PutLocal, GetLocalHit, GetLocalMiss, CountLocal, DeleteLocal, others, indexVars
<1>6. ASSUME NEW t \in Task,
             \/ OffloadDrop(t) \/ OffloadRead(t) \/ OffloadUpload(t) \/ OffloadDelete(t)
             \/ ReadoptRead(t) \/ GetCold(t) \/ GetFill(t) \/ CountCold(t) \/ CountOverlap(t)
             \/ Return(t) \/ DeleteCold(t) \/ OffloadFails(t) \/ Cancel(t)
      PROVE  UNCHANGED indexVars
  BY <1>6 DEF OffloadDrop, OffloadRead, OffloadUpload, OffloadDelete, ReadoptRead, GetCold,
     GetFill, CountCold, CountOverlap, Return, DeleteCold, OffloadFails, Cancel, others, indexVars
<1>7. ASSUME NEW t \in Task, Copy(t) PROVE UNCHANGED indexVars
  BY <1>7 DEF Copy, BackupBegin, BackupProbe, BackupRead, BackupReprobe, BackupPut, Return,
     BackupAbort, others, indexVars
<1>8. ASSUME NEW t \in Task, NEW n, Sweep(t, n) PROVE UNCHANGED indexVars
  BY <1>8 DEF Sweep, others, indexVars
<1>9. CASE UNCHANGED vars
  BY <1>1, <1>9 DEF vars, indexVars
<1> QED
  BY <1>1, <1>2, <1>3, <1>4, <1>5, <1>6, <1>7, <1>8, <1>9 DEF Next, Proceed, Task

\* The order of use is one from the start to the end ...
LEMMA OrderHolds == Spec => []OrderInv
<1>1. Init => OrderInv
  BY DEF Init, OrderInv
<1>2. TypeOK /\ OrderInv /\ [Next]_vars => OrderInv'
  <2> SUFFICES ASSUME TypeOK, OrderInv, IndexStep PROVE OrderInv'
    BY IndexSteps
  <2>1. ASSUME NEW c \in Chunk, NEW flag \in BOOLEAN, RecordPut(c, flag, VictimsOf(c))
        PROVE  OrderInv'
    BY <2>1, RecordPutOrder
  <2>2. ASSUME NEW c \in entries, RecordAccess(c)
        PROVE  OrderInv'
    BY <2>2, LatestOrder DEF RecordAccess, TypeOK
  <2>3. CASE entries' \subseteq entries /\ older' = older \cap (entries' \X entries')
    BY <2>3 DEF OrderInv
  <2> QED
    BY <2>1, <2>2, <2>3 DEF IndexStep
<1> QED
  BY <1>1, <1>2, TypeCorrect, PTL DEF Spec

\* ... so the index stays within its capacity but for pinned chunks and the last one recorded.
THEOREM IndexKeepsToCapacity == Spec => []IndexWithinCapacity
<1>1. Init => IndexWithinCapacity
  BY DEF Init, IndexWithinCapacity, Evictable
<1>2. TypeOK /\ OrderInv /\ IndexWithinCapacity /\ [Next]_vars => IndexWithinCapacity'
  <2> SUFFICES ASSUME TypeOK, OrderInv, IndexWithinCapacity, IndexStep
               PROVE  IndexWithinCapacity'
    BY IndexSteps
  <2>1. ASSUME NEW c \in Chunk, NEW flag \in BOOLEAN, RecordPut(c, flag, VictimsOf(c))
        PROVE  IndexWithinCapacity'
    BY <2>1, RecordPutKeeps DEF IndexWithinCapacity, Evictable
  <2>2. CASE entries' \subseteq entries
    <3>1. Cardinality(entries') <= Cardinality(entries) /\ Cardinality(entries) \in Nat
          /\ Cardinality(entries') \in Nat
      BY <2>2, EntriesFinite, FewerEntries
    <3> QED
      BY <2>2, <3>1, TierAssumption DEF IndexWithinCapacity, Evictable
  <2> QED
    BY <2>1, <2>2 DEF IndexStep, RecordAccess
<1> QED
  BY <1>1, <1>2, TypeCorrect, OrderHolds, PTL DEF Spec

\* What recording c evicts: nothing unless the index was over its capacity, no more than
\* that takes, and the least recently used of the chunks that may leave.
EvictsLeastRecent(c) ==
  /\ entries \subseteq entries' \/ Capacity <= Cardinality(entries')
  /\ \A v \in entries \ entries', d \in Evictable(entries' \ {c}) : <<v, d>> \in older

\* Recording a chunk, whether it was uploaded, read, fetched or re-adopted, evicts the
\* least recently used chunks and no more of them than it must.
THEOREM EvictionIsLRU ==
  Spec => [][\A t \in Task :
               PutRecord(t) \/ GetHitRecord(t) \/ GetFillRecord(t) \/ ReadoptRecord(t)
                 => EvictsLeastRecent(op[t].key)]_vars
<1>1. ASSUME TypeOK, OrderInv, NEW t \in Task,
             PutRecord(t) \/ GetHitRecord(t) \/ GetFillRecord(t) \/ ReadoptRecord(t)
      PROVE  EvictsLeastRecent(op[t].key)
  <2>1. op[t].key \in Chunk
    BY <1>1, OperationShapes DEF TypeOK, PutRecord, GetHitRecord, GetFillRecord, ReadoptRecord
  <2>2. CASE UNCHANGED entries
    BY <2>2 DEF EvictsLeastRecent
  <2>3. CASE \E flag : RecordPut(op[t].key, flag, VictimsOf(op[t].key))
    BY <1>1, <2>1, <2>3, RecordPutKeeps DEF EvictsLeastRecent
  <2> QED
    BY <1>1, <2>2, <2>3 DEF PutRecord, GetHitRecord, GetFillRecord, ReadoptRecord, RecordAccess
<1>2. TypeOK /\ OrderInv =>
        [\A t \in Task :
           PutRecord(t) \/ GetHitRecord(t) \/ GetFillRecord(t) \/ ReadoptRecord(t)
             => EvictsLeastRecent(op[t].key)]_vars
  BY <1>1
<1> QED
  BY <1>2, TypeCorrect, OrderHolds, PTL DEF Spec
=============================================================================
