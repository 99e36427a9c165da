-------------------------- MODULE ChunkCacheProofs --------------------------
(***************************************************************************)
(* Proofs about ChunkCache, for any number of chunks and fills, any byte   *)
(* budget and any number of restarts, and about the demands of DemandRead, *)
(* for any number of them and any windows.  The theorems about the cache   *)
(* come first and use nothing of DemandRead; the demands come after them.  *)
(***************************************************************************)
EXTENDS DemandRead, FiniteSetTheorems, TLAPS

USE DEF Goto

-----------------------------------------------------------------------------
(* First is the least element: a set of naturals has one, because the      *)
(* initial segments S \cap (0 .. k) are finite sets ordered by inclusion.  *)
LEMMA FirstIsLeast ==
  ASSUME NEW S \in SUBSET Nat, S # {}
  PROVE  First(S) \in S /\ \A d \in S : First(S) <= d
<1> DEFINE Below(k) == S \cap (0 .. k)
           Segments == {Below(k) : k \in S}
<1>1. \A k \in S : Below(k) \in FiniteSubsetsOf(Nat)
  <2> SUFFICES ASSUME NEW k \in S
               PROVE  IsFiniteSet(Below(k)) /\ Below(k) \subseteq Nat
    BY DEF FiniteSubsetsOf
  <2>1. IsFiniteSet(0 .. k)
    BY FS_Interval
  <2> QED
    BY <2>1, FS_Subset
<1>2. PICK k \in S : \A j \in S : <<Below(j), Below(k)>> \notin StrictSubsetOrdering(Nat)
  <2>1. Segments \subseteq FiniteSubsetsOf(Nat) /\ Segments # {}
    BY <1>1
  <2>2. \E x \in Segments : \A y \in Segments : <<y, x>> \notin StrictSubsetOrdering(Nat)
    <3> HIDE DEF Segments
    <3> QED BY <2>1, FS_StrictSubsetOrderingWellFounded, WFMin
  <2> QED
    BY <2>2
<1>3. \A j \in S : k <= j
  <2> SUFFICES ASSUME NEW j \in S, j < k PROVE FALSE
    OBVIOUS
  <2>1. k \in Below(k) /\ k \notin Below(j) /\ Below(j) \subseteq Below(k)
    OBVIOUS
  <2>2. <<Below(j), Below(k)>> \in StrictSubsetOrdering(Nat)
    BY <2>1 DEF StrictSubsetOrdering
  <2> QED
    BY <1>2, <2>2
<1> QED
  BY <1>3 DEF First

(* Every set of chunks has its First in it, and is finite.                 *)
LEMMA FirstChunk ==
  ASSUME NEW S \in SUBSET Chunk, S # {}
  PROVE  First(S) \in S /\ First(S) \in Chunk
<1>1. S \in SUBSET Nat
  BY ChunkCacheAssumption DEF Chunk
<1> QED
  BY <1>1, FirstIsLeast

(* A set of chunks is finite: its cardinality is a number.                 *)
LEMMA ChunksFinite ==
  ASSUME NEW S \in SUBSET Chunk
  PROVE  IsFiniteSet(S) /\ Cardinality(S) \in Nat
<1>1. IsFiniteSet(Chunk)
  BY FS_Interval, ChunkCacheAssumption DEF Chunk
<1> QED
  BY <1>1, FS_Subset, FS_CardinalityType

-----------------------------------------------------------------------------
(* Type correctness.  A fill that writes a chunk has one to write, which   *)
(* keeps row and file within the grid.                                     *)

Writing == \A f \in Fill : pc[f] \in {"renamed", "charge"} => ServeSpan(f) # {}

TypeInv == TypeOK /\ Writing

(* What a fill has left to read in its current span is a set of chunks.    *)
LEMMA ServeSpanType ==
  ASSUME TypeOK, NEW f \in Fill
  PROVE  ServeSpan(f) \in SUBSET Chunk
BY DEF TypeOK, ServeSpan

(* The initial state is well typed, and no fill is writing.                *)
LEMMA TypeInit == Init => TypeInv
BY DEF Init, TypeInv, TypeOK, Writing, Pc, Live, Record

(* Every step keeps the types, and a fill that writes has a chunk to       *)
(* write.                                                                  *)
LEMMA TypeStep == TypeInv /\ [Next]_vars => TypeInv'
<1> SUFFICES ASSUME TypeInv, [Next]_vars PROVE TypeInv'
  OBVIOUS
<1> USE DEF TypeInv
<1>1. ASSUME NEW f \in Fill, Start(f) PROVE TypeInv'
  BY <1>1
  DEF Start, TypeOK, Writing, ServeSpan, Pc, Live, Record,
                storeVars, mapVars, readVars, sweepVars
<1>2. ASSUME NEW f \in Fill, Rename(f) PROVE TypeInv'
  BY <1>2, ServeSpanType, FirstChunk
  DEF Rename, TypeOK, Writing, ServeSpan, Pc, Live, Record,
                storeVars, mapVars, readVars, sweepVars
<1>3. ASSUME NEW f \in Fill, InsertRow(f) PROVE TypeInv'
  BY <1>3, ServeSpanType, FirstChunk
  DEF InsertRow, TypeOK, Writing, ServeSpan, Pc, Live, Record,
                storeVars, mapVars, readVars, sweepVars
<1>4. ASSUME NEW f \in Fill, Charge(f) PROVE TypeInv'
  BY <1>4, ServeSpanType, FirstChunk
  DEF Charge, TypeOK, Writing, ServeSpan, Pc, Live, Record,
                storeVars, mapVars, readVars, sweepVars
<1>5. ASSUME NEW f \in Fill, ServeDone(f) PROVE TypeInv'
  BY <1>5
  DEF ServeDone, TypeOK, Writing, ServeSpan, Pc, Live, Record,
                storeVars, mapVars, readVars, sweepVars
<1>6. ASSUME NEW f \in Fill, ReadDone(f) PROVE TypeInv'
  BY <1>6
  DEF ReadDone, TypeOK, Writing, ServeSpan, Pc, Live, Record,
                storeVars, mapVars, readVars, sweepVars
<1>7. ASSUME NEW f \in Fill, ReadFails(f) PROVE TypeInv'
  BY <1>7
  DEF ReadFails, TypeOK, Writing, ServeSpan, Pc, Live, Record,
                storeVars, mapVars, readVars, sweepVars
<1>8. ASSUME NEW f \in Fill, SweepStart(f) PROVE TypeInv'
  BY <1>8
  DEF SweepStart, TypeOK, Writing, ServeSpan, Pc, Live, Record,
                storeVars, mapVars, readVars, sweepVars
<1>9. ASSUME NEW f \in Fill, SweepEnd(f) PROVE TypeInv'
  BY <1>9
  DEF SweepEnd, TypeOK, Writing, ServeSpan, Pc, Live, Record,
                storeVars, mapVars, readVars, sweepVars
<1>10. ASSUME NEW f \in Fill, EvictRow(f) PROVE TypeInv'
  BY <1>10
  DEF EvictRow, TypeOK, Writing, ServeSpan, Pc, Live, Record,
                storeVars, mapVars, readVars, sweepVars
<1>11. ASSUME NEW f \in Fill, Unlink(f) PROVE TypeInv'
  BY <1>11
  DEF Unlink, TypeOK, Writing, ServeSpan, Pc, Live, Record,
                storeVars, mapVars, readVars, sweepVars
<1>12. ASSUME NEW f \in Fill, Refund(f) PROVE TypeInv'
  BY <1>12
  DEF Refund, TypeOK, Writing, ServeSpan, Pc, Live, Record,
                storeVars, mapVars, readVars, sweepVars
<1>13. ASSUME NEW f \in Fill, MarkSkip(f) PROVE TypeInv'
  BY <1>13
  DEF MarkSkip, TypeOK, Writing, ServeSpan, Pc, Live, Record,
                storeVars, mapVars, readVars, sweepVars
<1>14. ASSUME NEW f \in Fill, MarkFlag(f) PROVE TypeInv'
  <2>1. RecordsOf(f, First(unmarked[f])) \in SUBSET Record
    BY DEF RecordsOf, TypeOK
  <2>2. success' \in SUBSET Record /\ failed' \in SUBSET Record
    BY <1>14, <2>1 DEF MarkFlag, TypeOK
  <2> QED
    BY <1>14, <2>2
    DEF MarkFlag, TypeOK, Writing, ServeSpan, Pc, Live, storeVars, readVars, sweepVars
<1>15. ASSUME NEW f \in Fill, Resolve(f) PROVE TypeInv'
  BY <1>15
  DEF Resolve, TypeOK, Writing, ServeSpan, Pc, Live, Record,
                storeVars, mapVars, readVars, sweepVars
<1>16. ASSUME NEW f \in Fill, FillDone(f) PROVE TypeInv'
  BY <1>16
  DEF FillDone, TypeOK, Writing, ServeSpan, Pc, Live, Record,
                storeVars, mapVars, readVars, sweepVars
<1>17. ASSUME NEW f \in Fill, NEW c \in Chunk, SweepSkip(f, c) PROVE TypeInv'
  BY <1>17
  DEF SweepSkip, TypeOK, Writing, ServeSpan, Pc, Live, Record,
                storeVars, mapVars, readVars, sweepVars
<1>18. ASSUME NEW f \in Fill, NEW c \in Chunk, SweepPick(f, c) PROVE TypeInv'
  BY <1>18
  DEF SweepPick, TypeOK, Writing, ServeSpan, Pc, Live, Record,
                storeVars, mapVars, readVars, sweepVars
<1>19. ASSUME NEW f \in Fill, NEW c \in Chunk, TakeOver(f, c) PROVE TypeInv'
  BY <1>19
  DEF TakeOver, TypeOK, Writing, ServeSpan, Pc, Live, Record,
                storeVars, mapVars, readVars, sweepVars
<1>20. ASSUME NEW S \in SUBSET Chunk, NEW own \in [S -> Fill], Claim(S, own) PROVE TypeInv'
  <2>1. inflight' \in [Chunk -> Fill \cup {NoFill}]
    BY <1>20 DEF Claim, TypeOK
  <2>2. created' \in SUBSET Record
    <3>1. {<<own[c], c>> : c \in S} \subseteq Record
      BY DEF Record
    <3> QED
      BY <1>20, <3>1 DEF Claim, TypeOK
  <2>3. pc' \in [Fill -> Pc]
    BY <1>20 DEF Claim, TypeOK, Pc, Live
  <2>4. /\ run' \in [Fill -> SUBSET Chunk] /\ todo' \in [Fill -> SUBSET Chunk]
        /\ unmarked' \in [Fill -> SUBSET Chunk]
    BY <1>20 DEF Claim, TypeOK
  <2>5. TypeOK'
    BY <1>20, <2>1, <2>2, <2>3, <2>4 DEF Claim, TypeOK, storeVars, sweepVars
  <2>6. Writing'
    BY <1>20 DEF Claim, TypeOK, Writing, ServeSpan
  <2> QED
    BY <2>5, <2>6
<1>21. CASE Restart
  BY <1>21, ChunksFinite
  DEF Restart, TypeOK, Writing, ServeSpan, Pc, Live, Record,
                storeVars, mapVars, readVars, sweepVars
<1>22. CASE UNCHANGED vars
  BY <1>22
  DEF vars, TypeOK, Writing, ServeSpan, Pc, Live, Record,
                storeVars, mapVars, readVars, sweepVars
<1> QED
  BY <1>1, <1>2, <1>3, <1>4, <1>5, <1>6, <1>7, <1>8, <1>9, <1>10, <1>11, <1>12, <1>13, <1>14, <1>15, <1>16, <1>17, <1>18, <1>19, <1>20, <1>21, <1>22
  DEF Next, FillStep, FillRead, Sweep, Mark

(* The cache, its in-flight map and its fills keep their types.            *)
THEOREM TypeCorrect == Spec => []TypeOK
<1>1. Spec => []TypeInv
  BY TypeInit, TypeStep, PTL DEF Spec
<1>2. TypeInv => TypeOK
  BY DEF TypeInv
<1> QED
  BY <1>1, <1>2, PTL

-----------------------------------------------------------------------------
(* No record is orphaned.  What makes NoOrphanRecord inductive: a record   *)
(* is named after a fill that was spawned, so that a claim never finds a   *)
(* stale flag on its new record, and a fill that has not looked its        *)
(* records up still has its whole run to go through.                       *)

SpawnedOwners ==
  /\ \A c \in Chunk : inflight[c] # NoFill => pc[inflight[c]] # "idle"
  /\ \A g \in Fill, c \in Chunk : <<g, c>> \in success => pc[g] # "idle"
  /\ \A f, g \in Fill, c \in Chunk : <<g, c>> \in held[f] => pc[g] # "idle"

WholeRunUnmarked == \A f \in Fill : pc[f] = "claimed" => unmarked[f] = run[f]

GuardInv == SpawnedOwners /\ WholeRunUnmarked /\ NoOrphanRecord

(* No record is in the map at start, so none is orphaned.                  *)
LEMMA GuardInit == Init => GuardInv
BY DEF Init, GuardInv, SpawnedOwners, WholeRunUnmarked, NoOrphanRecord, Chunk

(* A step that leaves the map, the flags and the guards alone, moves no    *)
(* fill to or from a control point the guard properties tell apart.        *)
GuardsUntouched ==
  /\ UNCHANGED <<inflight, success, held, unmarked, run>>
  /\ \A f \in Fill :
       \/ pc'[f] = pc[f]
       \/ /\ pc[f] \in Live \ {"claimed", "resolve"}
          /\ pc'[f] \in Live \ {"claimed", "resolve"}

(* A step that touches neither map, flags nor guards orphans no record.    *)
LEMMA GuardStutter ==
  ASSUME TypeInv, GuardInv, GuardsUntouched
  PROVE  GuardInv'
<1> USE DEF TypeInv, TypeOK, GuardsUntouched
<1>1. SpawnedOwners'
  BY DEF GuardInv, SpawnedOwners, Live
<1>2. WholeRunUnmarked'
  BY DEF GuardInv, WholeRunUnmarked, Live
<1>3. \A f \in Fill, c \in Chunk : Removing(f, c) => Removing(f, c)'
  BY DEF Removing
<1>4. \A f \in Fill, c \in Chunk, g \in Fill :
        Responsible(f, c, g) => Responsible(f, c, g)'
  BY DEF Responsible, Live
<1>5. NoOrphanRecord'
  BY <1>3, <1>4 DEF GuardInv, NoOrphanRecord
<1> QED
  BY <1>1, <1>2, <1>5 DEF GuardInv

(* Every step keeps a mapped record in the care of a live fill: one case   *)
(* per action that claims, looks up, flags or removes records.             *)
LEMMA GuardStep == TypeInv /\ GuardInv /\ [Next]_vars => GuardInv'
<1> SUFFICES ASSUME TypeInv, GuardInv, [Next]_vars PROVE GuardInv'
  OBVIOUS
<1>t. TypeInv'
  BY TypeStep
<1> USE DEF TypeInv, TypeOK, GuardInv
(* Reading and evicting.                                                   *)
<1>1. ASSUME NEW f \in Fill,
             \/ Rename(f) \/ InsertRow(f) \/ Charge(f)
             \/ ServeDone(f) \/ ReadDone(f) \/ ReadFails(f)
      PROVE  GuardInv'
  <2>1. GuardsUntouched
    BY <1>1 DEF Rename, InsertRow, Charge, ServeDone, ReadDone, ReadFails,
       GuardsUntouched, Live, mapVars, readVars
  <2> QED
    BY <2>1, GuardStutter
<1>2. ASSUME NEW f \in Fill, Sweep(f) PROVE GuardInv'
  <2>1. GuardsUntouched
    BY <1>2 DEF Sweep, SweepStart, SweepEnd, SweepSkip, SweepPick, EvictRow, Unlink,
       Refund, GuardsUntouched, Live, mapVars, readVars
  <2> QED
    BY <2>1, GuardStutter
(* The guard of f looks up the records of its whole run.                   *)
<1>3. ASSUME NEW f \in Fill, Start(f) PROVE GuardInv'
  <2> USE <1>3 DEF Start, mapVars
  <2>1. SpawnedOwners'
    BY DEF SpawnedOwners
  <2>2. WholeRunUnmarked'
    BY DEF WholeRunUnmarked
  <2>3. ASSUME NEW c \in Chunk, NEW g \in Fill, NEW r \in Fill, inflight[c] = r,
               Responsible(g, c, r)
        PROVE  Responsible(g, c, r)'
    <3>1. CASE g = f
      BY <2>3, <3>1, ChunkCacheAssumption DEF Responsible, WholeRunUnmarked, Live
    <3>2. CASE g # f
      BY <2>3, <3>2 DEF Responsible
    <3> QED
      BY <3>1, <3>2
  <2>4. \A c \in Chunk, g \in Fill : Removing(g, c) => Removing(g, c)'
    BY DEF Removing
  <2>5. NoOrphanRecord'
    BY <2>3, <2>4 DEF NoOrphanRecord
  <2> QED
    BY <2>1, <2>2, <2>5
(* A chunk whose record is someone else's success needs no removal by f.   *)
<1>4. ASSUME NEW f \in Fill, MarkSkip(f) PROVE GuardInv'
  <2> USE <1>4 DEF MarkSkip, mapVars, readVars
  <2>1. SpawnedOwners' /\ WholeRunUnmarked'
    BY DEF SpawnedOwners, WholeRunUnmarked
  <2>2. ASSUME NEW c \in Chunk, NEW g \in Fill, NEW r \in Fill, <<r, c>> \notin success,
               Responsible(g, c, r)
        PROVE  Responsible(g, c, r)'
    BY <2>2 DEF Responsible, RecordsOf
  <2>3. \A c \in Chunk, g \in Fill : Removing(g, c) => Removing(g, c)'
    BY DEF Removing
  <2>4. NoOrphanRecord'
    BY <2>2, <2>3 DEF NoOrphanRecord
  <2> QED
    BY <2>1, <2>4
(* The records that f flags now are those of the chunk it removes next.    *)
<1>5. ASSUME NEW f \in Fill, MarkFlag(f) PROVE GuardInv'
  <2> DEFINE c0 == First(unmarked[f])
  <2> USE <1>5 DEF MarkFlag, readVars
  <2>1. success' \subseteq success \cup RecordsOf(f, c0)
    OBVIOUS
  <2>2. SpawnedOwners' /\ WholeRunUnmarked'
    BY <2>1 DEF SpawnedOwners, WholeRunUnmarked, RecordsOf
  <2>3. \A c \in Chunk : c = c0 => Removing(f, c)'
    BY DEF Removing
  <2>4. \A c \in Chunk, g \in Fill, r \in Fill :
          Responsible(g, c, r) => Responsible(g, c, r)'
    BY DEF Responsible, Live
  <2>5. \A c \in Chunk, g \in Fill : Removing(g, c) => Removing(g, c)'
    BY DEF Removing
  <2>6. ASSUME NEW c \in Chunk, NEW r \in Fill, <<r, c>> \in success' \ success
        PROVE  c = c0
    BY <2>1, <2>6 DEF RecordsOf
  <2>7. inflight' = inflight /\ success \subseteq success'
    OBVIOUS
  <2>8. ASSUME NEW c \in Chunk, inflight[c] # NoFill
        PROVE  IF <<inflight[c], c>> \in success'
               THEN \E g \in Fill : Removing(g, c)'
               ELSE \E g \in Fill : Responsible(g, c, inflight[c])'
    <3>0. inflight[c] \in Fill
      BY <2>8 DEF TypeInv, TypeOK
    <3>n. NoOrphanRecord
      OBVIOUS
    <3> HIDE DEF MarkFlag, readVars, c0, TypeInv, TypeOK, GuardInv
    <3>1. CASE <<inflight[c], c>> \in success
      BY <2>5, <2>7, <2>8, <3>n, <3>1 DEF NoOrphanRecord
    <3>2. CASE <<inflight[c], c>> \in success' \ success
      <4>1. c = c0
        BY <2>6, <3>0, <3>2
      <4> QED
        BY <2>3, <3>2, <4>1
    <3>3. CASE <<inflight[c], c>> \notin success'
      <4>1. PICK g \in Fill : Responsible(g, c, inflight[c])
        BY <2>7, <2>8, <3>n, <3>3 DEF NoOrphanRecord
      <4> QED
        BY <2>4, <2>7, <3>0, <3>3, <4>1
    <3> QED
      BY <3>1, <3>2, <3>3
  <2>9. NoOrphanRecord'
    <3> HIDE DEF MarkFlag, readVars, Removing, Responsible
    <3> QED
      BY <2>7, <2>8 DEF NoOrphanRecord
  <2> QED
    BY <2>2, <2>9
(* The record is gone, whoever was responsible for it.                     *)
<1>6. ASSUME NEW f \in Fill, Resolve(f) PROVE GuardInv'
  <2> DEFINE c0 == First(unmarked[f])
  <2> USE <1>6 DEF Resolve, readVars
  <2>1. SpawnedOwners' /\ WholeRunUnmarked'
    BY ChunkCacheAssumption DEF SpawnedOwners, WholeRunUnmarked
  <2>2. \A c \in Chunk \ {c0}, g \in Fill, r \in Fill :
          Responsible(g, c, r) => Responsible(g, c, r)'
    BY DEF Responsible, Live
  <2>3. \A c \in Chunk \ {c0}, g \in Fill : Removing(g, c) => Removing(g, c)'
    BY DEF Removing
  <2>4. NoOrphanRecord'
    BY <2>2, <2>3 DEF NoOrphanRecord
  <2> QED
    BY <2>1, <2>4
(* A fill that ends has gone through its whole run.                        *)
<1>7. ASSUME NEW f \in Fill, FillDone(f) PROVE GuardInv'
  <2> USE <1>7 DEF FillDone, mapVars
  <2>1. SpawnedOwners' /\ WholeRunUnmarked'
    BY DEF SpawnedOwners, WholeRunUnmarked
  <2>2. \A c \in Chunk, g \in Fill, r \in Fill :
          Responsible(g, c, r) => Responsible(g, c, r)'
    BY DEF Responsible
  <2>3. \A c \in Chunk, g \in Fill : Removing(g, c) => Removing(g, c)'
    BY DEF Removing
  <2>4. NoOrphanRecord'
    BY <2>2, <2>3 DEF NoOrphanRecord
  <2> QED
    BY <2>1, <2>4
(* A takeover spawns an idle fill, which was responsible for nothing.      *)
<1>8. ASSUME NEW f \in Fill, NEW c0 \in Chunk, TakeOver(f, c0) PROVE GuardInv'
  <2> USE <1>8 DEF TakeOver, mapVars
  <2>1. SpawnedOwners' /\ WholeRunUnmarked'
    BY DEF SpawnedOwners, WholeRunUnmarked
  <2>2. \A c \in Chunk, g \in Fill, r \in Fill :
          Responsible(g, c, r) => Responsible(g, c, r)'
    BY DEF Responsible, Live
  <2>3. \A c \in Chunk, g \in Fill : Removing(g, c) => Removing(g, c)'
    BY DEF Removing
  <2>4. NoOrphanRecord'
    BY <2>2, <2>3 DEF NoOrphanRecord
  <2> QED
    BY <2>1, <2>4
(* So does a claim; its new records carry no flag yet.                     *)
<1>9. ASSUME NEW S \in SUBSET Chunk, NEW own \in [S -> Fill], Claim(S, own)
      PROVE  GuardInv'
  <2> USE <1>9 DEF Claim
  <2>1. \A c \in S : pc[own[c]] = "idle" /\ pc'[own[c]] = "claimed" /\ c \in unmarked'[own[c]]
    OBVIOUS
  <2>2. \A g \in Fill : pc[g] # "idle" =>
          pc'[g] = pc[g] /\ unmarked'[g] = unmarked[g] /\ run'[g] = run[g]
    OBVIOUS
  <2>3. SpawnedOwners'
    BY <2>1, <2>2 DEF SpawnedOwners
  <2>4. WholeRunUnmarked'
    BY DEF WholeRunUnmarked
  <2>5. ASSUME NEW c \in S
        PROVE  /\ inflight'[c] = own[c] /\ <<own[c], c>> \notin success'
               /\ Responsible(own[c], c, own[c])'
    BY <2>1 DEF SpawnedOwners, Responsible
  <2>6. \A c \in Chunk, g \in Fill, r \in Fill :
          Responsible(g, c, r) => Responsible(g, c, r)'
    BY <2>2 DEF Responsible, Live
  <2>7. \A c \in Chunk, g \in Fill : Removing(g, c) => Removing(g, c)'
    BY <2>2 DEF Removing
  <2>8. \A c \in Chunk \ S : inflight'[c] = inflight[c]
    OBVIOUS
  <2>9. NoOrphanRecord'
    BY <2>5, <2>6, <2>7, <2>8 DEF NoOrphanRecord
  <2> QED
    BY <2>3, <2>4, <2>9
(* A restart empties the map.                                              *)
<1>10. CASE Restart
  BY <1>10 DEF Restart, SpawnedOwners, WholeRunUnmarked, NoOrphanRecord
<1>11. CASE UNCHANGED vars
  <2>1. GuardsUntouched
    BY <1>11 DEF vars, mapVars, readVars, GuardsUntouched
  <2> QED
    BY <2>1, GuardStutter
<1> QED
  BY <1>1, <1>2, <1>3, <1>4, <1>5, <1>6, <1>7, <1>8, <1>9, <1>10, <1>11
  DEF Next, FillStep, FillRead, Mark

(* Every record of the in-flight map has a live fill bound to resolve or   *)
(* remove it, for any number of fills, takeovers and restarts.             *)
THEOREM RecordsNeverOrphaned == Spec => []NoOrphanRecord
<1>1. TypeInv /\ GuardInv /\ [Next]_vars => (TypeInv /\ GuardInv)'
  BY TypeStep, GuardStep
<1>2. Spec => [](TypeInv /\ GuardInv)
  BY <1>1, TypeInit, GuardInit, PTL DEF Spec
<1>3. GuardInv => NoOrphanRecord
  BY DEF GuardInv
<1> QED
  BY <1>2, <1>3, PTL

-----------------------------------------------------------------------------
(* Bytes are lost to evictions only.  Between rename and insert the file   *)
(* can go, but only by a sweep that deleted the chunk's row before.        *)

Gone(c) == \E g \in Fill : c \in dropped[g]

BytesInv ==
  /\ BytesLostOnlyToEviction
  /\ \A f \in Fill : pc[f] = "renamed" => First(ServeSpan(f)) \in file \/ Gone(First(ServeSpan(f)))
  /\ \A f \in Fill : pc[f] \in {"unlink", "refund"} => victim[f] \subseteq dropped[f]

(* The store is empty at start.                                            *)
LEMMA BytesInit == Init => BytesInv
BY DEF Init, BytesInv, BytesLostOnlyToEviction

(* A step that neither adds a row nor removes a file keeps BytesInv, if it *)
(* moves no fill to a control point BytesInv speaks of.                    *)
BytesUntouched ==
  /\ row' \subseteq row /\ file \subseteq file'
  /\ \A f \in Fill : dropped[f] \subseteq dropped'[f]
  /\ \A f \in Fill : pc'[f] = "renamed" =>
       pc[f] = "renamed" /\ ServeSpan(f)' = ServeSpan(f)
  /\ \A f \in Fill : pc'[f] \in {"unlink", "refund"} =>
       pc[f] \in {"unlink", "refund"} /\ victim'[f] = victim[f]

(* A step that touches neither rows nor files loses no bytes.              *)
LEMMA BytesStutter ==
  ASSUME TypeInv, BytesInv, BytesUntouched
  PROVE  BytesInv'
<1>1. \A c \in Chunk : Gone(c) => Gone(c)'
  BY DEF Gone, BytesUntouched
<1>2. BytesLostOnlyToEviction'
  BY <1>1 DEF BytesInv, BytesLostOnlyToEviction, BytesUntouched, Gone, TypeInv, TypeOK
<1>3. ASSUME NEW f \in Fill, pc'[f] = "renamed"
      PROVE  First(ServeSpan(f))' \in file' \/ Gone(First(ServeSpan(f)))'
  <2>1. First(ServeSpan(f))' = First(ServeSpan(f)) /\ pc[f] = "renamed"
    BY <1>3 DEF BytesUntouched
  <2> QED
    BY <2>1 DEF BytesInv, BytesUntouched, Gone
<1>4. \A f \in Fill : pc'[f] \in {"unlink", "refund"} => victim'[f] \subseteq dropped'[f]
  BY DEF BytesInv, BytesUntouched
<1> QED
  BY <1>2, <1>3, <1>4 DEF BytesInv

(* Every step that removes a file follows the deletion of its row by the   *)
(* same sweep, and every row is inserted after its file.                   *)
LEMMA BytesStep == TypeInv /\ BytesInv /\ [Next]_vars => BytesInv'
<1> SUFFICES ASSUME TypeInv, BytesInv, [Next]_vars PROVE BytesInv'
  OBVIOUS
<1> USE DEF TypeInv, TypeOK
(* The file that was just renamed is there.                                *)
<1>1. ASSUME NEW f \in Fill, Rename(f) PROVE BytesInv'
  <2> USE <1>1 DEF Rename, readVars, mapVars, sweepVars
  <2>1. \A g \in Fill : ServeSpan(g)' = ServeSpan(g)
    BY DEF ServeSpan
  <2>2. BytesLostOnlyToEviction'
    BY DEF BytesInv, BytesLostOnlyToEviction
  <2>3. \A g \in Fill : pc'[g] = "renamed" =>
          First(ServeSpan(g))' \in file' \/ Gone(First(ServeSpan(g)))'
    BY <2>1 DEF BytesInv, Gone
  <2> QED
    BY <2>2, <2>3 DEF BytesInv
(* The row that appears has its file, or the file was evicted meanwhile.   *)
<1>2. ASSUME NEW f \in Fill, InsertRow(f) PROVE BytesInv'
  <2> USE <1>2 DEF InsertRow, mapVars, sweepVars
  <2>1. BytesLostOnlyToEviction'
    BY DEF BytesInv, BytesLostOnlyToEviction, Gone
  <2>2. \A g \in Fill : pc'[g] = "renamed" => pc[g] = "renamed" /\ ServeSpan(g)' = ServeSpan(g)
    BY DEF ServeSpan
  <2>3. \A g \in Fill : pc'[g] = "renamed" =>
          First(ServeSpan(g))' \in file' \/ Gone(First(ServeSpan(g)))'
    BY <2>2 DEF BytesInv, Gone
  <2> QED
    BY <2>1, <2>3 DEF BytesInv
(* The row is deleted before the file.                                     *)
<1>3. ASSUME NEW f \in Fill, EvictRow(f) PROVE BytesInv'
  <2> USE <1>3 DEF EvictRow, mapVars, readVars
  <2>1. \A g \in Fill : dropped[g] \subseteq dropped'[g]
    OBVIOUS
  <2>2. BytesLostOnlyToEviction'
    BY <2>1 DEF BytesInv, BytesLostOnlyToEviction
  <2>3. \A g \in Fill : ServeSpan(g)' = ServeSpan(g)
    BY DEF ServeSpan
  <2>4. \A g \in Fill : pc'[g] = "renamed" =>
          First(ServeSpan(g))' \in file' \/ Gone(First(ServeSpan(g)))'
    BY <2>1, <2>3 DEF BytesInv, Gone
  <2>5. \A g \in Fill : pc'[g] \in {"unlink", "refund"} => victim'[g] \subseteq dropped'[g]
    BY DEF BytesInv
  <2> QED
    BY <2>2, <2>4, <2>5 DEF BytesInv
(* The file that goes is one the sweep has deleted the row of.             *)
<1>4. ASSUME NEW f \in Fill, Unlink(f) PROVE BytesInv'
  <2> USE <1>4 DEF Unlink, mapVars, readVars, sweepVars
  <2>1. victim[f] \subseteq dropped[f] /\ file \ victim[f] = file'
    BY DEF BytesInv
  <2>2. BytesLostOnlyToEviction'
    BY <2>1 DEF BytesInv, BytesLostOnlyToEviction
  <2>3. \A g \in Fill : ServeSpan(g)' = ServeSpan(g)
    BY DEF ServeSpan
  <2>4. \A g \in Fill : pc'[g] = "renamed" =>
          First(ServeSpan(g))' \in file' \/ Gone(First(ServeSpan(g)))'
    BY <2>1, <2>3 DEF BytesInv, Gone
  <2> QED
    BY <2>2, <2>4 DEF BytesInv
<1>5. ASSUME NEW f \in Fill,
             \/ Start(f) \/ Charge(f) \/ ServeDone(f) \/ ReadDone(f) \/ ReadFails(f)
             \/ SweepStart(f) \/ SweepEnd(f) \/ Refund(f)
             \/ \E c \in Chunk : SweepSkip(f, c) \/ SweepPick(f, c)
             \/ Mark(f)
      PROVE  BytesInv'
  <2>1. BytesUntouched
    <3> USE DEF BytesUntouched, ServeSpan, storeVars, mapVars, readVars, sweepVars
    <3>1. CASE Start(f)
      BY <3>1 DEF Start
    <3>2. CASE ServeDone(f) \/ ReadDone(f) \/ ReadFails(f)
      BY <3>2 DEF ServeDone, ReadDone, ReadFails
    <3>3. CASE SweepStart(f) \/ SweepEnd(f) \/ Refund(f)
      BY <3>3 DEF SweepStart, SweepEnd, Refund
    <3>4. ASSUME NEW c \in Chunk, SweepSkip(f, c)
          PROVE  BytesUntouched
      BY <3>4 DEF SweepSkip
    <3>5. ASSUME NEW c \in Chunk, SweepPick(f, c)
          PROVE  BytesUntouched
      BY <3>5 DEF SweepPick
    <3>6. CASE Mark(f)
      BY <3>6 DEF Mark, MarkSkip, MarkFlag, Resolve, FillDone
    <3>7. CASE Charge(f)
      BY <3>7 DEF Charge
    <3> HIDE DEF BytesUntouched
    <3> QED
      BY <1>5, <3>1, <3>2, <3>3, <3>4, <3>5, <3>6, <3>7
  <2> QED
    BY <2>1, BytesStutter
<1>6. ASSUME NEW f \in Fill, NEW c \in Chunk, TakeOver(f, c) PROVE BytesInv'
  <2>1. BytesUntouched
    BY <1>6 DEF TakeOver, BytesUntouched, ServeSpan, storeVars, sweepVars
  <2> QED
    BY <2>1, BytesStutter
<1>7. ASSUME NEW S \in SUBSET Chunk, NEW own \in [S -> Fill], Claim(S, own)
      PROVE  BytesInv'
  <2>1. BytesUntouched
    BY <1>7 DEF Claim, BytesUntouched, ServeSpan, storeVars, sweepVars
  <2> QED
    BY <2>1, BytesStutter
(* The store survives a restart as it is, or is emptied.                   *)
<1>8. CASE Restart
  BY <1>8 DEF Restart, BytesInv, BytesLostOnlyToEviction, Gone
<1>9. CASE UNCHANGED vars
  <2>1. BytesUntouched
    BY <1>9 DEF vars, BytesUntouched, ServeSpan, storeVars, mapVars, readVars, sweepVars
  <2> QED
    BY <2>1, BytesStutter
<1> QED
  BY <1>1, <1>2, <1>3, <1>4, <1>5, <1>6, <1>7, <1>8, <1>9
  DEF Next, FillStep, FillRead, Sweep

(* No interleaving of publications, failures and restarts advertises a     *)
(* chunk without a file; only an eviction sweep can take one away.         *)
THEOREM BytesOnlyEvicted == Spec => []BytesLostOnlyToEviction
<1>1. TypeInv /\ BytesInv /\ [Next]_vars => (TypeInv /\ BytesInv)'
  BY TypeStep, BytesStep
<1>2. Spec => [](TypeInv /\ BytesInv)
  BY <1>1, TypeInit, BytesInit, PTL DEF Spec
<1>3. BytesInv => BytesLostOnlyToEviction
  BY DEF BytesInv
<1> QED
  BY <1>2, <1>3, PTL

-----------------------------------------------------------------------------
(* The budget.  An eviction deletes exactly one row: its victim is a       *)
(* single chunk.                                                           *)

BudgetInv ==
  /\ BudgetCoversRows
  /\ \A f \in Fill : pc[f] = "evict" => \E c \in Chunk : victim[f] = {c}

(* A set of fills is finite.                                               *)
LEMMA FillsFinite ==
  ASSUME TypeOK
  PROVE  /\ IsFiniteSet(Charging) /\ Cardinality(Charging) \in Nat
         /\ IsFiniteSet(Refunding) /\ Cardinality(Refunding) \in Nat
         /\ IsFiniteSet(row) /\ Cardinality(row) \in Nat
<1>1. Charging \in SUBSET Fill /\ Refunding \in SUBSET Fill
  BY DEF Charging, Refunding
<1>2. row \in SUBSET Chunk
  BY DEF TypeOK
<1> QED
  BY <1>1, <1>2, ChunksFinite, FS_Subset, FS_CardinalityType, ChunkCacheAssumption

(* The empty store weighs nothing.                                         *)
LEMMA BudgetInit == Init => BudgetInv
<1> SUFFICES ASSUME Init PROVE BudgetInv
  OBVIOUS
<1>1. row = {} /\ Refunding = {} /\ Charging = {} /\ budget = 0
  BY DEF Init, Refunding, Charging
<1>2. Cardinality({}) = 0
  BY FS_EmptySet
<1>3. BudgetCoversRows
  BY <1>1, <1>2 DEF BudgetCoversRows
<1>4. \A f \in Fill : pc[f] = "evict" => \E c \in Chunk : victim[f] = {c}
  BY DEF Init
<1> QED
  BY <1>3, <1>4 DEF BudgetInv

(* Every step keeps the count of bytes at or above the rows, but for the   *)
(* rows about to be charged.                                               *)
LEMMA BudgetStep == TypeInv /\ BudgetInv /\ [Next]_vars => BudgetInv'
<1> SUFFICES ASSUME TypeInv, BudgetInv, [Next]_vars PROVE BudgetInv'
  OBVIOUS
<1> USE DEF TypeInv
<1>f. TypeOK /\ TypeOK'
  BY TypeStep
<1> DEFINE Victims == \A f \in Fill : pc[f] = "evict" => \E c \in Chunk : victim[f] = {c}
(* The budget, the rows and the fills about to charge or refund stay.      *)
<1>1. ASSUME row' = row, budget' = budget, Charging' = Charging, Refunding' = Refunding,
             Victims'
      PROVE  BudgetInv'
  BY <1>1 DEF BudgetInv, BudgetCoversRows
<1>2. ASSUME NEW f \in Fill,
             \/ Start(f) \/ Rename(f) \/ ServeDone(f) \/ ReadDone(f) \/ ReadFails(f)
             \/ SweepStart(f) \/ SweepEnd(f) \/ Unlink(f) \/ Mark(f)
             \/ \E c \in Chunk : SweepSkip(f, c) \/ SweepPick(f, c)
      PROVE  BudgetInv'
  <2>3. Victims'
    <3> USE <1>f DEF BudgetInv, TypeOK, storeVars, mapVars, readVars, sweepVars
    <3>1. CASE Start(f) \/ Rename(f)
      BY <3>1 DEF Start, Rename
    <3>2. CASE ServeDone(f) \/ ReadDone(f) \/ ReadFails(f)
      BY <3>2 DEF ServeDone, ReadDone, ReadFails
    <3>3. CASE SweepStart(f) \/ SweepEnd(f) \/ Unlink(f)
      BY <3>3 DEF SweepStart, SweepEnd, Unlink
    <3>4. CASE Mark(f)
      BY <3>4 DEF Mark, MarkSkip, MarkFlag, Resolve, FillDone
    <3>5. CASE \E c \in Chunk : SweepSkip(f, c) \/ SweepPick(f, c)
      BY <3>5 DEF SweepSkip, SweepPick
    <3> QED
      BY <1>2, <3>1, <3>2, <3>3, <3>4, <3>5
  <2> USE <1>2 DEF Start, Rename, ServeDone, ReadDone, ReadFails, SweepStart, SweepEnd,
       Unlink, SweepSkip, SweepPick, Mark, MarkSkip, MarkFlag, Resolve, FillDone,
       storeVars, mapVars, readVars, sweepVars
  <2>1. row' = row /\ budget' = budget
    OBVIOUS
  <2>2. Charging' = Charging /\ Refunding' = Refunding
    BY <1>f DEF Charging, Refunding, TypeOK
  <2> QED
    BY <1>1, <2>1, <2>2, <2>3
(* Charging a chunk moves a unit from the fill to the budget.              *)
<1>3. ASSUME NEW f \in Fill, Charge(f) PROVE BudgetInv'
  <2> USE <1>3 DEF Charge, mapVars, sweepVars
  <2>1. row' = row /\ budget' = budget + 1 /\ f \in Charging
    BY DEF Charging
  <2>2. Charging' = Charging \ {f} /\ Refunding' = Refunding
    BY <1>f DEF Charging, Refunding, TypeOK
  <2>3. Cardinality(Charging') = Cardinality(Charging) - 1
    BY <1>f, <2>1, <2>2, FillsFinite, FS_RemoveElement
  <2>4. BudgetCoversRows'
    BY <1>f, <2>1, <2>2, <2>3, FillsFinite DEF BudgetInv, BudgetCoversRows, TypeOK
  <2>5. Victims'
    BY <1>f DEF BudgetInv, TypeOK
  <2> QED
    BY <2>4, <2>5 DEF BudgetInv
(* A new row is one more, and one more fill that will charge for it.       *)
<1>4. ASSUME NEW f \in Fill, InsertRow(f) PROVE BudgetInv'
  <2> DEFINE c0 == First(ServeSpan(f))
  <2> USE <1>4 DEF InsertRow, mapVars, sweepVars
  <2>1. Victims'
    BY <1>f DEF BudgetInv, TypeOK
  <2>2. CASE c0 \in row
    <3>1. row' = row /\ budget' = budget /\ Charging' = Charging /\ Refunding' = Refunding
      BY <1>f, <2>2 DEF Charging, Refunding, TypeOK
    <3> QED
      BY <1>1, <2>1, <3>1
  <2>3. CASE c0 \notin row
    <3>1. row' = row \cup {c0} /\ budget' = budget /\ f \notin Charging
      BY DEF Charging
    <3>2. Charging' = Charging \cup {f} /\ Refunding' = Refunding
      BY <1>f, <2>3 DEF Charging, Refunding, TypeOK
    <3>3. Cardinality(row') = Cardinality(row) + 1
      BY <1>f, <2>3, <3>1, FillsFinite, FS_AddElement
    <3>4. Cardinality(Charging') = Cardinality(Charging) + 1
      BY <1>f, <3>1, <3>2, FillsFinite, FS_AddElement
    <3>5. BudgetCoversRows'
      BY <1>f, <3>1, <3>2, <3>3, <3>4, FillsFinite DEF BudgetInv, BudgetCoversRows, TypeOK
    <3> QED
      BY <2>1, <3>5 DEF BudgetInv
  <2> QED
    BY <2>2, <2>3
(* A deleted row is one less, and one more sweeper that will refund it.    *)
<1>5. ASSUME NEW f \in Fill, EvictRow(f) PROVE BudgetInv'
  <2> USE <1>5 DEF EvictRow, mapVars, readVars
  <2>1. PICK c0 \in Chunk : victim[f] = {c0}
    BY DEF BudgetInv
  <2>2. Victims'
    BY <1>f DEF BudgetInv, TypeOK
  <2>3. CASE c0 \notin row
    <3>1. row' = row /\ budget' = budget
      BY <2>1, <2>3
    <3>2. Charging' = Charging /\ Refunding' = Refunding
      BY <1>f, <2>1, <2>3 DEF Charging, Refunding, TypeOK
    <3> QED
      BY <1>1, <2>2, <3>1, <3>2
  <2>4. CASE c0 \in row
    <3>1. row' = row \ {c0} /\ budget' = budget /\ f \notin Refunding
      BY <2>1 DEF Refunding
    <3>2. Refunding' = Refunding \cup {f} /\ Charging' = Charging
      BY <1>f, <2>1, <2>4 DEF Charging, Refunding, TypeOK
    <3>3. Cardinality(row') = Cardinality(row) - 1
      BY <1>f, <2>4, <3>1, FillsFinite, FS_RemoveElement
    <3>4. Cardinality(Refunding') = Cardinality(Refunding) + 1
      BY <1>f, <3>1, <3>2, FillsFinite, FS_AddElement
    <3>5. BudgetCoversRows'
      BY <1>f, <3>1, <3>2, <3>3, <3>4, FillsFinite DEF BudgetInv, BudgetCoversRows, TypeOK
    <3> QED
      BY <2>2, <3>5 DEF BudgetInv
  <2> QED
    BY <2>3, <2>4
(* A refund takes a unit off the budget; where there is none, there are    *)
(* enough fills about to charge to cover the rows.                         *)
<1>6. ASSUME NEW f \in Fill, Refund(f) PROVE BudgetInv'
  <2> USE <1>6 DEF Refund, mapVars, readVars
  <2>1. row' = row /\ f \in Refunding
    BY DEF Refunding
  <2>2. Refunding' = Refunding \ {f} /\ Charging' = Charging
    BY <1>f DEF Charging, Refunding, TypeOK
  <2>3. Cardinality(Refunding') = Cardinality(Refunding) - 1
    BY <1>f, <2>1, <2>2, FillsFinite, FS_RemoveElement
  <2>4. BudgetCoversRows'
    BY <1>f, <2>1, <2>2, <2>3, FillsFinite DEF BudgetInv, BudgetCoversRows, TypeOK
  <2>5. Victims'
    BY <1>f DEF BudgetInv, TypeOK
  <2> QED
    BY <2>4, <2>5 DEF BudgetInv
<1>7. ASSUME NEW f \in Fill, NEW c \in Chunk, TakeOver(f, c) PROVE BudgetInv'
  <2> USE <1>7 DEF TakeOver, storeVars, sweepVars
  <2>1. Charging' = Charging /\ Refunding' = Refunding
    BY <1>f DEF Charging, Refunding, TypeOK
  <2>2. Victims'
    BY <1>f DEF BudgetInv, TypeOK
  <2> QED
    BY <1>1, <2>1, <2>2
<1>8. ASSUME NEW S \in SUBSET Chunk, NEW own \in [S -> Fill], Claim(S, own)
      PROVE  BudgetInv'
  <2> USE <1>8 DEF Claim, storeVars, sweepVars
  <2>1. \A f \in Fill : pc'[f] = pc[f] \/ (pc[f] = "idle" /\ pc'[f] = "claimed")
    OBVIOUS
  <2>2. Charging' = Charging /\ Refunding' = Refunding
    BY <2>1 DEF Charging, Refunding
  <2>3. Victims'
    BY <2>1 DEF BudgetInv
  <2> QED
    BY <1>1, <2>2, <2>3
(* The budget is computed anew from the rows.                              *)
<1>9. CASE Restart
  <2>1. Charging' = {} /\ Refunding' = {} /\ Victims'
    BY <1>9 DEF Restart, Charging, Refunding
  <2>2. budget' = Cardinality(row')
    BY <1>9, FS_EmptySet DEF Restart
  <2>3. BudgetCoversRows'
    BY <1>f, <2>1, <2>2, FS_EmptySet, FillsFinite DEF BudgetCoversRows, TypeOK
  <2> QED
    BY <2>1, <2>3 DEF BudgetInv
<1>10. CASE UNCHANGED vars
  <2>1. Charging' = Charging /\ Refunding' = Refunding /\ Victims'
    BY <1>10 DEF vars, Charging, Refunding, BudgetInv, sweepVars
  <2> QED
    BY <1>1, <1>10, <2>1 DEF vars, storeVars
<1> QED
  BY <1>2, <1>3, <1>4, <1>5, <1>6, <1>7, <1>8, <1>9, <1>10
  DEF Next, FillStep, FillRead, Sweep

(* The byte budget never undercounts what is PRESENT, whatever fills and   *)
(* sweepers race.                                                          *)
THEOREM BudgetNeverUndercounts == Spec => []BudgetCoversRows
<1>1. TypeInv /\ BudgetInv /\ [Next]_vars => (TypeInv /\ BudgetInv)'
  BY TypeStep, BudgetStep
<1>2. Spec => [](TypeInv /\ BudgetInv)
  BY <1>1, TypeInit, BudgetInit, PTL DEF Spec
<1>3. BudgetInv => BudgetCoversRows
  BY DEF BudgetInv
<1> QED
  BY <1>2, <1>3, PTL

-----------------------------------------------------------------------------
(* Demands.  A demand is a client of the cache: it claims, it takes over,  *)
(* and between those steps of its own the fills run.  Whatever the cache   *)
(* guarantees under Spec it guarantees to the demands.                     *)

(* A demand in the middle of an absent run.                                *)
InRun == {"join", "consume", "await", "filling", "serve"}

(* Where demands are in their windows: no further than one past the last   *)
(* chunk, and at an absent chunk when in the middle of an absent run.      *)
WindowsOK ==
  \A d \in Demand :
    /\ dpc[d] \notin {"idle", "ended"} => last[d] \in Chunk /\ pos[d] <= last[d] + 1
    /\ \A c \in miss[d] : c <= last[d]
    /\ dpc[d] \in InRun => pos[d] \in miss[d]

DemandTypeInv == DemandTypeOK /\ WindowsOK

(* No demand has planned anything at start.                                *)
LEMMA DemandTypeInit == DemandInit => DemandTypeInv
BY ChunkCacheAssumption
DEF DemandInit, DemandTypeInv, DemandTypeOK, WindowsOK, DemandPc, InRun

(* The fills of a demand are its own: those of its absent runs, and, one   *)
(* for every chunk, its takeovers.                                         *)
LEMMA FillsOfDemand ==
  ASSUME NEW d \in Demand, NEW c \in Chunk
  PROVE  <<d, c>> \in Fill /\ <<d, NumChunks + c>> \in Fill
BY ChunkCacheAssumption, DemandFills DEF Chunk

(* The run of an absent chunk starts at an absent chunk.                   *)
LEMMA HeadOfRun ==
  ASSUME NEW S \in SUBSET Chunk, NEW c \in S
  PROVE  First({e \in S : e <= c /\ e .. c \subseteq S}) \in S
<1> DEFINE Run == {e \in S : e <= c /\ e .. c \subseteq S}
<1>1. c \in Run
  BY ChunkCacheAssumption DEF Chunk
<1>2. Run \in SUBSET Chunk
  OBVIOUS
<1>3. First(Run) \in Run
  <2> HIDE DEF Run
  <2> QED BY <1>1, <1>2, FirstChunk
<1> QED
  BY <1>3

(* A chunk delivered in an absent run is followed by one of the same run,  *)
(* or the demand goes back to its plan.                                    *)
LEMMA AdvanceType ==
  ASSUME DemandTypeInv, NEW d \in Demand, Advance(d),
         dpc[d] \in {"run"} \cup InRun, pos[d] <= last[d]
  PROVE  /\ pos' \in [Demand -> 0 .. NumChunks] /\ dpc' \in [Demand -> DemandPc]
         /\ pos'[d] = pos[d] + 1 /\ dpc'[d] \in {"run", "consume"}
         /\ dpc'[d] = "consume" => pos[d] + 1 \in miss[d]
         /\ \A e \in Demand \ {d} : pos'[e] = pos[e] /\ dpc'[e] = dpc[e]
<1>1. pos[d] \in 0 .. NumChunks /\ last[d] \in 0 .. (NumChunks - 1)
  BY DEF DemandTypeInv, DemandTypeOK, WindowsOK, InRun, Chunk
<1>2. pos[d] + 1 \in 0 .. NumChunks
  BY <1>1, ChunkCacheAssumption
<1> QED
  BY <1>2 DEF Advance, DemandTypeInv, DemandTypeOK, DemandPc

(* A demand's read of the chunk it is at, or its end.                      *)
LEMMA ReadType ==
  ASSUME DemandTypeInv, NEW d \in Demand,
         dpc[d] \in {"run"} \cup InRun, pos[d] <= last[d],
         \/ Advance(d) /\ handle' = handle \cup {pos[d]} /\ UNCHANGED outcome
         \/ Advance(d) /\ UNCHANGED <<handle, outcome>>
         \/ \E o \in Ended : End(d, o) /\ UNCHANGED <<pos, handle>>,
         UNCHANGED <<last, miss, local, source, tookOver>>
  PROVE  DemandTypeInv'
<1>1. CASE Advance(d)
  <2>1. pos[d] \in Chunk
    <3>1. pos[d] \in 0 .. NumChunks /\ last[d] \in 0 .. (NumChunks - 1)
      BY DEF DemandTypeInv, DemandTypeOK, WindowsOK, InRun, Chunk
    <3> QED
      BY <3>1, ChunkCacheAssumption DEF Chunk
  <2>2. handle' \in SUBSET Chunk /\ outcome' = outcome
    <3>1. CASE UNCHANGED <<handle, outcome>>
      BY <3>1 DEF DemandTypeInv, DemandTypeOK
    <3>2. CASE handle' = handle \cup {pos[d]} /\ UNCHANGED outcome
      BY <2>1, <3>2 DEF DemandTypeInv, DemandTypeOK
    <3>3. CASE \E o \in Ended : End(d, o) /\ UNCHANGED <<pos, handle>>
      <4>1. pos'[d] = pos[d] /\ pos'[d] = pos[d] + 1
        BY <3>3, <1>1, AdvanceType
      <4>2. pos[d] \in Nat
        BY ChunkCacheAssumption DEF DemandTypeInv, DemandTypeOK
      <4> QED
        BY <4>1, <4>2
    <3> QED
      BY <3>1, <3>2, <3>3
  <2>3. DemandTypeOK'
    BY <1>1, <2>2, AdvanceType DEF DemandTypeInv, DemandTypeOK
  <2>4. WindowsOK'
    <3> SUFFICES ASSUME NEW e \in Demand
                 PROVE  /\ dpc'[e] \notin {"idle", "ended"} =>
                             last[e] \in Chunk /\ pos'[e] <= last[e] + 1
                        /\ \A c \in miss[e] : c <= last[e]
                        /\ dpc'[e] \in InRun => pos'[e] \in miss[e]
      BY DEF WindowsOK
    <3>1. CASE e = d
      <4>1. pos[d] \in Nat /\ last[d] \in Nat
        BY ChunkCacheAssumption DEF DemandTypeInv, DemandTypeOK
      <4> QED
        BY <1>1, <3>1, <4>1, AdvanceType DEF DemandTypeInv, WindowsOK, InRun
    <3>2. CASE e # d
      BY <1>1, <3>2, AdvanceType DEF DemandTypeInv, WindowsOK
    <3> QED
      BY <3>1, <3>2
  <2> QED
    BY <2>3, <2>4 DEF DemandTypeInv
<1>2. CASE \E o \in Ended : End(d, o) /\ UNCHANGED <<pos, handle>>
  <2>1. DemandTypeOK'
    BY <1>2 DEF End, DemandTypeInv, DemandTypeOK, DemandPc
  <2>2. WindowsOK'
    BY <1>2 DEF End, DemandTypeInv, DemandTypeOK, WindowsOK, InRun
  <2> QED
    BY <2>1, <2>2 DEF DemandTypeInv
<1> QED
  BY <1>1, <1>2

(* Every step of a demand keeps it within its window.                      *)
LEMMA DemandTypeStep ==
  ASSUME TypeInv, DemandTypeInv, [DemandNext]_allVars
  PROVE  DemandTypeInv'
<1> USE DEF cacheVars
(* A demand that reads or reports one chunk of its window.                 *)
<1>1. ASSUME NEW d \in Demand, ReadPlanned(d) PROVE DemandTypeInv'
  <2>1. dpc[d] \in {"run"} \cup InRun /\ pos[d] <= last[d]
    BY <1>1 DEF ReadPlanned
  <2> QED
    BY <1>1, <2>1, ReadType DEF ReadPlanned, Ended
<1>2. ASSUME NEW d \in Demand, ReadLocal(d) \/ Stream(d) \/ StreamFails(d) \/ ServeJoined(d)
      PROVE  DemandTypeInv'
  <2>1. dpc[d] \in {"run"} \cup InRun /\ pos[d] <= last[d]
    BY <1>2 DEF ReadLocal, Stream, StreamFails, ServeJoined, AtItem, InRun,
       DemandTypeInv, WindowsOK
  <2> QED
    BY <1>2, <2>1, ReadType
    DEF ReadLocal, Stream, StreamFails, ServeJoined, PreadItem, Ended
<1>3. ASSUME NEW d \in Demand, Complete(d) \/ Cancel(d) PROVE DemandTypeInv'
  BY <1>3 DEF Complete, Cancel, End, Ended, DemandTypeInv, DemandTypeOK, WindowsOK,
     DemandPc, InRun
(* A demand that plans starts at the first chunk of its window.            *)
<1>4. ASSUME NEW d \in Demand, NEW w \in Windows[d], Plan(d, w[1], w[2])
      PROVE  DemandTypeInv'
  <2>1. w[1] \in 0 .. (NumChunks - 1) /\ w[2] \in 0 .. (NumChunks - 1) /\ w[1] <= w[2]
    BY DemandWindows DEF Chunk
  <2>2. /\ w[1] \in 0 .. NumChunks /\ w[2] \in 0 .. NumChunks
        /\ w[1] <= w[2] + 1 /\ w[1] .. w[2] \subseteq Chunk
    BY <2>1, ChunkCacheAssumption DEF Chunk
  <2>3. \A c \in (w[1] .. w[2]) \ row : c <= w[2]
    BY <2>1
  <2>4. DemandTypeOK'
    BY <1>4, <2>2 DEF Plan, DemandTypeInv, DemandTypeOK, DemandPc
  <2>5. WindowsOK'
    BY <1>4, <2>1, <2>2, <2>3
    DEF Plan, DemandTypeInv, DemandTypeOK, WindowsOK, InRun, Chunk
  <2> QED
    BY <2>4, <2>5 DEF DemandTypeInv
(* A demand that moves on within the absent run it is at.                  *)
<1>5. ASSUME NEW d \in Demand,
             \/ Recheck(d) \/ WaitCheck(d) \/ Notified(d) \/ Grace(d) \/ TakenOver(d)
      PROVE  DemandTypeInv'
  <2>1. /\ pos[d] \in miss[d] /\ last[d] \in Chunk /\ pos[d] <= last[d] + 1
        /\ dpc' \in [Demand -> DemandPc] /\ \A e \in Demand \ {d} : dpc'[e] = dpc[e]
        /\ UNCHANGED <<handle, pos, last, miss, source, outcome>>
    BY <1>5 DEF Recheck, WaitCheck, Notified, Grace, TakenOver, AtItem, InRun,
       DemandTypeInv, DemandTypeOK, WindowsOK, DemandPc
  <2>2. /\ local' \in [Demand -> SUBSET Chunk] /\ tookOver' \in [Demand -> BOOLEAN]
    <3>1. FetchRun(d) \cap row \in SUBSET Chunk
      BY DEF FetchRun, DemandTypeInv, DemandTypeOK
    <3> QED
      <4>1. CASE Recheck(d)
        BY <3>1, <4>1 DEF Recheck, DemandTypeInv, DemandTypeOK
      <4>2. CASE WaitCheck(d) \/ Notified(d)
        BY <4>2 DEF WaitCheck, Notified, DemandTypeInv, DemandTypeOK
      <4>3. CASE Grace(d) \/ TakenOver(d)
        BY <4>3 DEF Grace, TakenOver, DemandTypeInv, DemandTypeOK
      <4> QED
        BY <1>5, <4>1, <4>2, <4>3
  <2>3. DemandTypeOK'
    BY <2>1, <2>2 DEF DemandTypeInv, DemandTypeOK
  <2>4. WindowsOK'
    BY <2>1 DEF DemandTypeInv, WindowsOK
  <2> QED
    BY <2>3, <2>4 DEF DemandTypeInv
(* Every chunk of the run streams from a fill, or is local.                *)
<1>6. ASSUME NEW d \in Demand, Join(d) PROVE DemandTypeInv'
  <2> DEFINE wanted == FetchRun(d) \ local[d]
             free == {c \in wanted : inflight[c] = NoFill}
             head(c) == First({e \in free : e <= c /\ e .. c \subseteq free})
             from(c) == IF c \in free THEN [e \in free |-> <<d, head(e)>>][c]
                        ELSE IF c \in wanted THEN inflight[c] ELSE NoFill
  <2>1. /\ dpc[d] = "join" /\ dpc' = [dpc EXCEPT ![d] = "consume"]
        /\ source' = [source EXCEPT ![d] = [c \in Chunk |-> from(c)]]
        /\ tookOver' = [tookOver EXCEPT ![d] = FALSE]
        /\ UNCHANGED <<handle, pos, last, miss, local, outcome>>
    BY <1>6 DEF Join
  <2>2. free \in SUBSET Chunk
    BY DEF FetchRun, DemandTypeInv, DemandTypeOK
  <2>3. \A c \in free : <<d, head(c)>> \in Fill
    <3> HIDE DEF free
    <3> QED BY <2>2, HeadOfRun, FillsOfDemand
  <2>4. ASSUME NEW c \in Chunk PROVE from(c) \in Fill \cup {NoFill}
    <3>1. inflight[c] \in Fill \cup {NoFill}
      BY DEF TypeInv, TypeOK
    <3> HIDE DEF wanted, free, head
    <3> QED BY <2>3, <3>1
  <2>5. [c \in Chunk |-> from(c)] \in [Chunk -> Fill \cup {NoFill}]
    <3> HIDE DEF from
    <3> QED BY <2>4
  <2> HIDE DEF from, free, wanted
  <2>6. DemandTypeOK'
    BY <2>1, <2>5 DEF DemandTypeInv, DemandTypeOK, DemandPc
  <2>7. WindowsOK'
    BY <2>1 DEF DemandTypeInv, DemandTypeOK, WindowsOK, InRun
  <2> QED
    BY <2>6, <2>7 DEF DemandTypeInv
(* A fill moves no demand; an eviction closes descriptors.                 *)
<1>7. ASSUME NEW g \in Fill, CacheStep(g) PROVE DemandTypeInv'
  BY <1>7 DEF CacheStep, demandVars, DemandTypeInv, DemandTypeOK, WindowsOK
<1>8. CASE UNCHANGED allVars
  BY <1>8 DEF allVars, demandVars, DemandTypeInv, DemandTypeOK, WindowsOK
<1> QED
  BY <1>1, <1>2, <1>3, <1>4, <1>5, <1>6, <1>7, <1>8 DEF DemandNext, DemandStep

(* What demands and their fills do to the cache: all of Next but Restart.  *)
CacheMoves ==
  \/ \E f \in Fill : FillStep(f)
  \/ \E f \in Fill, c \in Chunk : TakeOver(f, c)
  \/ \E S \in SUBSET Chunk : \E own \in [S -> Fill] : Claim(S, own)
  \/ UNCHANGED vars

(* A demand that joins claims the absent chunks nobody holds, each run of  *)
(* them for one fill of its own, or leaves the cache alone.                *)
LEMMA JoinClaims ==
  ASSUME TypeInv, DemandTypeInv, NEW d \in Demand, Join(d)
  PROVE  CacheMoves
<1> DEFINE wanted == FetchRun(d) \ local[d]
           free == {c \in wanted : inflight[c] = NoFill}
           head(c) == First({e \in free : e <= c /\ e .. c \subseteq free})
           own == [c \in free |-> <<d, head(c)>>]
<1>1. UNCHANGED vars \/ Claim(free, own)
  BY DEF Join
<1>2. free \in SUBSET Chunk
  BY DEF FetchRun, DemandTypeInv, DemandTypeOK
<1>3. \A c \in free : <<d, head(c)>> \in Fill
  <2> HIDE DEF free
  <2> QED BY <1>2, HeadOfRun, FillsOfDemand
<1>4. own \in [free -> Fill]
  <2> HIDE DEF free, head
  <2> QED BY <1>3
<1> QED
  <2> HIDE DEF own, free
  <2> QED BY <1>1, <1>2, <1>4 DEF CacheMoves

(* Every other step of a demand but a takeover leaves the cache alone.     *)
LEMMA DemandStepIsCache ==
  ASSUME TypeInv, DemandTypeInv, [DemandNext]_allVars
  PROVE  CacheMoves /\ [Next]_vars
<1>1. ASSUME NEW d \in Demand, Grace(d) PROVE CacheMoves
  <2>1. dpc[d] = "await" /\ pos[d] \in miss[d] /\ miss[d] \in SUBSET Chunk
    BY <1>1 DEF Grace, InRun, DemandTypeInv, DemandTypeOK, WindowsOK
  <2>2. Takeover(d) \in Fill /\ pos[d] \in Chunk
    BY <2>1, FillsOfDemand DEF Takeover
  <2> QED
    BY <1>1, <2>2 DEF Grace, CacheMoves
<1>2. ASSUME NEW d \in Demand,
             \/ ReadPlanned(d) \/ Recheck(d) \/ ReadLocal(d) \/ Stream(d) \/ StreamFails(d)
             \/ WaitCheck(d) \/ Notified(d) \/ TakenOver(d) \/ ServeJoined(d)
             \/ Complete(d) \/ Cancel(d)
      PROVE  UNCHANGED vars
  BY <1>2 DEF ReadPlanned, Recheck, ReadLocal, PreadItem, Stream, StreamFails, WaitCheck,
     Notified, TakenOver, ServeJoined, Complete, Cancel, cacheVars
<1>3. ASSUME NEW d \in Demand, NEW w \in Windows[d], Plan(d, w[1], w[2])
      PROVE  UNCHANGED vars
  BY <1>3 DEF Plan, cacheVars
<1>4. ASSUME NEW g \in Fill, CacheStep(g) PROVE CacheMoves
  BY <1>4 DEF CacheStep, CacheMoves
<1>5. ASSUME UNCHANGED allVars PROVE UNCHANGED vars
  BY <1>5 DEF allVars
<1>6. CacheMoves
  BY <1>1, <1>2, <1>3, <1>4, <1>5, JoinClaims DEF DemandNext, DemandStep, CacheMoves
<1> QED
  BY <1>6 DEF CacheMoves, Next

(* The cache and its demands keep their types.                             *)
LEMMA DemandInvariant == DemandSpec => [](TypeInv /\ DemandTypeInv)
<1>1. DemandInit => TypeInv /\ DemandTypeInv
  BY TypeInit, DemandTypeInit DEF DemandInit
<1>2. TypeInv /\ DemandTypeInv /\ [DemandNext]_allVars => (TypeInv /\ DemandTypeInv)'
  BY DemandStepIsCache, DemandTypeStep, TypeStep
<1> QED
  BY <1>1, <1>2, PTL DEF DemandSpec

(* Demands use the cache by its own operations only: every behaviour of    *)
(* DemandSpec is one of the cache's Spec, so that what is proved of Spec   *)
(* -- no record orphaned, no bytes lost but to eviction, no byte           *)
(* undercounted -- holds of the cache under any demands.                   *)
THEOREM DemandsUseTheCache == DemandSpec => Spec
<1>1. DemandInit => Init
  BY DEF DemandInit
<1>2. TypeInv /\ DemandTypeInv /\ [DemandNext]_allVars => [Next]_vars
  BY DemandStepIsCache
<1> QED
  BY <1>1, <1>2, DemandInvariant, PTL DEF DemandSpec, Spec

(* The demands keep their types, and stay within their windows.            *)
THEOREM DemandTypeCorrect == DemandSpec => []DemandTypeOK
<1>1. DemandTypeInv => DemandTypeOK
  BY DEF DemandTypeInv
<1> QED
  BY <1>1, DemandInvariant, PTL

-----------------------------------------------------------------------------
(* What demands report.  A demand learns of a chunk from rows it read a    *)
(* while ago and from the flags of records, whose fills may have lost the  *)
(* race to publish; the invariant says what each of these is worth.        *)

(* A fill past its reads: it runs its sweep, marks its records, or ended.  *)
Past == Sweeping \cup {"mark", "resolve", "done"}

(* A split fill left the prefix of its first chunk unread.                 *)
Skipped == \E g \in Fill : served[g] /\ todo[g] # {} /\ pc[g] \in Past

(* A chunk was PRESENT once: its row is there, or something was evicted.   *)
WasPresent(c) == c \in row \/ Evicted

(* Success of a record says that its chunk was PRESENT; failure, that it   *)
(* was all the same, or that its fill did not read it.  It follows from    *)
(* what a fill knows of the chunks it has not gone through: each is unread *)
(* or was PRESENT, by its own hand or by that of the fill that won.        *)
FlagsOK ==
  /\ \A f \in Fill : pc[f] = "charge" => WasPresent(First(ServeSpan(f)))
  /\ \A f \in Fill : pc[f] \in Past => ~ ok[f] \/ todo[f] = {} \/ served[f]
  /\ \A f \in Fill : \A c \in unmarked[f] : c \in todo[f] \/ WasPresent(c)
  /\ \A f \in Fill : \A c \in published[f] : WasPresent(c)
  /\ \A r \in success : WasPresent(r[2])
  /\ \A r \in failed : WasPresent(r[2]) \/ UpstreamFailed \/ Skipped

(* What a demand knows of the chunks ahead of it: those it planned to read *)
(* were PRESENT, and so were those of the current run that it neither      *)
(* fetches nor waits for.                                                  *)
Ahead(d) ==
  /\ dpc[d] \notin {"idle", "ended"} =>
       \A c \in pos[d] .. last[d] : c \in miss[d] \/ WasPresent(c)
  /\ dpc[d] = "join" => \A c \in local[d] : WasPresent(c)
  /\ dpc[d] \in InRun \ {"join"} =>
       \A c \in FetchRun(d) : source[d][c] = NoFill => WasPresent(c)
  /\ dpc[d] \in {"filling", "serve"} => tookOver[d] \/ Resolved(d)

(* What a demand reports: nothing before it ends, and a failure or a       *)
(* truncation only for a cause.                                            *)
Reports(d) ==
  /\ outcome[d] # "none" => dpc[d] = "ended"
  /\ outcome[d] = "upstream_failed" => UpstreamFailed \/ Evicted \/ Skipped
  /\ outcome[d] = "error" => UpstreamFailed \/ Evicted \/ tookOver[d]

CleanInv == FlagsOK /\ \A d \in Demand : Ahead(d) /\ Reports(d)

(* Nothing is unlearnt: flags stay, failures and evictions have happened.  *)
Learnt ==
  /\ success \subseteq success' /\ failed \subseteq failed'
  /\ UpstreamFailed => UpstreamFailed'
  /\ Evicted => Evicted'
  /\ Skipped => Skipped'
  /\ \A c \in Chunk : WasPresent(c) => WasPresent(c)'

(* No step of the cache but a restart unlearns anything.                   *)
LEMMA LearntStep ==
  ASSUME TypeInv, BudgetInv, CacheMoves
  PROVE  Learnt
<1> USE DEF TypeInv, TypeOK
<1> DEFINE Kept == /\ \A f \in Fill : ok'[f] => ok[f]
                   /\ \A f \in Fill : dropped[f] \subseteq dropped'[f]
                   /\ \A f \in Fill : served[f] /\ pc[f] \in Past =>
                        served'[f] /\ pc'[f] \in Past /\ todo'[f] = todo[f]
                   /\ success \subseteq success' /\ failed \subseteq failed'
<1>1. ASSUME Kept, row \subseteq row' PROVE Learnt
  <2>1. UpstreamFailed => UpstreamFailed'
    BY <1>1 DEF UpstreamFailed
  <2>2. Evicted => Evicted'
    BY <1>1 DEF Evicted
  <2>3. Skipped => Skipped'
    BY <1>1 DEF Skipped
  <2> QED
    BY <1>1, <2>1, <2>2, <2>3 DEF Learnt, WasPresent
<1>2. ASSUME NEW f \in Fill, FillRead(f) PROVE Learnt
  <2>1. Kept /\ row \subseteq row'
    BY <1>2 DEF FillRead, Start, Rename, InsertRow, Charge, ServeDone, ReadDone, ReadFails,
       Past, Sweeping, storeVars, mapVars, readVars, sweepVars
  <2> QED
    BY <1>1, <2>1
<1>3. ASSUME NEW f \in Fill, Mark(f) PROVE Learnt
  <2>1. Kept /\ row \subseteq row'
    BY <1>3 DEF Mark, MarkSkip, MarkFlag, Resolve, FillDone,
       Past, Sweeping, storeVars, mapVars, readVars, sweepVars
  <2> QED
    BY <1>1, <2>1
<1>4. ASSUME NEW f \in Fill,
             \/ SweepStart(f) \/ SweepEnd(f) \/ Unlink(f) \/ Refund(f)
             \/ \E c \in Chunk : SweepSkip(f, c) \/ SweepPick(f, c)
      PROVE  Learnt
  <2>1. Kept /\ row \subseteq row'
    BY <1>4 DEF SweepStart, SweepEnd, Unlink, Refund, SweepSkip, SweepPick,
       Past, Sweeping, storeVars, mapVars, readVars, sweepVars
  <2> QED
    BY <1>1, <2>1
(* A row that goes leaves the mark of its eviction.                        *)
<1>5. ASSUME NEW f \in Fill, EvictRow(f) PROVE Learnt
  <2> USE <1>5 DEF EvictRow, mapVars, readVars
  <2>1. PICK c0 \in Chunk : victim[f] = {c0}
    BY DEF BudgetInv
  <2>2. Kept
    BY DEF Past, Sweeping
  <2>3. CASE c0 \in row
    <3>1. Evicted'
      <4>1. c0 \in dropped'[f]
        BY <2>1, <2>3
      <4> QED
        BY <4>1 DEF Evicted
    <3>2. UpstreamFailed => UpstreamFailed'
      BY <2>2 DEF UpstreamFailed
    <3>3. Skipped => Skipped'
      BY <2>2 DEF Skipped
    <3> QED
      BY <2>2, <3>1, <3>2, <3>3 DEF Learnt, WasPresent
  <2>4. CASE c0 \notin row
    BY <1>1, <2>1, <2>2, <2>4
  <2> QED
    BY <2>3, <2>4
<1>6. ASSUME NEW f \in Fill, NEW c \in Chunk, TakeOver(f, c) PROVE Learnt
  <2>1. Kept /\ row \subseteq row'
    BY <1>6 DEF TakeOver, Past, Sweeping, storeVars, mapVars, sweepVars
  <2> QED
    BY <1>1, <2>1
<1>7. ASSUME NEW S \in SUBSET Chunk, NEW own \in [S -> Fill], Claim(S, own) PROVE Learnt
  <2>1. Kept /\ row \subseteq row'
    BY <1>7 DEF Claim, Past, Sweeping, storeVars, sweepVars
  <2> QED
    BY <1>1, <2>1
<1>8. CASE UNCHANGED vars
  <2>1. Kept /\ row \subseteq row'
    BY <1>8 DEF vars, storeVars, mapVars, readVars, sweepVars
  <2> QED
    BY <1>1, <2>1
<1> QED
  BY <1>2, <1>3, <1>4, <1>5, <1>6, <1>7, <1>8 DEF CacheMoves, FillStep, Sweep

(* A fill that changes only its control point, and neither to "charge" nor *)
(* out of its reads, keeps what the flags are worth.                       *)
FlagsUntouched ==
  /\ UNCHANGED <<success, failed, todo, served>>
  /\ \A f \in Fill : ok'[f] => ok[f]
  /\ \A f \in Fill : unmarked'[f] \subseteq unmarked[f] /\ published'[f] \subseteq published[f]
  /\ \A f \in Fill : pc'[f] = "charge" => pc[f] = "charge" /\ ServeSpan(f)' = ServeSpan(f)
  /\ \A f \in Fill : pc'[f] \in Past => pc[f] \in Past

(* A step that leaves flags and reads alone keeps what they are worth.     *)
LEMMA FlagsStutter ==
  ASSUME TypeInv, FlagsOK, Learnt, FlagsUntouched
  PROVE  FlagsOK'
<1> USE DEF TypeInv, TypeOK, FlagsUntouched
<1>1. ASSUME NEW f \in Fill, pc'[f] = "charge" PROVE WasPresent(First(ServeSpan(f)))'
  <2>1. ServeSpan(f)' = ServeSpan(f) /\ pc[f] = "charge"
    BY <1>1
  <2>2. First(ServeSpan(f)) \in Chunk
    BY <2>1, ServeSpanType, FirstChunk DEF Writing
  <2>3. WasPresent(First(ServeSpan(f)))
    BY <2>1 DEF FlagsOK
  <2> DEFINE c0 == First(ServeSpan(f))
  <2>4. c0' = c0
    BY <2>1
  <2>5. c0 \in row' \/ Evicted'
    BY <2>2, <2>3 DEF Learnt, WasPresent
  <2> QED
    BY <2>4, <2>5 DEF WasPresent
<1>2. \A f \in Fill : pc'[f] \in Past => ~ ok'[f] \/ todo'[f] = {} \/ served'[f]
  BY DEF FlagsOK
<1>3. \A f \in Fill : \A c \in unmarked'[f] : c \in todo'[f] \/ WasPresent(c)'
  BY DEF FlagsOK, Learnt
<1>4. \A f \in Fill : \A c \in published'[f] : WasPresent(c)'
  BY DEF FlagsOK, Learnt
<1>5. \A r \in success : r[2] \in Chunk
  BY DEF Record
<1>6. \A r \in failed : r[2] \in Chunk
  BY DEF Record
<1>7. \A r \in success' : WasPresent(r[2])'
  BY <1>5 DEF FlagsOK, Learnt
<1>8. \A r \in failed' : WasPresent(r[2])' \/ UpstreamFailed' \/ Skipped'
  BY <1>6 DEF FlagsOK, Learnt
<1> QED
  BY <1>1, <1>2, <1>3, <1>4, <1>7, <1>8 DEF FlagsOK

(* No step of the cache but a restart makes a flag say too much: one case  *)
(* per action that reads a chunk, publishes it, ends the reads or flags.   *)
LEMMA FlagsStep ==
  ASSUME TypeInv, BudgetInv, FlagsOK, CacheMoves
  PROVE  FlagsOK'
<1>l. Learnt
  BY LearntStep
<1> USE DEF TypeInv, TypeOK
<1> DEFINE Charge1 == \A g \in Fill : pc[g] = "charge" => WasPresent(First(ServeSpan(g)))
           Ends == \A g \in Fill : pc[g] \in Past => ~ ok[g] \/ todo[g] = {} \/ served[g]
           Unread == \A g \in Fill : \A c \in unmarked[g] : c \in todo[g] \/ WasPresent(c)
           Reported == \A g \in Fill : \A c \in published[g] : WasPresent(c)
           Good == \A r \in success : WasPresent(r[2])
           Bad == \A r \in failed : WasPresent(r[2]) \/ UpstreamFailed \/ Skipped
(* The chunks of flagged records are chunks.                               *)
<1>r. \A r \in success \cup failed : r[2] \in Chunk
  BY DEF Record
(* What a charging fill wrote, while its own reads stand still.            *)
<1>c. ASSUME NEW g \in Fill, pc[g] = "charge", ServeSpan(g)' = ServeSpan(g)
      PROVE  WasPresent(First(ServeSpan(g)))'
  <2> DEFINE c0 == First(ServeSpan(g))
  <2>1. c0 \in Chunk /\ c0' = c0
    BY <1>c, ServeSpanType, FirstChunk DEF Writing
  <2>2. c0 \in row' \/ Evicted'
    BY <1>c, <1>l, <2>1 DEF FlagsOK, Learnt, WasPresent
  <2> QED
    BY <2>1, <2>2 DEF WasPresent
<1>g. ASSUME UNCHANGED success PROVE Good'
  BY <1>g, <1>l, <1>r DEF FlagsOK, Learnt
<1>b. ASSUME UNCHANGED failed PROVE Bad'
  BY <1>b, <1>l, <1>r DEF FlagsOK, Learnt
<1>1. ASSUME NEW f \in Fill, Start(f) \/ Rename(f) \/ MarkSkip(f) \/ Resolve(f) \/ FillDone(f)
      PROVE  FlagsOK'
  <2> USE <1>1 DEF Start, Rename, MarkSkip, Resolve, FillDone,
       storeVars, mapVars, readVars, sweepVars
  <2>1. UNCHANGED <<success, failed, todo, served, ok>>
    OBVIOUS
  <2>2. \A g \in Fill : unmarked'[g] \subseteq unmarked[g]
    OBVIOUS
  <2>3. \A g \in Fill : published'[g] \subseteq published[g]
    OBVIOUS
  <2>4. \A g \in Fill : g = f \/ (pc'[g] = pc[g] /\ split'[g] = split[g] /\ run'[g] = run[g])
    OBVIOUS
  <2>5. /\ pc'[f] # "charge"
        /\ pc'[f] \in Past => pc[f] \in Past
    BY DEF Past, Sweeping
  <2>6. FlagsUntouched
    BY <2>1, <2>2, <2>3, <2>4, <2>5 DEF FlagsUntouched, ServeSpan
  <2> QED
    BY <2>6, <1>l, FlagsStutter
<1>2. ASSUME NEW f \in Fill, Sweep(f) PROVE FlagsOK'
  <2>1. FlagsUntouched
    <3> USE DEF FlagsUntouched, ServeSpan, Past, Sweeping, mapVars, readVars
    <3>1. CASE SweepStart(f) \/ SweepEnd(f)
      BY <3>1 DEF SweepStart, SweepEnd
    <3>2. ASSUME NEW c \in Chunk, SweepSkip(f, c)
          PROVE  FlagsUntouched
      BY <3>2 DEF SweepSkip
    <3>3. ASSUME NEW c \in Chunk, SweepPick(f, c)
          PROVE  FlagsUntouched
      BY <3>3 DEF SweepPick
    <3>4. CASE EvictRow(f)
      BY <3>4 DEF EvictRow
    <3>5. CASE Unlink(f) \/ Refund(f)
      BY <3>5 DEF Unlink, Refund
    <3> HIDE DEF FlagsUntouched
    <3> QED
      BY <1>2, <3>1, <3>2, <3>3, <3>4, <3>5 DEF Sweep
  <2> QED
    BY <2>1, <1>l, FlagsStutter
(* A row appears, and the chunk is no longer unread.                       *)
<1>3. ASSUME NEW f \in Fill, InsertRow(f) PROVE FlagsOK'
  <2> DEFINE c0 == First(ServeSpan(f))
  <2> USE <1>3 DEF InsertRow, mapVars, sweepVars
  <2>1. c0 \in Chunk /\ c0 \in row'
    BY ServeSpanType, FirstChunk DEF Writing
  <2>2. Charge1'
    <3> SUFFICES ASSUME NEW g \in Fill, pc'[g] = "charge"
                 PROVE  WasPresent(First(ServeSpan(g)))'
      OBVIOUS
    <3>1. CASE pc[g] = "charge"
      <4>1. ServeSpan(g)' = ServeSpan(g)
        BY <3>1 DEF ServeSpan
      <4> QED
        BY <1>c, <3>1, <4>1
    <3>2. CASE pc[g] # "charge"
      <4>1. g = f /\ ServeSpan(f)' = ServeSpan(f)
        BY <3>2 DEF ServeSpan
      <4>2. First(ServeSpan(f))' = c0
        BY <4>1
      <4> QED
        BY <2>1, <4>1, <4>2 DEF WasPresent
    <3> QED
      BY <3>1, <3>2
  <2>3. Ends'
    BY DEF FlagsOK, Past, Sweeping
  <2>4. Unread'
    BY <1>l, <2>1 DEF FlagsOK, Learnt, WasPresent
  <2>5. Reported'
    BY <1>l DEF FlagsOK, Learnt
  <2> QED
    BY <2>2, <2>3, <2>4, <2>5, <1>g, <1>b DEF FlagsOK
(* The chunk charged for has a row.                                        *)
<1>4. ASSUME NEW f \in Fill, Charge(f) PROVE FlagsOK'
  <2> DEFINE c0 == First(ServeSpan(f))
  <2> USE <1>4 DEF Charge, mapVars, sweepVars
  <2>1. c0 \in Chunk /\ (c0 \in row' \/ Evicted')
    <3>1. c0 \in Chunk
      BY ServeSpanType, FirstChunk DEF Writing
    <3>2. WasPresent(c0)
      BY DEF FlagsOK
    <3> QED
      BY <1>l, <3>1, <3>2 DEF Learnt, WasPresent
  <2>2. Charge1'
    <3> SUFFICES ASSUME NEW g \in Fill, pc'[g] = "charge"
                 PROVE  WasPresent(First(ServeSpan(g)))'
      OBVIOUS
    <3>1. pc[g] = "charge" /\ ServeSpan(g)' = ServeSpan(g)
      BY DEF ServeSpan
    <3> QED
      BY <1>c, <3>1
  <2>3. Ends'
    BY DEF FlagsOK, Past, Sweeping
  <2>4. Unread'
    BY <1>l, <2>1 DEF FlagsOK, Learnt, WasPresent
  <2>5. Reported'
    BY <1>l, <2>1 DEF FlagsOK, Learnt, WasPresent
  <2> QED
    BY <2>2, <2>3, <2>4, <2>5, <1>g, <1>b DEF FlagsOK
(* The reads of f end, all done, or but for the prefix, or with a failure. *)
<1>5. ASSUME NEW f \in Fill, ServeDone(f) \/ ReadDone(f) \/ ReadFails(f) PROVE FlagsOK'
  <2> USE <1>5 DEF ServeDone, ReadDone, ReadFails, storeVars, mapVars, sweepVars, readVars
  <2>1. Charge1'
    <3> SUFFICES ASSUME NEW g \in Fill, pc'[g] = "charge"
                 PROVE  WasPresent(First(ServeSpan(g)))'
      OBVIOUS
    <3>1. pc[g] = "charge" /\ ServeSpan(g)' = ServeSpan(g)
      BY DEF ServeSpan
    <3> QED
      BY <1>c, <3>1
  <2>2. Ends'
    BY DEF FlagsOK, Past, Sweeping
  <2>3. Unread'
    BY <1>l DEF FlagsOK, Learnt
  <2>4. Reported'
    BY <1>l DEF FlagsOK, Learnt
  <2> QED
    BY <2>1, <2>2, <2>3, <2>4, <1>g, <1>b DEF FlagsOK
(* f flags the records of a chunk: as a success if it published the chunk, *)
(* as failed if it did not -- read or not.                                 *)
<1>6. ASSUME NEW f \in Fill, MarkFlag(f) PROVE FlagsOK'
  <2> DEFINE c0 == First(unmarked[f])
  <2> USE <1>6 DEF MarkFlag, readVars
  <2>1. c0 \in unmarked[f] /\ c0 \in Chunk
    BY FirstChunk
  <2>2. \A r \in RecordsOf(f, c0) : r[2] = c0
    BY DEF RecordsOf
  <2>3. Good'
    <3>1. CASE c0 \in published[f]
      <4>1. success' = success \cup RecordsOf(f, c0)
        BY <3>1
      <4>2. c0 \in row' \/ Evicted'
        BY <1>l, <2>1, <3>1 DEF FlagsOK, Learnt, WasPresent
      <4> HIDE DEF c0
      <4> QED
        BY <1>l, <1>r, <2>2, <4>1, <4>2 DEF FlagsOK, Learnt, WasPresent
    <3>2. CASE c0 \notin published[f]
      BY <1>g, <3>2
    <3> QED
      BY <3>1, <3>2
  <2>4. Bad'
    <3>1. CASE c0 \in published[f]
      BY <1>b, <3>1
    <3>2. CASE c0 \notin published[f]
      <4>1. failed' = failed \cup RecordsOf(f, c0)
        BY <3>2
      <4>2. WasPresent(c0) \/ UpstreamFailed \/ Skipped
        <5>1. pc[f] \in Past
          BY DEF Past
        <5>2. c0 \in todo[f] \/ WasPresent(c0)
          BY <2>1 DEF FlagsOK
        <5>3. ASSUME c0 \in todo[f] PROVE UpstreamFailed \/ Skipped
          BY <5>1, <5>3 DEF FlagsOK, UpstreamFailed, Skipped
        <5> QED
          BY <5>2, <5>3
      <4>3. c0 \in row' \/ Evicted' \/ UpstreamFailed' \/ Skipped'
        BY <1>l, <2>1, <4>2 DEF Learnt, WasPresent
      <4> HIDE DEF c0
      <4> QED
        BY <1>l, <1>r, <2>2, <4>1, <4>3 DEF FlagsOK, Learnt, WasPresent
    <3> QED
      BY <3>1, <3>2
  <2>5. Charge1'
    <3> SUFFICES ASSUME NEW g \in Fill, pc'[g] = "charge"
                 PROVE  WasPresent(First(ServeSpan(g)))'
      OBVIOUS
    <3>1. pc[g] = "charge" /\ ServeSpan(g)' = ServeSpan(g)
      BY DEF ServeSpan
    <3> QED
      BY <1>c, <3>1
  <2>6. Ends'
    BY DEF FlagsOK, Past, Sweeping
  <2>7. Unread' /\ Reported'
    BY <1>l DEF FlagsOK, Learnt
  <2> QED
    BY <2>3, <2>4, <2>5, <2>6, <2>7 DEF FlagsOK
(* A new fill has its whole run unread.                                    *)
<1>7. ASSUME NEW f \in Fill, NEW c \in Chunk, TakeOver(f, c) PROVE FlagsOK'
  <2> USE <1>7 DEF TakeOver, mapVars
  <2>1. Charge1'
    <3> SUFFICES ASSUME NEW g \in Fill, pc'[g] = "charge"
                 PROVE  WasPresent(First(ServeSpan(g)))'
      OBVIOUS
    <3>1. pc[g] = "charge" /\ ServeSpan(g)' = ServeSpan(g)
      BY DEF ServeSpan
    <3> QED
      BY <1>c, <3>1
  <2>2. Ends'
    BY DEF FlagsOK, Past, Sweeping
  <2>3. Unread' /\ Reported'
    BY <1>l DEF FlagsOK, Learnt
  <2> QED
    BY <2>1, <2>2, <2>3, <1>g, <1>b DEF FlagsOK
<1>8. ASSUME NEW S \in SUBSET Chunk, NEW own \in [S -> Fill], Claim(S, own) PROVE FlagsOK'
  <2> USE <1>8 DEF Claim
  <2>0. \A g \in Fill :
          \/ /\ pc[g] = "idle" /\ pc'[g] = "claimed" /\ unmarked'[g] = todo'[g]
          \/ /\ pc'[g] = pc[g] /\ unmarked'[g] = unmarked[g] /\ todo'[g] = todo[g]
             /\ run'[g] = run[g]
    OBVIOUS
  <2>1. Charge1'
    <3> SUFFICES ASSUME NEW g \in Fill, pc'[g] = "charge"
                 PROVE  WasPresent(First(ServeSpan(g)))'
      OBVIOUS
    <3>1. pc[g] = "charge" /\ ServeSpan(g)' = ServeSpan(g)
      BY <2>0 DEF ServeSpan
    <3> QED
      BY <1>c, <3>1
  <2>2. Ends'
    BY <2>0 DEF FlagsOK, Past, Sweeping
  <2>3. Unread' /\ Reported'
    BY <2>0, <1>l DEF FlagsOK, Learnt
  <2> QED
    BY <2>1, <2>2, <2>3, <1>g, <1>b DEF FlagsOK
<1>9. CASE UNCHANGED vars
  <2>1. FlagsUntouched
    BY <1>9 DEF vars, mapVars, readVars, FlagsUntouched, ServeSpan
  <2> QED
    BY <2>1, <1>l, FlagsStutter
<1> QED
  BY <1>1, <1>2, <1>3, <1>4, <1>5, <1>6, <1>7, <1>8, <1>9
  DEF CacheMoves, FillStep, FillRead, Mark, Sweep

(* A chunk that was PRESENT is unreadable only if something was evicted.   *)
LEMMA PresentIsReadable ==
  ASSUME BytesInv, NEW c \in Chunk, WasPresent(c), ~ Readable(c)
  PROVE  Evicted
<1>1. c \in row /\ c \notin file => \E f \in Fill : c \in dropped[f]
  BY DEF BytesInv, BytesLostOnlyToEviction
<1> QED
  BY <1>1 DEF WasPresent, Readable, Evicted

(* What is ahead of a demand is chunks.                                    *)
LEMMA WindowChunks ==
  ASSUME DemandTypeInv, NEW d \in Demand, dpc[d] \notin {"idle", "ended"}
  PROVE  pos[d] \in Nat /\ last[d] \in Nat /\ pos[d] .. last[d] \subseteq Chunk
<1>1. pos[d] \in 0 .. NumChunks /\ last[d] \in 0 .. (NumChunks - 1)
  BY DEF DemandTypeInv, DemandTypeOK, WindowsOK, Chunk
<1> QED
  BY <1>1, ChunkCacheAssumption DEF Chunk

(* A demand that does not move knows what it knew.                         *)
LEMMA DemandKeeps ==
  ASSUME TypeInv, DemandTypeInv, Learnt, NEW d \in Demand, Ahead(d), Reports(d),
         dpc'[d] = dpc[d], pos'[d] = pos[d], last'[d] = last[d], miss'[d] = miss[d],
         local'[d] = local[d], source'[d] = source[d], tookOver'[d] = tookOver[d],
         outcome'[d] = outcome[d]
  PROVE  Ahead(d)' /\ Reports(d)'
<1>1. FetchRun(d)' = FetchRun(d) /\ FetchRun(d) \in SUBSET Chunk
  BY DEF FetchRun, DemandTypeInv, DemandTypeOK
<1>2. Resolved(d) => Resolved(d)'
  BY DEF Resolved, Joined, Learnt
<1>3. local[d] \in SUBSET Chunk
  BY DEF DemandTypeInv, DemandTypeOK
<1>4. ASSUME dpc[d] \notin {"idle", "ended"}
      PROVE  pos[d] .. last[d] \subseteq Chunk
  BY <1>4, WindowChunks
<1>5. \A c \in Chunk : WasPresent(c) => WasPresent(c)'
  BY DEF Learnt
<1>6. Ahead(d)'
  <2>1. dpc'[d] \notin {"idle", "ended"} =>
          \A c \in pos'[d] .. last'[d] : c \in miss'[d] \/ WasPresent(c)'
    BY <1>4, <1>5 DEF Ahead
  <2>2. dpc'[d] = "join" => \A c \in local'[d] : WasPresent(c)'
    BY <1>3, <1>5 DEF Ahead
  <2>3. dpc'[d] \in InRun \ {"join"} =>
          \A c \in FetchRun(d)' : source'[d][c] = NoFill => WasPresent(c)'
    BY <1>1, <1>5 DEF Ahead
  <2>4. dpc'[d] \in {"filling", "serve"} => tookOver'[d] \/ Resolved(d)'
    BY <1>2 DEF Ahead
  <2> QED
    BY <2>1, <2>2, <2>3, <2>4 DEF Ahead
<1>7. Reports(d)'
  BY DEF Reports, Learnt
<1> QED
  BY <1>6, <1>7

(* A demand that delivers a chunk has one chunk less ahead.                *)
LEMMA AdvanceKeeps ==
  ASSUME TypeInv, DemandTypeInv, Learnt, NEW d \in Demand, Ahead(d), Reports(d),
         Advance(d), dpc[d] \in {"run"} \cup (InRun \ {"join"}), pos[d] <= last[d],
         UNCHANGED <<last, miss, local, source, tookOver, outcome>>
  PROVE  Ahead(d)' /\ Reports(d)'
<1>1. /\ pos'[d] = pos[d] + 1 /\ dpc'[d] \in {"run", "consume"}
      /\ dpc'[d] = "consume" => dpc[d] # "run"
  BY AdvanceType DEF Advance, DemandTypeInv, DemandTypeOK
<1>2. pos[d] \in Nat /\ last[d] \in Nat /\ pos[d] .. last[d] \subseteq Chunk
  BY WindowChunks DEF InRun
<1>3. \A c \in Chunk : WasPresent(c) => WasPresent(c)'
  BY DEF Learnt
<1>4. \A c \in pos'[d] .. last[d] : c \in miss[d] \/ WasPresent(c)'
  <2>1. \A c \in pos'[d] .. last[d] : c \in pos[d] .. last[d]
    BY <1>1, <1>2
  <2>2. \A c \in pos[d] .. last[d] : c \in miss[d] \/ WasPresent(c)
    BY DEF Ahead, InRun
  <2> QED
    BY <2>1, <2>2, <1>2, <1>3
<1>5. ASSUME dpc'[d] = "consume", NEW c \in FetchRun(d)', source[d][c] = NoFill
      PROVE  WasPresent(c)'
  <2>1. dpc[d] \in InRun \ {"join"} /\ pos[d] \in miss[d]
    BY <1>1, <1>5 DEF DemandTypeInv, WindowsOK
  <2>2. c \in Chunk /\ c \in miss[d] /\ pos[d] + 1 <= c
    BY <1>1, <1>5 DEF FetchRun, DemandTypeInv, DemandTypeOK
  <2>3. \A e \in (pos[d] + 1) .. c : e \in miss[d]
    BY <1>1, <1>5 DEF FetchRun
  <2>4. \A e \in pos[d] .. c : e = pos[d] \/ e \in (pos[d] + 1) .. c
    BY <1>2, <2>2, ChunkCacheAssumption DEF Chunk
  <2>5. pos[d] <= c
    BY <1>2, <2>2, ChunkCacheAssumption DEF Chunk
  <2>6. c \in FetchRun(d)
    BY <2>1, <2>2, <2>3, <2>4, <2>5 DEF FetchRun
  <2> QED
    BY <1>3, <1>5, <2>1, <2>2, <2>6 DEF Ahead
<1>6. Ahead(d)'
  BY <1>1, <1>4, <1>5 DEF Ahead, InRun
<1>7. Reports(d)'
  <2>1. outcome'[d] = "none"
    BY DEF Reports, InRun
  <2> QED
    BY <2>1 DEF Reports
<1> QED
  BY <1>6, <1>7

(* A demand that ends reports a failure or a truncation for a cause.       *)
LEMMA EndKeeps ==
  ASSUME DemandTypeInv, Learnt, NEW d \in Demand, NEW o \in Ended, End(d, o),
         tookOver' = tookOver,
         o = "upstream_failed" => UpstreamFailed \/ Evicted \/ Skipped,
         o = "error" => UpstreamFailed \/ Evicted \/ tookOver[d]
  PROVE  Ahead(d)' /\ Reports(d)'
<1>1. dpc'[d] = "ended" /\ outcome'[d] = o
  BY DEF End, DemandTypeInv, DemandTypeOK
<1>2. Ahead(d)'
  BY <1>1 DEF Ahead, InRun
<1>3. Reports(d)'
  BY <1>1 DEF Reports, Learnt
<1> QED
  BY <1>2, <1>3

(* A demand that reads the chunk it is at: if the chunk cannot be read,    *)
(* something was evicted, or the demand took it over in vain.              *)
LEMMA ReadKeeps ==
  ASSUME TypeInv, DemandTypeInv, BytesInv, Learnt, NEW d \in Demand, Ahead(d), Reports(d),
         dpc[d] \in {"run"} \cup (InRun \ {"join"}), pos[d] <= last[d],
         WasPresent(pos[d]) \/ tookOver[d],
         IF Readable(pos[d])
         THEN Advance(d) /\ handle' = handle \cup {pos[d]} /\ UNCHANGED outcome
         ELSE End(d, "error") /\ UNCHANGED <<pos, handle>>,
         UNCHANGED <<last, miss, local, source, tookOver>>
  PROVE  Ahead(d)' /\ Reports(d)'
<1>1. CASE Readable(pos[d])
  BY <1>1, AdvanceKeeps
<1>2. CASE ~ Readable(pos[d])
  <2>1. pos[d] \in Chunk
    BY WindowChunks DEF InRun
  <2>2. Evicted \/ tookOver[d]
    BY <1>2, <2>1, PresentIsReadable
  <2> QED
    BY <1>2, <2>2, EndKeeps DEF Ended
<1> QED
  BY <1>1, <1>2

(* No demand knows or has reported anything at start.                      *)
LEMMA CleanInit == DemandInit => CleanInv
BY DEF DemandInit, Init, CleanInv, FlagsOK, Ahead, Reports, Past, Sweeping, InRun, Ended

(* Every step keeps what flags and demands are worth: one case per action  *)
(* of a demand.                                                            *)
LEMMA CleanStep ==
  ASSUME TypeInv, BudgetInv, BytesInv, DemandTypeInv, CleanInv, [DemandNext]_allVars
  PROVE  CleanInv'
<1>l. CacheMoves /\ Learnt
  BY DemandStepIsCache, LearntStep
<1>f. FlagsOK'
  BY <1>l, FlagsStep DEF CleanInv
<1>t. DemandTypeInv'
  BY DemandTypeStep
<1> DEFINE Known(d) == Ahead(d)' /\ Reports(d)'
<1> USE DEF cacheVars
(* A step of one demand leaves the others where they are.                  *)
<1>1. ASSUME NEW d \in Demand, Known(d),
             \/ DemandStep(d) \/ Cancel(d) \/ \E w \in Windows[d] : Plan(d, w[1], w[2])
      PROVE  \A e \in Demand : Known(e)
  <2> SUFFICES ASSUME NEW e \in Demand, e # d PROVE Known(e)
    BY <1>1
  <2>1. /\ dpc'[e] = dpc[e] /\ pos'[e] = pos[e] /\ last'[e] = last[e]
        /\ miss'[e] = miss[e] /\ local'[e] = local[e] /\ source'[e] = source[e]
        /\ tookOver'[e] = tookOver[e] /\ outcome'[e] = outcome[e]
    BY <1>1 DEF DemandStep, Cancel, Plan, ReadPlanned, Recheck, Join, ReadLocal, PreadItem,
       Stream, StreamFails, WaitCheck, Notified, Grace, TakenOver, ServeJoined, Complete,
       Advance, End, DemandTypeInv, DemandTypeOK
  <2> QED
    BY <1>l, <2>1, DemandKeeps DEF CleanInv
(* A chunk the plan found PRESENT is read.                                 *)
<1>2. ASSUME NEW d \in Demand, ReadPlanned(d) PROVE Known(d)
  <2>1. pos[d] \in pos[d] .. last[d]
    BY <1>2, ChunkCacheAssumption DEF ReadPlanned, DemandTypeInv, DemandTypeOK
  <2>2. WasPresent(pos[d])
    BY <1>2, <2>1 DEF ReadPlanned, CleanInv, Ahead
  <2> QED
    BY <1>2, <1>l, <2>2, ReadKeeps DEF ReadPlanned, CleanInv
(* The demand is within its window, at an absent chunk, so that the chunk  *)
(* belongs to the run it is at.                                            *)
<1>3. ASSUME NEW d \in Demand, dpc[d] \in InRun
      PROVE  pos[d] <= last[d] /\ pos[d] \in Chunk /\ pos[d] \in FetchRun(d)
  <2>1. pos[d] \in miss[d] /\ miss[d] \in SUBSET Chunk
    BY <1>3 DEF DemandTypeInv, DemandTypeOK, WindowsOK
  <2>2. \A e \in pos[d] .. pos[d] : e = pos[d]
    BY <2>1, ChunkCacheAssumption DEF Chunk
  <2>3. pos[d] <= pos[d]
    BY <2>1, ChunkCacheAssumption DEF Chunk
  <2> QED
    BY <2>1, <2>2, <2>3 DEF FetchRun, DemandTypeInv, WindowsOK
<1>4. ASSUME NEW d \in Demand, ReadLocal(d) PROVE Known(d)
  <2>1. dpc[d] \in InRun \ {"join"}
    BY <1>4 DEF ReadLocal, AtItem, InRun
  <2>2. WasPresent(pos[d])
    BY <1>4, <1>3, <2>1 DEF ReadLocal, CleanInv, Ahead
  <2> QED
    BY <1>4, <1>3, <1>l, <2>1, <2>2, ReadKeeps DEF ReadLocal, PreadItem, CleanInv
<1>5. ASSUME NEW d \in Demand, Stream(d) PROVE Known(d)
  <2>1. dpc[d] \in InRun \ {"join"}
    BY <1>5 DEF Stream, AtItem, InRun
  <2> QED
    BY <1>5, <1>3, <1>l, <2>1, AdvanceKeeps DEF Stream, CleanInv
(* A fill that ended without the chunk failed: had it left out the prefix, *)
(* the window part of the chunk would have streamed.                       *)
<1>6. ASSUME NEW d \in Demand, StreamFails(d) PROVE Known(d)
  <2> DEFINE g == source[d][pos[d]]
  <2>1. dpc[d] \in InRun
    BY <1>6 DEF StreamFails, AtItem, InRun
  <2>2. g \in Fill
    BY <1>6, <1>3, <2>1 DEF StreamFails, Owns, DemandTypeInv, DemandTypeOK
  <2>3. pc[g] \in Past /\ todo[g] # {} /\ ~ served[g]
    BY <1>6 DEF StreamFails, Streamed, Past
  <2>4. UpstreamFailed
    BY <2>2, <2>3 DEF CleanInv, FlagsOK, UpstreamFailed
  <2> QED
    BY <1>6, <1>l, <2>4, EndKeeps DEF StreamFails, Ended
(* A joined chunk whose record failed was PRESENT or was not read; one     *)
(* that is served unresolved was taken over.                               *)
<1>7. ASSUME NEW d \in Demand, ServeJoined(d) PROVE Known(d)
  <2>1. dpc[d] \in InRun \ {"join"}
    BY <1>7 DEF ServeJoined, InRun
  <2>2. tookOver[d] \/ Resolved(d)
    BY <1>7 DEF ServeJoined, CleanInv, Ahead
  <2>3. CASE Joined(d) \in failed /\ pos[d] \notin row
    <3>1. WasPresent(pos[d]) \/ UpstreamFailed \/ Skipped
      <4>1. Joined(d)[2] = pos[d]
        BY DEF Joined
      <4>2. WasPresent(Joined(d)[2]) \/ UpstreamFailed \/ Skipped
        BY <2>3 DEF CleanInv, FlagsOK
      <4> QED
        BY <4>1, <4>2
    <3>2. UpstreamFailed \/ Evicted \/ Skipped
      BY <2>3, <3>1 DEF WasPresent
    <3> QED
      BY <1>7, <1>l, <2>3, <3>2, EndKeeps DEF ServeJoined, Ended
  <2>4. CASE ~ (Joined(d) \in failed /\ pos[d] \notin row)
    <3>1. WasPresent(pos[d]) \/ tookOver[d]
      <4>1. CASE Joined(d) \in success
        <5>1. Joined(d)[2] = pos[d]
          BY DEF Joined
        <5>2. WasPresent(Joined(d)[2])
          BY <4>1 DEF CleanInv, FlagsOK
        <5> QED
          BY <5>1, <5>2
      <4>2. CASE Joined(d) \notin success
        BY <2>2, <2>4, <4>2 DEF Resolved, WasPresent
      <4> QED
        BY <4>1, <4>2
    <3> QED
      BY <1>7, <1>3, <1>l, <2>1, <2>4, <3>1, ReadKeeps DEF ServeJoined, PreadItem, CleanInv
  <2> QED
    BY <2>3, <2>4
<1>8. ASSUME NEW d \in Demand, Complete(d) \/ Cancel(d) PROVE Known(d)
  BY <1>8, <1>l, EndKeeps DEF Complete, Cancel, Ended
(* A plan takes from the rows what is PRESENT.                             *)
<1>9. ASSUME NEW d \in Demand, NEW w \in Windows[d], Plan(d, w[1], w[2]) PROVE Known(d)
  <2> USE <1>9 DEF Plan
  <2>1. /\ dpc'[d] = "run" /\ pos'[d] = w[1] /\ last'[d] = w[2]
        /\ miss'[d] = (w[1] .. w[2]) \ row
    BY DEF DemandTypeInv, DemandTypeOK
  <2>2. \A c \in pos'[d] .. last'[d] : c \in miss'[d] \/ WasPresent(c)'
    BY <2>1 DEF WasPresent, vars, storeVars
  <2>3. Ahead(d)'
    BY <2>1, <2>2 DEF Ahead, InRun
  <2>4. Reports(d)'
    BY <2>1 DEF Reports, CleanInv
  <2> QED
    BY <2>3, <2>4
(* A demand that moves on at the same chunk.                               *)
<1>10. ASSUME NEW d \in Demand, Recheck(d) PROVE Known(d)
  <2> USE <1>10 DEF Recheck
  <2>1. /\ dpc[d] = "run" /\ dpc'[d] = "join" /\ local'[d] = FetchRun(d) \cap row
        /\ UNCHANGED <<pos, last, miss, source, tookOver, outcome, row>>
    BY DEF DemandTypeInv, DemandTypeOK, vars, storeVars
  <2>2. \A c \in pos[d] .. last[d] : c \in miss[d] \/ WasPresent(c)'
    BY <1>l, <2>1 DEF CleanInv, Ahead, WasPresent, vars, storeVars, sweepVars, Evicted
  <2>3. Ahead(d)'
    BY <2>1, <2>2 DEF Ahead, WasPresent
  <2>4. Reports(d)'
    BY <2>1 DEF Reports, CleanInv, Ended
  <2> QED
    BY <2>3, <2>4
<1>11. ASSUME NEW d \in Demand, WaitCheck(d) \/ Notified(d) \/ Grace(d) \/ TakenOver(d)
       PROVE  Known(d)
  <2>1. /\ dpc[d] \in {"consume", "await", "filling"}
        /\ dpc'[d] \in {"await", "filling", "serve"}
        /\ UNCHANGED <<pos, last, miss, local, source, outcome>>
    BY <1>11 DEF WaitCheck, Notified, Grace, TakenOver, AtItem, DemandTypeInv, DemandTypeOK
  <2>2. dpc'[d] \in {"filling", "serve"} => tookOver'[d] \/ Resolved(d)
    BY <1>11 DEF WaitCheck, Notified, Grace, TakenOver, DemandTypeInv, DemandTypeOK,
       CleanInv, Ahead
  <2>3. Resolved(d) => Resolved(d)'
    BY <1>l, <2>1 DEF Resolved, Joined, Learnt
  <2>4. FetchRun(d)' = FetchRun(d) /\ FetchRun(d) \in SUBSET Chunk
    BY <2>1 DEF FetchRun, DemandTypeInv, DemandTypeOK
  <2>5. pos[d] .. last[d] \subseteq Chunk
    BY <2>1, WindowChunks
  <2>6. \A c \in pos[d] .. last[d] : c \in miss[d] \/ WasPresent(c)'
    BY <1>l, <2>1, <2>5 DEF CleanInv, Ahead, Learnt
  <2>7. \A c \in FetchRun(d) : source[d][c] = NoFill => WasPresent(c)'
    BY <1>l, <2>1, <2>4 DEF CleanInv, Ahead, Learnt, InRun
  <2>8. Ahead(d)'
    BY <2>1, <2>2, <2>3, <2>4, <2>6, <2>7 DEF Ahead
  <2>9. Reports(d)'
    BY <2>1 DEF Reports, CleanInv, Ended
  <2> QED
    BY <2>8, <2>9
(* What the demand neither claims nor joins, its recheck found PRESENT.    *)
<1>12. ASSUME NEW d \in Demand, Join(d) PROVE Known(d)
  <2> DEFINE wanted == FetchRun(d) \ local[d]
             free == {c \in wanted : inflight[c] = NoFill}
             head(c) == First({e \in free : e <= c /\ e .. c \subseteq free})
             own == [c \in free |-> <<d, head(c)>>]
  <2>1. /\ dpc[d] = "join" /\ dpc'[d] = "consume"
        /\ source'[d] = [c \in Chunk |-> IF c \in free THEN own[c]
                                         ELSE IF c \in wanted THEN inflight[c] ELSE NoFill]
        /\ UNCHANGED <<pos, last, miss, local, outcome>>
    BY <1>12 DEF Join, DemandTypeInv, DemandTypeOK
  <2>2. FetchRun(d)' = FetchRun(d) /\ FetchRun(d) \in SUBSET Chunk
    BY <2>1 DEF FetchRun, DemandTypeInv, DemandTypeOK
  <2>3. pos[d] .. last[d] \subseteq Chunk
    BY <2>1, WindowChunks
  <2>4. \A c \in pos[d] .. last[d] : c \in miss[d] \/ WasPresent(c)'
    BY <1>l, <2>1, <2>3 DEF CleanInv, Ahead, Learnt
  <2>5. \A c \in free : own[c] # NoFill
    <3>1. free \in SUBSET Chunk
      BY <2>2
    <3>2. \A c \in free : <<d, head(c)>> \in Fill
      <4> HIDE DEF free
      <4> QED BY <3>1, HeadOfRun, FillsOfDemand
    <3> HIDE DEF free, head
    <3> QED BY <3>2, ChunkCacheAssumption
  <2>6. \A c \in FetchRun(d) : source'[d][c] = NoFill => c \in local[d]
    <3> HIDE DEF own
    <3> QED BY <2>1, <2>2, <2>5
  <2>7. \A c \in local[d] : WasPresent(c)'
    <3>1. local[d] \in SUBSET Chunk
      BY DEF DemandTypeInv, DemandTypeOK
    <3> QED
      BY <1>l, <2>1, <3>1 DEF CleanInv, Ahead, Learnt
  <2> HIDE DEF own, free, wanted
  <2>8. Ahead(d)'
    BY <2>1, <2>2, <2>4, <2>6, <2>7 DEF Ahead
  <2>9. Reports(d)'
    BY <2>1 DEF Reports, CleanInv, Ended
  <2> QED
    BY <2>8, <2>9
<1>13. ASSUME NEW g \in Fill, CacheStep(g) PROVE \A d \in Demand : Known(d)
  BY <1>13, <1>l, DemandKeeps DEF CacheStep, demandVars, CleanInv
<1>14. ASSUME UNCHANGED allVars PROVE \A d \in Demand : Known(d)
  BY <1>14, <1>l, DemandKeeps DEF allVars, demandVars, CleanInv
<1> HIDE DEF Known
<1>15. ASSUME NEW d \in Demand,
              \/ DemandStep(d) \/ Cancel(d) \/ \E w \in Windows[d] : Plan(d, w[1], w[2])
       PROVE  \A e \in Demand : Known(e)
  <2>1. Known(d)
    BY <1>15, <1>2, <1>4, <1>5, <1>6, <1>7, <1>8, <1>9, <1>10, <1>11, <1>12 DEF DemandStep
  <2> QED
    BY <1>1, <1>15, <2>1
<1>16. \A d \in Demand : Known(d)
  BY <1>13, <1>14, <1>15 DEF DemandNext
<1> QED
  BY <1>f, <1>16 DEF CleanInv, Known

(* Demands are only told that upstream failed, or truncated, for a cause,  *)
(* for any file, any number of demands and any windows: a fill that lost   *)
(* the race to publish, whatever it marked its records, costs nobody the   *)
(* chunk, as long as nothing was evicted.                                  *)
THEOREM FailuresAreClean == DemandSpec => []CleanFailures
<1> DEFINE Inv == /\ TypeInv /\ DemandTypeInv
                  /\ BudgetInv /\ BytesInv /\ CleanInv
<1>1. DemandInit => Inv
  BY TypeInit, DemandTypeInit, BudgetInit, BytesInit, CleanInit DEF DemandInit
<1>2. Inv /\ [DemandNext]_allVars => Inv'
  BY DemandStepIsCache, TypeStep, DemandTypeStep, BudgetStep, BytesStep, CleanStep
<1>3. Inv => CleanFailures
  BY DEF CleanInv, Reports, CleanFailures, Skipped, PrefixSkipped
<1> QED
  BY <1>1, <1>2, <1>3, PTL DEF DemandSpec

=============================================================================
