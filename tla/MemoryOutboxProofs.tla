------------------------- MODULE MemoryOutboxProofs -------------------------
(***************************************************************************)
(* Proofs about MemoryOutbox for every set of memories, publishers and     *)
(* drains, every retry budget and every bound.                             *)
(***************************************************************************)
EXTENDS MemoryOutbox, TLAPS

(* What keeps attempts within max_attempts although mark_failed saves a    *)
(* stale snapshot: a row that can be loaded, and a snapshot that is held,  *)
(* are below the budget.                                                   *)
BudgetOK ==
    /\ \A c \in Coord : status[c] = "absent" => attempts[c] = 0
    /\ \A c \in Coord : status[c] \in Drainable => attempts[c] < MaxAttempts
    /\ \A p \in Publishers : \A c \in pubBatch[p] : pubSeen[p][c] < MaxAttempts

(* What the replicator has in hand at each step of _handle_wal.            *)
RepOK ==
    /\ rep # "idle" => repSrc \in Coord
    /\ rep # "idle" => wal[repSrc] > 0 /\ group # "none"
    /\ rep \in {"hop", "complete"} =>
          /\ repNew \in Coord /\ MemoryOf(repNew) = MemoryOf(repSrc)
          /\ MemoryOf(repSrc) \notin Blank

TypeInv == TypeOK /\ BudgetOK /\ RepOK /\ DeadIsExhausted

(* A coord belongs to one of the memories.                                 *)
LEMMA CoordParts ==
  ASSUME NEW c \in Coord
  PROVE  MemoryOf(c) \in Memories
  BY DEF Coord, MemoryOf

(* A memory and a stamp make a coord of that memory.                       *)
LEMMA CoordMade ==
  ASSUME NEW m \in Memories, NEW s \in 0..MaxStamp
  PROVE  <<m, s>> \in Coord /\ MemoryOf(<<m, s>>) = m
  BY DEF Coord, MemoryOf

(* Both placement keys of a coord are keys.                                *)
LEMMA KeyMade ==
  ASSUME NEW c \in Coord
  PROVE  /\ MaterialKey(c) \in Key /\ MaterialKey(c)[2] = c
         /\ MemKey(c) \in Key /\ MemKey(c)[2] = c
  BY DEF Key, MaterialKey, MemKey

(* The row operations keep the columns in their domains and the budget.    *)
RowsOK ==
    /\ status \in [Coord -> Status]
    /\ attempts \in [Coord -> 0..MaxAttempts]
    /\ due \in [Coord -> BOOLEAN]
    /\ \A c \in Coord : status[c] = "absent" => attempts[c] = 0
    /\ \A c \in Coord : status[c] \in Drainable => attempts[c] < MaxAttempts
    /\ DeadIsExhausted

(* durable_accept_memory keeps the row facts.                              *)
LEMMA DurableAcceptRows ==
  ASSUME RowsOK, accepted \subseteq Coord, NEW c \in Coord, DurableAccept(c)
  PROVE  RowsOK' /\ accepted' \subseteq Coord
  BY ConstantsAssumption DEF RowsOK, DurableAccept, Status, OpenStatus,
     Drainable, DeadIsExhausted

(* mark_published keeps the row facts.                                     *)
LEMMA MarkPublishedRows ==
  ASSUME RowsOK, NEW c \in Coord, MarkPublished(c)
  PROVE  RowsOK'
  BY ConstantsAssumption DEF RowsOK, MarkPublished, Status, OpenStatus,
     Drainable, DeadIsExhausted

(* mark_failed on a snapshot below the budget keeps the row facts.         *)
LEMMA MarkFailedRows ==
  ASSUME RowsOK, NEW c \in Coord, NEW seen \in 0..MaxAttempts,
         seen < MaxAttempts, MarkFailed(c, seen)
  PROVE  RowsOK'
  BY ConstantsAssumption DEF RowsOK, MarkFailed, Status, OpenStatus,
     Drainable, DeadIsExhausted

(* A step that leaves the table alone keeps the row facts.                 *)
LEMMA UnchangedRows ==
  ASSUME RowsOK, UNCHANGED outboxVars
  PROVE  RowsOK'
  BY DEF RowsOK, outboxVars, DeadIsExhausted

(* The outbox starts empty and everyone idle.                              *)
LEMMA InitType == Init => TypeInv
  BY ConstantsAssumption DEF Init, TypeInv, TypeOK, BudgetOK, RepOK,
     DeadIsExhausted, Status, OpenStatus, Drainable, CallerPc, RepPc

(* The rows apart from the rest of the state: TypeInv is RowsOK and what   *)
(* follows, which the actions treat separately.                            *)
RestOK ==
    /\ clock \in [Memories -> 0..(MaxStamp + 1)]
    /\ caller \in [Memories -> CallerPc]
    /\ stamp \in [Memories -> 0..MaxStamp]
    /\ brain \subseteq Key
    /\ wal \in [Coord -> 0..MaxCopies]
    /\ pubBatch \in [Publishers -> SUBSET Coord]
    /\ pubSeen \in [Publishers -> [Coord -> 0..MaxAttempts]]
    /\ pubSent \in [Publishers -> Coord \cup {None}]
    /\ rep \in RepPc
    /\ repSrc \in Coord \cup {None}
    /\ repNew \in Coord \cup {None}
    /\ group \in {"none", "reading", "committed"}
    /\ tdrBatch \in [Drains -> SUBSET Coord]
    /\ tdrSent \in [Drains -> Coord \cup {None}]
    /\ dlq \subseteq Coord
    /\ accepted \subseteq Coord
    /\ crashes \in 0..MaxCrashes
    /\ \A p \in Publishers : \A c \in pubBatch[p] : pubSeen[p][c] < MaxAttempts
    /\ RepOK

(* The type invariant is its row part and the rest.                        *)
LEMMA TypeSplit == TypeInv <=> RowsOK /\ RestOK
  BY DEF TypeInv, TypeOK, BudgetOK, RowsOK, RestOK

(* The same after a step.                                                  *)
LEMMA TypeSplitPrime == TypeInv' <=> RowsOK' /\ RestOK'
  BY DEF TypeInv, TypeOK, BudgetOK, RowsOK, RestOK

(* Steps of a caller.                                                      *)
LEMMA CallerType ==
  ASSUME TypeInv, NEW m \in Memories, CallerNext(m)
  PROVE  TypeInv'
<1> USE ConstantsAssumption
<1>1. RowsOK /\ RestOK
  BY TypeSplit
<1>2. CallerCoord(m) \in Coord /\ MemoryOf(CallerCoord(m)) = m
  BY <1>1, CoordMade DEF RestOK, CallerCoord
<1>3. ASSUME UNCHANGED <<brain, wal, pubVars, repVars, tdrVars, dlq, crashes>>,
             clock' \in [Memories -> 0..(MaxStamp + 1)],
             stamp' \in [Memories -> 0..MaxStamp],
             caller' \in [Memories -> CallerPc],
             RowsOK', accepted' \subseteq Coord
      PROVE  TypeInv'
  BY <1>1, <1>3, TypeSplitPrime DEF RestOK, RepOK, pubVars, repVars, tdrVars
<1>4. ASSUME NEW from \in CallerPc, NEW to \in CallerPc, Step(m, from, to)
      PROVE  caller' \in [Memories -> CallerPc]
  BY <1>1, <1>4 DEF RestOK, Step
<1>5. ASSUME TakeStamp(m)
      PROVE  /\ clock' \in [Memories -> 0..(MaxStamp + 1)]
             /\ stamp' \in [Memories -> 0..MaxStamp]
  BY <1>1, <1>5 DEF RestOK, TakeStamp
<1>6. CASE Call(m)
  BY <1>1, <1>3, <1>4, <1>5, <1>6, UnchangedRows DEF Call, CallerPc, RestOK
<1>7. CASE AcceptOk(m)
  BY <1>1, <1>2, <1>3, <1>4, <1>7, DurableAcceptRows DEF AcceptOk, CallerPc, RestOK
<1>8. CASE AcceptError(m)
  BY <1>1, <1>3, <1>4, <1>5, <1>8, UnchangedRows DEF AcceptError, CallerPc,
     RestOK
<1>9. CASE AcceptTimeout(m)
  BY <1>1, <1>3, <1>4, <1>9, UnchangedRows DEF AcceptTimeout, CallerPc, RestOK
<1>10. CASE LateAccept(m)
  BY <1>1, <1>2, <1>3, <1>4, <1>10, DurableAcceptRows, UnchangedRows
     DEF LateAccept, CallerPc, RestOK
<1>11. CASE Reaccept(m)
  BY <1>1, <1>2, <1>3, <1>4, <1>11, DurableAcceptRows, UnchangedRows
     DEF Reaccept, CallerPc, RestOK
<1>12. CASE Hop(m)
  <2>1. RowsOK' /\ caller' \in [Memories -> CallerPc]
    BY <1>1, <1>4, <1>12, UnchangedRows DEF Hop, CallerPc
  <2>2. brain' \subseteq Key
    BY <1>1, <1>2, <1>12, KeyMade DEF Hop, RestOK
  <2> QED BY <1>1, <1>12, <2>1, <2>2, TypeSplitPrime DEF Hop, RestOK, RepOK,
      pubVars, repVars, tdrVars
<1>13. CASE Complete(m)
  BY <1>1, <1>2, <1>3, <1>4, <1>13, MarkPublishedRows, UnchangedRows
     DEF Complete, CallerPc, RestOK
<1> QED
  BY <1>6, <1>7, <1>8, <1>9, <1>10, <1>11, <1>12, <1>13 DEF CallerNext

(* Steps of a publish_outbox run.                                          *)
LEMMA PubType ==
  ASSUME TypeInv, NEW p \in Publishers, PubNext(p) \/ PubCrash(p)
  PROVE  TypeInv'
<1> USE ConstantsAssumption, NoneAssumption
<1>1. RowsOK /\ RestOK
  BY TypeSplit
<1>2. ASSUME UNCHANGED <<callerVars, brain, repVars, tdrVars, dlq, accepted>>,
             RowsOK',
             wal' \in [Coord -> 0..MaxCopies],
             pubBatch' \in [Publishers -> SUBSET Coord],
             pubSeen' \in [Publishers -> [Coord -> 0..MaxAttempts]],
             pubSent' \in [Publishers -> Coord \cup {None}],
             \A c \in Coord : wal[c] > 0 => wal'[c] > 0,
             \A q \in Publishers : \A c \in pubBatch'[q] : pubSeen'[q][c] < MaxAttempts,
             crashes' \in 0..MaxCrashes
      PROVE  TypeInv'
  BY <1>1, <1>2, TypeSplitPrime DEF RestOK, RepOK, callerVars, repVars,
     tdrVars
<1>3. ASSUME NEW rows \in SUBSET {c \in Coord : status[c] \in Drainable},
             LoadRows(p, rows)
      PROVE  TypeInv'
  <2>1. RowsOK'
    BY <1>1, <1>3, UnchangedRows DEF LoadRows
  <2>2. /\ pubBatch' \in [Publishers -> SUBSET Coord]
        /\ pubSeen' \in [Publishers -> [Coord -> 0..MaxAttempts]]
    BY <1>1, <1>3 DEF LoadRows, RestOK, RowsOK
  <2>3. \A q \in Publishers : \A c \in pubBatch'[q] : pubSeen'[q][c] < MaxAttempts
    BY <1>1, <1>3 DEF LoadRows, RestOK, RowsOK
  <2> QED BY <1>1, <1>2, <1>3, <2>1, <2>2, <2>3 DEF LoadRows, RestOK
<1>4. CASE PubLoad(p)
  BY <1>3, <1>4 DEF PubLoad
<1>5. CASE PubMark(p)
  <2>1. pubSent[p] \in Coord
    BY <1>1, <1>5 DEF PubMark, RestOK
  <2>2. RowsOK'
    BY <1>1, <1>5, <2>1, MarkPublishedRows DEF PubMark
  <2> QED BY <1>1, <1>2, <1>5, <2>2 DEF PubMark, RestOK
<1>6. ASSUME NEW c \in Coord, PubSend(p, c)
      PROVE  TypeInv'
  <2>1. RowsOK'
    BY <1>1, <1>6, UnchangedRows DEF PubSend
  <2>2. /\ wal' \in [Coord -> 0..MaxCopies]
        /\ \A k \in Coord : wal[k] > 0 => wal'[k] > 0
    BY <1>1, <1>6 DEF PubSend, PubTake, Publish, RestOK
  <2> QED BY <1>1, <1>2, <1>6, <2>1, <2>2 DEF PubSend, PubTake, RestOK
<1>7. ASSUME NEW c \in Coord, PubSendError(p, c)
      PROVE  TypeInv'
  <2>1. pubSeen[p][c] \in 0..MaxAttempts /\ pubSeen[p][c] < MaxAttempts
    BY <1>1, <1>7 DEF PubSendError, PubTake, RestOK
  <2>2. RowsOK'
    BY <1>1, <1>7, <2>1, MarkFailedRows DEF PubSendError
  <2>3. /\ wal' \in [Coord -> 0..MaxCopies]
        /\ \A k \in Coord : wal[k] > 0 => wal'[k] > 0
    <3>1. CASE UNCHANGED wal
      BY <1>1, <3>1 DEF RestOK
    <3>2. CASE wal[c] < MaxCopies /\ Publish(c)
      BY <1>1, <3>2 DEF Publish, RestOK
    <3> QED BY <1>7, <3>1, <3>2 DEF PubSendError
  <2> QED BY <1>1, <1>2, <1>7, <2>2, <2>3 DEF PubSendError, PubTake, RestOK
<1>8. CASE PubCrash(p)
  <2>1. RowsOK'
    BY <1>1, <1>8, UnchangedRows DEF PubCrash
  <2> QED BY <1>1, <1>2, <1>8, <2>1 DEF PubCrash, RestOK
<1> QED BY <1>4, <1>5, <1>6, <1>7, <1>8 DEF PubNext

(* Steps of the memory replicator.                                         *)
LEMMA RepType ==
  ASSUME TypeInv, RepNext \/ RepCrash
  PROVE  TypeInv'
<1> USE ConstantsAssumption, NoneAssumption
<1>1. RowsOK /\ RestOK
  BY TypeSplit
<1>2. ASSUME UNCHANGED <<caller, stamp, pubVars, tdrVars>>,
             RowsOK',
             clock' \in [Memories -> 0..(MaxStamp + 1)],
             brain' \subseteq Key,
             wal' \in [Coord -> 0..MaxCopies],
             rep' \in RepPc,
             repSrc' \in Coord \cup {None},
             repNew' \in Coord \cup {None},
             group' \in {"none", "reading", "committed"},
             RepOK',
             dlq' \subseteq Coord,
             accepted' \subseteq Coord,
             crashes' \in 0..MaxCrashes
      PROVE  TypeInv'
  BY <1>1, <1>2, TypeSplitPrime DEF RestOK, pubVars, tdrVars
<1>3. rep # "idle" => repSrc \in Coord /\ MemoryOf(repSrc) \in Memories
  BY <1>1, CoordParts DEF RestOK, RepOK
<1>4. ASSUME NEW c \in Coord, RepDeliver(c) PROVE TypeInv'
  BY <1>1, <1>2, <1>4, UnchangedRows DEF RepDeliver, RepStep, RestOK, RepOK,
     RepPc, callerVars
<1>5. CASE RepInsert
  BY <1>1, <1>2, <1>5, UnchangedRows DEF RepInsert, RepStep, RestOK, RepOK,
     RepPc, callerVars
<1>6. CASE RepAccept
  <2> DEFINE m == MemoryOf(repSrc)
             c == <<m, clock[m]>>
  <2>1. CASE /\ RepStep("sync", "hop") /\ m \notin Blank /\ clock[m] <= MaxStamp
             /\ clock' = [clock EXCEPT ![m] = @ + 1]
             /\ repNew' = c /\ DurableAccept(c)
    <3>1. m \in Memories /\ repSrc \in Coord
      BY <1>3, <2>1 DEF RepStep
    <3>2. clock[m] \in 0..MaxStamp
      BY <1>1, <2>1, <3>1 DEF RestOK
    <3>3. c \in Coord /\ MemoryOf(c) = m
      BY <3>1, <3>2, CoordMade
    <3>4. RowsOK' /\ accepted' \subseteq Coord
      BY <1>1, <2>1, <3>3, DurableAcceptRows DEF RestOK
    <3>5. clock' \in [Memories -> 0..(MaxStamp + 1)]
      BY <1>1, <2>1, <3>1, <3>2 DEF RestOK
    <3>6. RepOK'
      BY <1>1, <1>6, <2>1, <3>1, <3>3 DEF RestOK, RepOK, RepAccept, RepStep
    <3> QED BY <1>1, <1>2, <1>6, <2>1, <3>3, <3>4, <3>5, <3>6
        DEF RepAccept, RepStep, RepPc, RestOK
  <2>2. CASE /\ RepStep("sync", "dlq") \/ RepStep("sync", "commit")
             /\ UNCHANGED <<clock, repNew, outboxVars, accepted>>
    BY <1>1, <1>2, <1>6, <2>2, UnchangedRows DEF RepAccept, RepStep, RepPc,
       RestOK, RepOK
  <2> QED BY <1>6, <2>1, <2>2 DEF RepAccept
<1>7. CASE RepHop
  <2>1. repNew \in Coord
    BY <1>1, <1>7 DEF RepHop, RepStep, RestOK, RepOK
  <2>2. brain' \subseteq Key
    BY <1>1, <1>7, <2>1, KeyMade DEF RepHop, RestOK
  <2>3. RowsOK'
    BY <1>1, <1>7, UnchangedRows DEF RepHop
  <2>4. RepOK'
    BY <1>1, <1>7 DEF RepHop, RepStep, RestOK, RepOK
  <2> QED BY <1>1, <1>2, <1>7, <2>2, <2>3, <2>4 DEF RepHop, RepStep, RestOK,
      RepPc, callerVars
<1>8. CASE RepComplete
  <2>1. repNew \in Coord
    BY <1>1, <1>8 DEF RepComplete, RepStep, RestOK, RepOK
  <2>2. RowsOK'
    BY <1>1, <1>8, <2>1, MarkPublishedRows, UnchangedRows DEF RepComplete
  <2> QED BY <1>1, <1>2, <1>8, <2>2 DEF RepComplete, RepStep, RestOK, RepOK,
      RepPc, callerVars
<1>9. CASE RepDlqPublish \/ RepDlqStore
  <2>1. RowsOK'
    BY <1>1, <1>9, UnchangedRows DEF RepDlqPublish, RepDlqStore
  <2>2. dlq' \subseteq Coord
    BY <1>1, <1>3, <1>9 DEF RepDlqPublish, RepDlqStore, RepStep, RestOK
  <2> QED BY <1>1, <1>2, <1>9, <2>1, <2>2 DEF RepDlqPublish, RepDlqStore,
      RepStep, RestOK, RepOK, RepPc, callerVars
<1>10. CASE RepCommit
  <2>1. RowsOK'
    BY <1>1, <1>10, UnchangedRows DEF RepCommit
  <2>2. wal' \in [Coord -> 0..MaxCopies]
    BY <1>1, <1>3, <1>10 DEF RepCommit, RepStep, RestOK, RepOK
  <2> QED BY <1>1, <1>2, <1>10, <2>1, <2>2 DEF RepCommit, RepStep, RestOK,
      RepOK, RepPc, callerVars
<1>11. CASE RepCrash
  <2>1. RowsOK'
    BY <1>1, <1>11, UnchangedRows DEF RepCrash
  <2> QED BY <1>1, <1>2, <1>11, <2>1 DEF RepCrash, RestOK, RepOK, RepPc,
      callerVars
<1>12. CASE RepStart
  <2>1. RowsOK'
    BY <1>1, <1>12, UnchangedRows DEF RepStart
  <2> QED BY <1>1, <1>2, <1>12, <2>1 DEF RepStart, RestOK, RepOK, callerVars
<1> QED
  BY <1>4, <1>5, <1>6, <1>7, <1>8, <1>9, <1>10, <1>11, <1>12 DEF RepNext

(* Steps of a drain_memory_wal_activity run.                               *)
LEMMA TdrType ==
  ASSUME TypeInv, NEW d \in Drains, TdrNext(d) \/ TdrCrash(d)
  PROVE  TypeInv'
<1> USE ConstantsAssumption, NoneAssumption
<1>1. RowsOK /\ RestOK
  BY TypeSplit
<1>2. ASSUME UNCHANGED <<callerVars, wal, pubVars, repVars, dlq, accepted>>,
             RowsOK',
             brain' \subseteq Key,
             tdrBatch' \in [Drains -> SUBSET Coord],
             tdrSent' \in [Drains -> Coord \cup {None}],
             crashes' \in 0..MaxCrashes
      PROVE  TypeInv'
  BY <1>1, <1>2, TypeSplitPrime DEF RestOK, RepOK, callerVars, pubVars, repVars
<1>3. CASE TdrLoad(d)
  BY <1>1, <1>2, <1>3, UnchangedRows DEF TdrLoad, RestOK
<1>4. CASE TdrMark(d)
  <2>1. tdrSent[d] \in Coord
    BY <1>1, <1>4 DEF TdrMark, RestOK
  <2>2. RowsOK'
    BY <1>1, <1>4, <2>1, MarkPublishedRows DEF TdrMark
  <2> QED BY <1>1, <1>2, <1>4, <2>2 DEF TdrMark, RestOK
<1>5. ASSUME NEW c \in Coord, TdrPost(d, c) PROVE TypeInv'
  <2>1. RowsOK'
    BY <1>1, <1>5, UnchangedRows DEF TdrPost
  <2>2. brain' \subseteq Key
    BY <1>1, <1>5, KeyMade DEF TdrPost, RestOK
  <2> QED BY <1>1, <1>2, <1>5, <2>1, <2>2 DEF TdrPost, TdrTake, RestOK
<1>6. ASSUME NEW c \in Coord, TdrPostError(d, c) PROVE TypeInv'
  <2>1. RowsOK'
    BY <1>1, <1>6, UnchangedRows DEF TdrPostError
  <2>2. brain' \subseteq Key
    BY <1>1, <1>6, KeyMade DEF TdrPostError, RestOK
  <2> QED BY <1>1, <1>2, <1>6, <2>1, <2>2 DEF TdrPostError, TdrTake, RestOK
<1>7. CASE TdrCrash(d)
  BY <1>1, <1>2, <1>7, UnchangedRows DEF TdrCrash, RestOK
<1> QED BY <1>3, <1>4, <1>5, <1>6, <1>7 DEF TdrNext

(* Backoff, cleanup_outbox and the crash of a caller.                      *)
LEMMA MaintenanceType ==
  ASSUME TypeInv,
         \/ \E c \in Coord : BackoffElapses(c) \/ CleanupOutbox(c)
         \/ \E m \in Memories : CallerCrash(m)
  PROVE  TypeInv'
<1> USE ConstantsAssumption
<1>1. RowsOK /\ RestOK
  BY TypeSplit
<1>2. ASSUME NEW c \in Coord, BackoffElapses(c) PROVE TypeInv'
  <2>1. RowsOK'
    BY <1>1, <1>2 DEF BackoffElapses, RowsOK, DeadIsExhausted
  <2> QED BY <1>1, <1>2, <2>1, TypeSplitPrime DEF BackoffElapses, RestOK, RepOK,
      callerVars, pubVars, repVars, tdrVars
<1>3. ASSUME NEW c \in Coord, CleanupOutbox(c) PROVE TypeInv'
  <2>1. RowsOK'
    BY <1>1, <1>3 DEF CleanupOutbox, RowsOK, DeadIsExhausted, Status,
       OpenStatus, Drainable
  <2> QED BY <1>1, <1>3, <2>1, TypeSplitPrime DEF CleanupOutbox, RestOK, RepOK,
      callerVars, pubVars, repVars, tdrVars
<1>4. ASSUME NEW m \in Memories, CallerCrash(m) PROVE TypeInv'
  <2>1. RowsOK'
    BY <1>1, <1>4, UnchangedRows DEF CallerCrash
  <2> QED BY <1>1, <1>4, <2>1, TypeSplitPrime DEF CallerCrash, RestOK, RepOK,
      CallerPc, callerVars, pubVars, repVars, tdrVars
<1> QED BY <1>2, <1>3, <1>4

(* Every step keeps the type invariant.                                    *)
LEMMA NextType == TypeInv /\ [Next]_vars => TypeInv'
<1> SUFFICES ASSUME TypeInv, [Next]_vars PROVE TypeInv'
  OBVIOUS
<1>1. CASE UNCHANGED vars
  BY <1>1 DEF vars, outboxVars, callerVars, pubVars, repVars, tdrVars,
     TypeInv, TypeOK, BudgetOK, RepOK, DeadIsExhausted
<1>2. CASE Next
  BY <1>2, CallerType, PubType, RepType, TdrType, MaintenanceType DEF Next, Crash
<1> QED BY <1>1, <1>2

(* The type invariant holds in every reachable state.                      *)
LEMMA TypeInvariant == Spec => []TypeInv
  BY InitType, NextType, PTL DEF Spec

(* Type correctness of MemoryOutbox; attempts stays within max_attempts    *)
(* although mark_failed saves snapshots concurrent runs have outdated.     *)
THEOREM OutboxTypeOK == Spec => []TypeOK
<1>1. TypeInv => TypeOK BY DEF TypeInv
<1> QED BY <1>1, TypeInvariant, PTL

(* Only mark_failed calls that spent the whole budget make a row DEAD.     *)
THEOREM OutboxDeadIsExhausted == Spec => []DeadIsExhausted
<1>1. TypeInv => DeadIsExhausted BY DEF TypeInv
<1> QED BY <1>1, TypeInvariant, PTL

-----------------------------------------------------------------------------
(***************************************************************************)
(* Zero loss: an accepted memory is never lost, for every number of        *)
(* crashes, as long as SomaBrain's 2xx means it kept the write, the two    *)
(* dead-letter stores are not both down and the consumer group has an      *)
(* offset to resume from.  Blank memories are left out: the replay drops   *)
(* them.                                                                   *)
(*                                                                         *)
(* ZeroLoss is not inductive: a row may be closed only by someone who      *)
(* knows the memory is elsewhere, so LossInv records, for each holder of   *)
(* such knowledge (a publisher with a broker ack, a drain with a 2xx, a    *)
(* caller or the replicator with an ok ack, the replicator between its two *)
(* dead-letter writes), where the memory is.                               *)
(***************************************************************************)

Benign ==
    /\ "soft2xx" \notin Faults
    /\ "freshGroup" \notin Faults
    /\ ~({"dlqTopicDown", "dlqStoreDown"} \subseteq Faults)

(* Nothing more is owed to a memory: it is blank or has been placed; it is *)
(* blank or has been handed off.                                           *)
Placed(m) == m \in Blank \/ Durable(m)
Passed(m) == m \in Blank \/ HandedOff(m)

GroupOK == group = "committed"
PublishedOK ==
    \A c \in Coord : status[c] = "published" => Passed(MemoryOf(c))
PubSentOK ==
    \A p \in Publishers, c \in Coord : pubSent[p] = c => Passed(MemoryOf(c))
TdrSentOK ==
    \A d \in Drains, c \in Coord : tdrSent[d] = c => Placed(MemoryOf(c))
CallerOK ==
    \A m \in Memories : caller[m] = "complete" => Placed(m)
RepPlaced == {"complete", "commit"}
RepPlacedOK == rep \in RepPlaced => Placed(MemoryOf(repSrc))
RepDlqOK == rep = "dlqStore" => repSrc \in dlq \/ "dlqTopicDown" \in Faults

LossInv ==
    /\ TypeInv
    /\ PublishedOK
    /\ PubSentOK
    /\ TdrSentOK
    /\ CallerOK
    /\ RepPlacedOK
    /\ RepDlqOK
    /\ GroupOK
    /\ ZeroLoss

(* SomaBrain and the dead-letter stores only grow.                         *)
Grows == brain \subseteq brain' /\ dlq \subseteq dlq'

(* A WAL message goes only when its memory has been placed or is blank.    *)
WalKept == \A c \in Coord : wal[c] > 0 => wal'[c] > 0 \/ Placed(MemoryOf(c))'

(* A row closes only when its memory has been handed off or is blank, and  *)
(* a new row is not closed.                                                *)
RowsKept ==
    /\ \A c \in Coord : status'[c] = "published" =>
          status[c] = "published" \/ Passed(MemoryOf(c))'
    /\ \A c \in Coord : status[c] \in OpenStatus =>
          status'[c] \in OpenStatus \cup {"published"}
    /\ \A c \in accepted' : c \in accepted \/ status'[c] \in OpenStatus \cup {"published"}

(* What SomaBrain and the dead-letter stores hold, they keep.              *)
LEMMA PlacedKept ==
  ASSUME Grows, NEW m, Placed(m)
  PROVE  Placed(m)'
  BY DEF Grows, Placed, Durable, InBrain

(* A memory handed off stays handed off while the WAL only grows.          *)
LEMMA PassedKept ==
  ASSUME Grows, WalKept, NEW m, Passed(m)
  PROVE  Passed(m)'
<1>1. CASE Placed(m)
  <2>1. Placed(m)'
    BY <1>1, PlacedKept
  <2> QED BY <2>1 DEF Passed, Placed, HandedOff
<1>2. CASE \E c \in Coord : MemoryOf(c) = m /\ wal[c] > 0
  <2>1. PICK c \in Coord : MemoryOf(c) = m /\ wal[c] > 0
    BY <1>2
  <2>2. wal'[c] > 0 \/ Placed(m)'
    BY <2>1 DEF WalKept, Placed, Durable, InBrain, MemoryOf
  <2> QED BY <2>1, <2>2 DEF Passed, Placed, HandedOff, MemoryOf
<1> QED BY <1>1, <1>2 DEF Passed, Placed, HandedOff

(* A step that keeps rows, WAL and records, and learns nothing false, keeps*)
(* the invariant.                                                          *)
LEMMA LossKept ==
  ASSUME LossInv, TypeInv', Grows, WalKept, RowsKept, GroupOK', RepDlqOK',
         \A p \in Publishers, k \in Coord : pubSent'[p] = k =>
            pubSent[p] = k \/ Passed(MemoryOf(k))',
         \A d \in Drains, k \in Coord : tdrSent'[d] = k =>
            tdrSent[d] = k \/ Placed(MemoryOf(k))',
         \A m \in Memories : caller'[m] = "complete" =>
            caller[m] = "complete" \/ Placed(m)',
         rep' \in RepPlaced =>
            \/ rep \in RepPlaced /\ repSrc' = repSrc
            \/ Placed(MemoryOf(repSrc))'
  PROVE  LossInv'
<1>1. PublishedOK'
  BY PassedKept DEF LossInv, PublishedOK, RowsKept, MemoryOf
<1>2. PubSentOK'
  BY PassedKept DEF LossInv, PubSentOK, MemoryOf
<1>3. TdrSentOK'
  BY PlacedKept DEF LossInv, TdrSentOK, MemoryOf
<1>4. CallerOK'
  BY PlacedKept DEF LossInv, CallerOK
<1>5. RepPlacedOK'
  BY DEF LossInv, RepPlacedOK, Grows, Placed, Durable, InBrain, MemoryOf
<1>6. ZeroLoss'
  <2> SUFFICES ASSUME NEW c \in accepted', MemoryOf(c) \in Replayable
               PROVE  HandedOff(MemoryOf(c))' \/ HasOpenRow(MemoryOf(c))'
    BY DEF ZeroLoss, AcceptedMemories, MemoryOf
  <2>1. c \in Coord /\ MemoryOf(c) \notin Blank
    BY DEF TypeInv, TypeOK, Replayable
  <2>2. ASSUME NEW k \in Coord, MemoryOf(k) = MemoryOf(c),
               status'[k] \in OpenStatus \cup {"published"}
        PROVE  HandedOff(MemoryOf(c))' \/ HasOpenRow(MemoryOf(c))'
    <3>1. CASE status'[k] \in OpenStatus
      BY <2>2, <3>1 DEF HasOpenRow, MemoryOf
    <3>2. CASE status'[k] = "published"
      BY <1>1, <2>1, <2>2, <3>2 DEF PublishedOK, Passed, HandedOff, Durable,
         InBrain, MemoryOf
    <3> QED BY <2>2, <3>1, <3>2
  <2>3. CASE c \in accepted
    <3>1. HandedOff(MemoryOf(c)) \/ HasOpenRow(MemoryOf(c))
      BY <2>3 DEF LossInv, ZeroLoss, AcceptedMemories
    <3>2. CASE HandedOff(MemoryOf(c))
      <4>1. Passed(MemoryOf(c))
        BY <3>2 DEF Passed
      <4>2. \A m : Passed(m) => Passed(m)'
        BY PassedKept
      <4> QED BY <2>1, <4>1, <4>2 DEF Passed, HandedOff, Durable, InBrain, MemoryOf
    <3>3. CASE HasOpenRow(MemoryOf(c))
      BY <2>2, <3>3 DEF HasOpenRow, RowsKept
    <3> QED BY <3>1, <3>2, <3>3
  <2>4. CASE c \notin accepted
    BY <2>1, <2>2, <2>4 DEF RowsKept
  <2> QED BY <2>3, <2>4
<1> QED BY <1>1, <1>2, <1>3, <1>4, <1>5, <1>6 DEF LossInv

(* Nothing is accepted at first.                                           *)
LEMMA InitLoss == Benign /\ Init => LossInv
<1> SUFFICES ASSUME Benign, Init PROVE LossInv
  OBVIOUS
<1>1. TypeInv
  BY InitType
<1>2. /\ PublishedOK /\ PubSentOK /\ TdrSentOK /\ CallerOK /\ RepPlacedOK
      /\ RepDlqOK /\ GroupOK
  BY NoneAssumption DEF Init, PublishedOK, PubSentOK, TdrSentOK, CallerOK,
     RepPlacedOK, RepPlaced, RepDlqOK, GroupOK, Benign
<1>3. ZeroLoss
  BY DEF Init, ZeroLoss, AcceptedMemories
<1> QED BY <1>1, <1>2, <1>3 DEF LossInv

(* What a row operation does to RowsKept.                                  *)
LEMMA AcceptKeepsRows ==
  ASSUME TypeInv, NEW c \in Coord, DurableAccept(c)
  PROVE  RowsKept
  BY DEF DurableAccept, RowsKept, TypeInv, TypeOK, Status, OpenStatus, Drainable

(* mark_published keeps every other row open, and closes its own           *)
(* knowingly.                                                              *)
LEMMA PublishKeepsRows ==
  ASSUME TypeInv, NEW c \in Coord, MarkPublished(c), Passed(MemoryOf(c))',
         UNCHANGED accepted
  PROVE  RowsKept
  BY DEF MarkPublished, RowsKept, TypeInv, TypeOK, MemoryOf

(* mark_failed leaves its row open, whatever it was.                       *)
LEMMA FailKeepsRows ==
  ASSUME TypeInv, NEW c \in Coord, NEW seen, MarkFailed(c, seen),
         UNCHANGED accepted
  PROVE  RowsKept
  BY DEF MarkFailed, RowsKept, TypeInv, TypeOK, OpenStatus, Drainable

(* So does a step that leaves the table alone.                             *)
LEMMA UnchangedKeepsRows ==
  ASSUME UNCHANGED <<status, accepted>>
  PROVE  RowsKept
  BY DEF RowsKept

(* Steps of a caller.                                                      *)
LEMMA CallerLoss ==
  ASSUME LossInv, NEW m \in Memories, CallerNext(m) \/ CallerCrash(m)
  PROVE  LossInv'
<1>1. TypeInv /\ TypeInv'
  BY CallerType, MaintenanceType DEF LossInv
<1>2. CallerCoord(m) \in Coord /\ MemoryOf(CallerCoord(m)) = m
  BY <1>1, CoordMade DEF TypeInv, TypeOK, CallerCoord
<1>3. ASSUME UNCHANGED <<wal, dlq, pubVars, repVars, tdrVars>>,
             brain \subseteq brain', RowsKept,
             \A n \in Memories : caller'[n] = "complete" =>
                 caller[n] = "complete" \/ Placed(n)'
      PROVE  LossInv'
  <2>1. Grows /\ WalKept
    BY <1>3 DEF Grows, WalKept
  <2>2. GroupOK' /\ RepDlqOK'
    BY <1>3 DEF LossInv, GroupOK, RepDlqOK, repVars
  <2> QED BY <1>1, <1>3, <2>1, <2>2, LossKept DEF pubVars, repVars, tdrVars,
      LossInv, RepPlacedOK
<1>4. ASSUME NEW from, NEW to, Step(m, from, to), to # "complete"
      PROVE  \A n \in Memories : caller'[n] = "complete" => caller[n] = "complete"
  BY <1>1, <1>4 DEF Step, TypeInv, TypeOK
<1>5. CASE Call(m)
  BY <1>3, <1>4, <1>5, UnchangedKeepsRows DEF Call, outboxVars
<1>6. CASE AcceptOk(m)
  BY <1>1, <1>2, <1>3, <1>4, <1>6, AcceptKeepsRows DEF AcceptOk
<1>7. CASE AcceptError(m)
  BY <1>3, <1>4, <1>7, UnchangedKeepsRows DEF AcceptError, outboxVars
<1>8. CASE AcceptTimeout(m)
  BY <1>3, <1>4, <1>8, UnchangedKeepsRows DEF AcceptTimeout, outboxVars
<1>9. CASE LateAccept(m)
  BY <1>1, <1>2, <1>3, <1>4, <1>9, AcceptKeepsRows, UnchangedKeepsRows
     DEF LateAccept, outboxVars
<1>10. CASE Reaccept(m)
  BY <1>1, <1>2, <1>3, <1>4, <1>10, AcceptKeepsRows, UnchangedKeepsRows
     DEF Reaccept, outboxVars
<1>11. CASE Hop(m)
  <2>1. brain \subseteq brain' /\ RowsKept
    BY <1>11, UnchangedKeepsRows DEF Hop, outboxVars
  <2>2. CASE Step(m, "hop", "complete") /\ brain' = brain \cup {MaterialKey(CallerCoord(m))}
    <3>1. Placed(m)'
      BY <1>2, <2>2, KeyMade DEF Placed, Durable, InBrain, MemoryOf
    <3>2. \A n \in Memories : caller'[n] = "complete" => caller[n] = "complete" \/ n = m
      BY <1>1, <2>2 DEF Step, TypeInv, TypeOK
    <3> QED BY <1>3, <1>11, <2>1, <3>1, <3>2 DEF Hop
  <2>3. CASE Step(m, "hop", "returned")
    BY <1>3, <1>4, <1>11, <2>1, <2>3 DEF Hop
  <2> QED BY <1>11, <2>2, <2>3 DEF Hop
<1>12. CASE Complete(m)
  <2>1. Placed(m)
    BY <1>12 DEF Complete, Step, LossInv, CallerOK
  <2>2. Passed(m)'
    BY <1>12, <2>1 DEF Complete, Passed, HandedOff, Placed, Durable, InBrain
  <2>3. RowsKept
    BY <1>1, <1>2, <1>12, <2>2, PublishKeepsRows, UnchangedKeepsRows
       DEF Complete, outboxVars
  <2> QED BY <1>3, <1>4, <1>12, <2>3 DEF Complete
<1>13. CASE CallerCrash(m)
  <2>1. \A n \in Memories : caller'[n] = "complete" => caller[n] = "complete"
    BY <1>1, <1>13 DEF CallerCrash, TypeInv, TypeOK
  <2> QED BY <1>3, <1>13, <2>1, UnchangedKeepsRows DEF CallerCrash, outboxVars
<1> QED
  BY <1>5, <1>6, <1>7, <1>8, <1>9, <1>10, <1>11, <1>12, <1>13 DEF CallerNext

(* Steps of a publish_outbox run.                                          *)
LEMMA PubLoss ==
  ASSUME LossInv, NEW p \in Publishers, PubNext(p) \/ PubCrash(p)
  PROVE  LossInv'
<1>1. TypeInv /\ TypeInv'
  BY PubType DEF LossInv
<1>2. ASSUME UNCHANGED <<brain, dlq, caller, repVars, tdrVars>>,
             WalKept, RowsKept,
             \A q \in Publishers, k \in Coord : pubSent'[q] = k =>
                 pubSent[q] = k \/ Passed(MemoryOf(k))'
      PROVE  LossInv'
  <2>1. Grows /\ GroupOK' /\ RepDlqOK'
    BY <1>2 DEF Grows, LossInv, GroupOK, RepDlqOK, repVars
  <2> QED BY <1>1, <1>2, <2>1, LossKept DEF repVars, tdrVars
<1>3. CASE PubLoad(p)
  <2>1. WalKept /\ RowsKept
    BY <1>3, UnchangedKeepsRows DEF PubLoad, LoadRows, WalKept, outboxVars
  <2> QED BY <1>2, <1>3, <2>1 DEF PubLoad, LoadRows, callerVars
<1>4. CASE PubMark(p)
  <2>1. pubSent[p] \in Coord
    BY <1>1, <1>4 DEF PubMark, TypeInv, TypeOK
  <2>2. Passed(MemoryOf(pubSent[p]))
    BY <2>1 DEF LossInv, PubSentOK
  <2>3. \A m : Passed(m) => Passed(m)'
    BY <1>4 DEF PubMark, Passed, HandedOff, Placed, Durable, InBrain
  <2>4. ASSUME NEW k \in Coord, k = pubSent[p] PROVE RowsKept
    BY <1>1, <1>4, <2>2, <2>3, <2>4, PublishKeepsRows DEF PubMark, MemoryOf
  <2>5. RowsKept /\ WalKept
    BY <1>4, <2>1, <2>4 DEF WalKept, PubMark
  <2>6. \A q \in Publishers, k \in Coord : pubSent'[q] = k => pubSent[q] = k
    BY <1>1, <1>4, NoneAssumption DEF PubMark, TypeInv, TypeOK
  <2> QED BY <1>2, <1>4, <2>5, <2>6 DEF PubMark, callerVars
<1>5. ASSUME NEW c \in Coord, PubSend(p, c) PROVE LossInv'
  <2>1. wal'[c] > 0 /\ \A k \in Coord : wal[k] > 0 => wal'[k] > 0
    BY <1>1, <1>5 DEF PubSend, PubTake, Publish, TypeInv, TypeOK
  <2>2. WalKept /\ Passed(MemoryOf(c))'
    BY <2>1 DEF WalKept, Passed, HandedOff, MemoryOf
  <2>3. RowsKept
    BY <1>5, UnchangedKeepsRows DEF PubSend, PubTake, outboxVars
  <2>4. \A q \in Publishers, k \in Coord : pubSent'[q] = k => pubSent[q] = k \/ k = c
    BY <1>1, <1>5 DEF PubSend, PubTake, TypeInv, TypeOK
  <2> QED BY <1>2, <1>5, <2>2, <2>3, <2>4 DEF PubSend, PubTake, callerVars
<1>6. ASSUME NEW c \in Coord, PubSendError(p, c) PROVE LossInv'
  <2>1. WalKept
    <3>1. CASE UNCHANGED wal
      BY <3>1 DEF WalKept
    <3>2. CASE Publish(c)
      BY <1>1, <3>2 DEF Publish, WalKept, TypeInv, TypeOK
    <3> QED BY <1>6, <3>1, <3>2 DEF PubSendError
  <2>2. RowsKept
    BY <1>1, <1>6, FailKeepsRows DEF PubSendError
  <2> QED BY <1>2, <1>6, <2>1, <2>2 DEF PubSendError, PubTake, callerVars
<1>7. CASE PubCrash(p)
  <2>1. WalKept /\ RowsKept
    BY <1>7, UnchangedKeepsRows DEF PubCrash, WalKept, outboxVars
  <2>2. \A q \in Publishers, k \in Coord : pubSent'[q] = k => pubSent[q] = k
    BY <1>1, <1>7, NoneAssumption DEF PubCrash, TypeInv, TypeOK
  <2> QED BY <1>2, <1>7, <2>1, <2>2 DEF PubCrash, callerVars
<1> QED BY <1>3, <1>4, <1>5, <1>6, <1>7 DEF PubNext

(* Steps of the memory replicator.                                         *)
LEMMA RepLoss ==
  ASSUME Benign, LossInv, RepNext \/ RepCrash
  PROVE  LossInv'
<1>1. TypeInv /\ TypeInv'
  BY RepType DEF LossInv
<1>2. ASSUME UNCHANGED <<caller, pubVars, tdrVars>>, Grows, WalKept, RowsKept,
             group' = group, rep' # "dlqStore",
             rep' \in RepPlaced =>
                 \/ rep \in RepPlaced /\ repSrc' = repSrc
                 \/ Placed(MemoryOf(repSrc))'
      PROVE  LossInv'
  <2>1. GroupOK' /\ RepDlqOK'
    BY <1>2 DEF LossInv, GroupOK, RepDlqOK
  <2> QED BY <1>1, <1>2, <2>1, LossKept DEF pubVars, tdrVars
<1>3. rep # "idle" => repSrc \in Coord /\ MemoryOf(repSrc) \in Memories
  BY <1>1, CoordParts DEF TypeInv, RepOK
<1>4. ASSUME UNCHANGED <<brain, wal, dlq>> PROVE Grows /\ WalKept
  BY <1>4 DEF Grows, WalKept
<1>5. ASSUME NEW c \in Coord, RepDeliver(c) PROVE LossInv'
  BY <1>2, <1>4, <1>5, UnchangedKeepsRows DEF RepDeliver, RepStep, RepPlaced,
     outboxVars, callerVars
<1>6. CASE RepInsert
  BY <1>2, <1>4, <1>6, UnchangedKeepsRows DEF RepInsert, RepStep, RepPlaced,
     outboxVars, callerVars
<1>7. CASE RepAccept
  <2> DEFINE m == MemoryOf(repSrc)
             c == <<m, clock[m]>>
  <2>1. RowsKept
    <3>1. CASE RepStep("sync", "hop") /\ clock[m] <= MaxStamp /\ DurableAccept(c)
      <4>1. m \in Memories
        BY <1>3, <3>1 DEF RepStep
      <4>2. clock[m] \in 0..MaxStamp
        BY <1>1, <3>1, <4>1, ConstantsAssumption DEF TypeInv, TypeOK
      <4>3. c \in Coord
        BY <4>1, <4>2, CoordMade
      <4> QED BY <1>1, <3>1, <4>3, AcceptKeepsRows
    <3>2. CASE UNCHANGED <<clock, repNew, outboxVars, accepted>>
      BY <3>2, UnchangedKeepsRows DEF outboxVars
    <3> QED BY <1>7, <3>1, <3>2 DEF RepAccept
  <2>2. rep' \in RepPlaced => Placed(MemoryOf(repSrc))'
    BY <1>7 DEF RepAccept, RepStep, RepPlaced, Placed, MemoryOf
  <2> QED BY <1>2, <1>4, <1>7, <2>1, <2>2 DEF RepAccept, RepStep
<1>8. CASE RepHop
  <2>1. repNew \in Coord /\ MemoryOf(repNew) = MemoryOf(repSrc)
    BY <1>1, <1>8 DEF RepHop, RepStep, TypeInv, RepOK
  <2>2. Grows /\ WalKept /\ RowsKept
    BY <1>8, UnchangedKeepsRows DEF RepHop, Grows, WalKept, outboxVars
  <2>3. rep' \in RepPlaced => MaterialKey(repNew) \in brain'
    BY <1>8 DEF RepHop, RepStep, RepPlaced
  <2>4. MaterialKey(repNew) \in brain' => Placed(MemoryOf(repSrc))'
    BY <1>8, <2>1, KeyMade DEF RepHop, Placed, Durable, InBrain, MemoryOf
  <2> QED BY <1>2, <1>8, <2>2, <2>3, <2>4 DEF RepHop, RepStep, callerVars
<1>9. CASE RepComplete
  <2>1. repNew \in Coord /\ MemoryOf(repNew) = MemoryOf(repSrc)
    BY <1>1, <1>9 DEF RepComplete, RepStep, TypeInv, RepOK
  <2>2. Placed(MemoryOf(repSrc))
    BY <1>9 DEF RepComplete, RepStep, RepPlaced, LossInv, RepPlacedOK
  <2>3. Passed(MemoryOf(repNew))'
    BY <1>9, <2>1, <2>2 DEF RepComplete, Passed, HandedOff, Placed, Durable, InBrain, MemoryOf
  <2>4. ASSUME NEW k \in Coord, k = repNew PROVE RowsKept
    <3>1. Passed(MemoryOf(k))'
      BY <1>9, <2>3, <2>4 DEF RepComplete, Passed, HandedOff, Placed, Durable, InBrain, MemoryOf
    <3> QED BY <1>1, <1>9, <2>4, <3>1, PublishKeepsRows, UnchangedKeepsRows
        DEF RepComplete, outboxVars
  <2> QED BY <1>2, <1>4, <1>9, <2>1, <2>4 DEF RepComplete, RepStep, RepPlaced,
      callerVars
<1>10. CASE RepDlqPublish
  <2>1. Grows /\ WalKept /\ RowsKept
    BY <1>10, UnchangedKeepsRows DEF RepDlqPublish, Grows, WalKept, outboxVars
  <2>2. GroupOK' /\ RepDlqOK'
    BY <1>10 DEF RepDlqPublish, LossInv, GroupOK, RepDlqOK
  <2> QED BY <1>1, <1>10, <2>1, <2>2, LossKept DEF RepDlqPublish, RepStep,
      RepPlaced, callerVars, pubVars, tdrVars
<1>13. CASE RepDlqStore
  <2>1. Grows /\ WalKept /\ RowsKept
    BY <1>13, UnchangedKeepsRows DEF RepDlqStore, Grows, WalKept, outboxVars
  <2>2. repSrc \in dlq'
    BY <1>13 DEF RepDlqStore, RepStep, LossInv, RepDlqOK, Benign
  <2>3. Placed(MemoryOf(repSrc))'
    BY <1>13, <2>2 DEF RepDlqStore, Placed, Durable, MemoryOf
  <2> QED BY <1>2, <1>13, <2>1, <2>3 DEF RepDlqStore, RepStep, callerVars
<1>14. RepStart => FALSE
  BY DEF RepStart, LossInv, GroupOK
<1>11. CASE RepCommit
  <2>1. Placed(MemoryOf(repSrc))
    BY <1>11 DEF RepCommit, RepStep, RepPlaced, LossInv, RepPlacedOK
  <2>2. Grows
    BY <1>11 DEF RepCommit, Grows
  <2>3. ASSUME NEW c \in Coord, wal[c] > 0
        PROVE  wal'[c] > 0 \/ Placed(MemoryOf(c))'
    <3>1. CASE c = repSrc
      BY <2>1, <2>2, <3>1 DEF Placed, Durable, InBrain, Grows, MemoryOf
    <3>2. CASE c # repSrc
      BY <1>1, <1>11, <2>3, <3>2 DEF RepCommit, TypeInv, TypeOK
    <3> QED BY <3>1, <3>2
  <2>4. WalKept /\ RowsKept
    BY <1>11, <2>3, UnchangedKeepsRows DEF WalKept, RepCommit, outboxVars
  <2>5. group' = group
    BY <1>11 DEF RepCommit, LossInv, GroupOK
  <2> QED BY <1>2, <1>11, <2>2, <2>4, <2>5 DEF RepCommit, RepStep, RepPlaced,
      callerVars
<1>12. CASE RepCrash
  <2>1. group' = group
    BY <1>12 DEF RepCrash, LossInv, GroupOK
  <2> QED BY <1>2, <1>4, <1>12, <2>1, UnchangedKeepsRows DEF RepCrash,
      RepPlaced, outboxVars, callerVars
<1> QED
  BY <1>5, <1>6, <1>7, <1>8, <1>9, <1>10, <1>11, <1>12, <1>13, <1>14
     DEF RepNext

(* Steps of a drain_memory_wal_activity run.                               *)
LEMMA TdrLoss ==
  ASSUME Benign, LossInv, NEW d \in Drains, TdrNext(d) \/ TdrCrash(d)
  PROVE  LossInv'
<1>1. TypeInv /\ TypeInv'
  BY TdrType DEF LossInv
<1>2. ASSUME UNCHANGED <<wal, dlq, caller, pubVars, repVars>>,
             brain \subseteq brain', RowsKept,
             \A e \in Drains, k \in Coord : tdrSent'[e] = k =>
                 tdrSent[e] = k \/ Placed(MemoryOf(k))'
      PROVE  LossInv'
  <2>1. Grows /\ WalKept /\ GroupOK' /\ RepDlqOK'
    BY <1>2 DEF Grows, WalKept, LossInv, GroupOK, RepDlqOK, repVars
  <2> QED BY <1>1, <1>2, <2>1, LossKept DEF pubVars, repVars
<1>3. CASE TdrLoad(d)
  BY <1>2, <1>3, UnchangedKeepsRows DEF TdrLoad, outboxVars, callerVars
<1>4. CASE TdrMark(d)
  <2>1. tdrSent[d] \in Coord
    BY <1>1, <1>4 DEF TdrMark, TypeInv, TypeOK
  <2>2. ASSUME NEW k \in Coord, k = tdrSent[d] PROVE RowsKept
    <3>1. Passed(MemoryOf(k))'
      BY <1>4, <2>2 DEF LossInv, TdrSentOK, TdrMark, Passed, HandedOff, Placed, Durable, InBrain, MemoryOf
    <3> QED BY <1>1, <1>4, <2>2, <3>1, PublishKeepsRows DEF TdrMark
  <2>3. \A e \in Drains, k \in Coord : tdrSent'[e] = k => tdrSent[e] = k
    BY <1>1, <1>4, NoneAssumption DEF TdrMark, TypeInv, TypeOK
  <2> QED BY <1>2, <1>4, <2>1, <2>2, <2>3 DEF TdrMark, callerVars
<1>5. ASSUME NEW c \in Coord, TdrPost(d, c) PROVE LossInv'
  <2>1. brain' = brain \cup {MemKey(c)}
    BY <1>5 DEF TdrPost, Benign
  <2>2. Placed(MemoryOf(c))'
    BY <2>1, KeyMade DEF Placed, Durable, InBrain, MemoryOf
  <2>3. \A e \in Drains, k \in Coord : tdrSent'[e] = k => tdrSent[e] = k \/ k = c
    BY <1>1, <1>5 DEF TdrPost, TypeInv, TypeOK
  <2> QED BY <1>2, <1>5, <2>1, <2>2, <2>3, UnchangedKeepsRows DEF TdrPost,
      outboxVars, callerVars
<1>6. ASSUME NEW c \in Coord, TdrPostError(d, c) PROVE LossInv'
  BY <1>2, <1>6, UnchangedKeepsRows DEF TdrPostError, outboxVars, callerVars
<1>7. CASE TdrCrash(d)
  <2>1. \A e \in Drains, k \in Coord : tdrSent'[e] = k => tdrSent[e] = k
    BY <1>1, <1>7, NoneAssumption DEF TdrCrash, TypeInv, TypeOK
  <2> QED BY <1>2, <1>7, <2>1, UnchangedKeepsRows DEF TdrCrash, outboxVars,
      callerVars
<1> QED BY <1>3, <1>4, <1>5, <1>6, <1>7 DEF TdrNext

(* Backoff and cleanup_outbox.                                             *)
LEMMA MaintenanceLoss ==
  ASSUME LossInv, NEW c \in Coord, BackoffElapses(c) \/ CleanupOutbox(c)
  PROVE  LossInv'
<1>1. TypeInv /\ TypeInv'
  BY MaintenanceType DEF LossInv
<1>2. Grows /\ WalKept
  BY DEF Grows, WalKept, BackoffElapses, CleanupOutbox
<1>3. RowsKept
  BY <1>1 DEF RowsKept, BackoffElapses, CleanupOutbox, OpenStatus,
     Drainable, TypeInv, TypeOK
<1>4. GroupOK' /\ RepDlqOK'
  BY DEF LossInv, GroupOK, RepDlqOK, repVars, BackoffElapses, CleanupOutbox
<1> QED BY <1>1, <1>2, <1>3, <1>4, LossKept DEF BackoffElapses, CleanupOutbox,
    callerVars, pubVars, repVars, tdrVars

(* Every step keeps the zero-loss invariant.                               *)
LEMMA NextLoss == Benign /\ LossInv /\ [Next]_vars => LossInv'
<1> SUFFICES ASSUME Benign, LossInv, [Next]_vars PROVE LossInv'
  OBVIOUS
<1>1. CASE UNCHANGED vars
  <2>1. TypeInv'
    BY NextType DEF LossInv
  <2>2. Grows /\ WalKept /\ RowsKept /\ GroupOK' /\ RepDlqOK'
    BY <1>1, UnchangedKeepsRows DEF Grows, WalKept, vars, outboxVars, repVars,
       LossInv, GroupOK, RepDlqOK
  <2> QED BY <1>1, <2>1, <2>2, LossKept DEF vars, callerVars, pubVars, repVars, tdrVars
<1>2. CASE Next
  BY <1>2, CallerLoss, PubLoss, RepLoss, TdrLoss, MaintenanceLoss DEF Next, Crash
<1> QED BY <1>1, <1>2

(* The zero-loss invariant holds in every reachable state.                 *)
LEMMA LossInvariant ==
  ASSUME Benign
  PROVE  Spec => []LossInv
<1>1. LossInv /\ [Next]_vars => LossInv'
  BY NextLoss
<1> QED BY <1>1, InitLoss, PTL DEF Spec

(* T-6: an accepted memory is never lost, whatever crashes, repeats or     *)
(* interleaves, in any deployment whose 2xx are honest, whose dead-letter  *)
(* stores are not both down, and whose consumer group has an offset.       *)
THEOREM OutboxZeroLoss ==
  ASSUME Benign
  PROVE  Spec => []ZeroLoss
<1>1. LossInv => ZeroLoss BY DEF LossInv
<1> QED BY <1>1, LossInvariant, PTL

(* The replicator never moves past a WAL message with a text and a tenant  *)
(* whose memory is neither in SomaBrain nor dead-lettered, with one of the *)
(* two dead-letter stores down, and with a crash between the two writes.   *)
THEOREM OutboxNoSilentConsume ==
  ASSUME Benign
  PROVE  Spec => NoSilentConsume
<1>1. ASSUME LossInv, [Next]_vars
      PROVE  [\A c \in Coord : wal'[c] < wal[c] /\ MemoryOf(c) \in Replayable
                 => Durable(MemoryOf(c))']_vars
  <2> SUFFICES ASSUME NEW c \in Coord, wal'[c] < wal[c],
                      MemoryOf(c) \in Replayable, Next
               PROVE  Durable(MemoryOf(c))'
    BY <1>1 DEF vars, MemoryOf
  <2>1. TypeInv
    BY <1>1 DEF LossInv
  <2>2. ASSUME wal' = wal PROVE FALSE
    BY <2>1, <2>2 DEF TypeInv, TypeOK
  <2>3. ASSUME NEW p \in Publishers, PubNext(p) PROVE FALSE
    <3>1. ASSUME NEW k \in Coord, Publish(k) PROVE FALSE
      BY <2>1, <3>1 DEF Publish, TypeInv, TypeOK
    <3> QED BY <2>2, <2>3, <3>1 DEF PubNext, PubLoad, LoadRows, PubMark, PubSend, PubTake, PubSendError
  <2>4. RepCommit
    <3>1. RepStart => FALSE
      BY <1>1 DEF RepStart, LossInv, GroupOK
    <3> QED BY <2>2, <2>3, <3>1 DEF Next, CallerNext, Call, AcceptOk,
        AcceptError, AcceptTimeout, LateAccept, Reaccept, Hop, Complete,
        RepNext, RepDeliver, RepInsert, RepAccept, RepHop, RepComplete,
        RepDlqPublish, RepDlqStore, TdrNext, TdrLoad, TdrPost, TdrMark,
        TdrPostError, BackoffElapses, CleanupOutbox, Crash, CallerCrash,
        PubCrash, RepCrash, TdrCrash
  <2>5. c = repSrc
    BY <2>1, <2>4 DEF RepCommit, TypeInv, TypeOK
  <2>6. Durable(MemoryOf(repSrc))
    BY <1>1, <2>4, <2>5 DEF RepCommit, RepStep, RepPlaced, LossInv,
       RepPlacedOK, Placed, Replayable
  <2> QED BY <2>4, <2>5, <2>6 DEF RepCommit, Durable, InBrain, MemoryOf
<1> QED BY <1>1, LossInvariant, PTL DEF Spec, NoSilentConsume

-----------------------------------------------------------------------------
(***************************************************************************)
(* Durable before hop: whatever the environment does, SomaBrain only holds *)
(* records whose outbox row was inserted first.  Everyone who may write to *)
(* SomaBrain, or lead someone else to, works from an accepted coord: a row *)
(* in the table, a WAL message, a caller past its accept, the replicator   *)
(* past its own, a row in a drain's hand.                                  *)
(***************************************************************************)

RowsAccepted == \A c \in Coord : status[c] # "absent" => c \in accepted
WalAccepted == \A c \in Coord : wal[c] > 0 => c \in accepted
CallersAccepted ==
    \A m \in Memories : caller[m] \in {"hop", "complete", "returned"} =>
        CallerCoord(m) \in accepted
RepAccepted == rep \in {"hop", "complete"} => repNew \in accepted
PubAccepted ==
    \A p \in Publishers : pubBatch[p] \cup ({pubSent[p]} \ {None}) \subseteq accepted
TdrAccepted ==
    \A d \in Drains : tdrBatch[d] \cup ({tdrSent[d]} \ {None}) \subseteq accepted

HopInv ==
    /\ TypeInv
    /\ RowsAccepted
    /\ WalAccepted
    /\ CallersAccepted
    /\ RepAccepted
    /\ PubAccepted
    /\ TdrAccepted
    /\ DurableBeforeHop

(* A row is inserted only together with its acceptance, which is never     *)
(* taken back.                                                             *)
RowsFollow ==
    /\ accepted \subseteq accepted'
    /\ RowsAccepted'

(* durable_accept_memory accepts the row it inserts.                       *)
LEMMA AcceptFollows ==
  ASSUME HopInv, NEW c \in Coord, DurableAccept(c)
  PROVE  RowsFollow /\ c \in accepted'
  BY DEF HopInv, TypeInv, TypeOK, RowsAccepted, RowsFollow, DurableAccept

(* mark_published is called on accepted rows only.                         *)
LEMMA PublishFollows ==
  ASSUME HopInv, NEW c \in accepted, MarkPublished(c), UNCHANGED accepted
  PROVE  RowsFollow
  BY DEF HopInv, TypeInv, TypeOK, RowsAccepted, RowsFollow, MarkPublished

(* So is mark_failed.                                                      *)
LEMMA FailFollows ==
  ASSUME HopInv, NEW c \in accepted, NEW seen, MarkFailed(c, seen),
         UNCHANGED accepted
  PROVE  RowsFollow
  BY DEF HopInv, TypeInv, TypeOK, RowsAccepted, RowsFollow, MarkFailed

(* Leaving the table alone is safe.                                        *)
LEMMA UnchangedFollows ==
  ASSUME HopInv, UNCHANGED <<status, accepted>>
  PROVE  RowsFollow
  BY DEF HopInv, RowsAccepted, RowsFollow

(* Steps of a caller: it hops only after its own accept.                   *)
LEMMA CallerHop ==
  ASSUME HopInv, NEW m \in Memories, CallerNext(m) \/ CallerCrash(m)
  PROVE  HopInv'
<1>1. TypeInv /\ TypeInv'
  BY CallerType, MaintenanceType DEF HopInv
<1>2. CallerCoord(m) \in Coord
  BY <1>1, CoordMade DEF TypeInv, TypeOK, CallerCoord
<1>3. ASSUME UNCHANGED <<wal, pubVars, repVars, tdrVars>>, RowsFollow,
             DurableBeforeHop', CallersAccepted'
      PROVE  HopInv'
  BY <1>1, <1>3 DEF HopInv, RowsFollow, WalAccepted, RepAccepted, PubAccepted,
     TdrAccepted, pubVars, repVars, tdrVars
<1>4. ASSUME UNCHANGED brain, RowsFollow PROVE DurableBeforeHop'
  BY <1>4 DEF HopInv, RowsFollow, DurableBeforeHop
<1>5. ASSUME NEW from, NEW to, Step(m, from, to), RowsFollow,
             to \in {"hop", "complete", "returned"} => CallerCoord(m)' \in accepted',
             \A n \in Memories \ {m} : stamp'[n] = stamp[n]
      PROVE  CallersAccepted'
  BY <1>1, <1>5 DEF HopInv, CallersAccepted, CallerCoord, Step, RowsFollow,
     TypeInv, TypeOK
<1>6. ASSUME UNCHANGED stamp PROVE CallerCoord(m)' = CallerCoord(m)
  BY <1>6 DEF CallerCoord
<1>7. ASSUME TakeStamp(m) PROVE \A n \in Memories \ {m} : stamp'[n] = stamp[n]
  BY <1>1, <1>7 DEF TakeStamp, TypeInv, TypeOK
<1>8. CASE Call(m)
  BY <1>3, <1>4, <1>5, <1>7, <1>8, UnchangedFollows DEF Call, outboxVars
<1>9. CASE AcceptOk(m)
  <2>1. RowsFollow /\ CallerCoord(m) \in accepted'
    BY <1>2, <1>9, AcceptFollows DEF AcceptOk
  <2> QED BY <1>3, <1>4, <1>5, <1>6, <1>9, <2>1 DEF AcceptOk
<1>10. CASE AcceptError(m)
  <2>1. RowsFollow
    BY <1>10, UnchangedFollows DEF AcceptError, outboxVars
  <2> QED BY <1>3, <1>4, <1>5, <1>7, <1>10, <2>1 DEF AcceptError
<1>11. CASE AcceptTimeout(m)
  BY <1>3, <1>4, <1>5, <1>11, UnchangedFollows DEF AcceptTimeout, outboxVars
<1>12. CASE LateAccept(m)
  <2>1. CASE Step(m, "detached", "returned") /\ DurableAccept(CallerCoord(m))
    <3>1. RowsFollow /\ CallerCoord(m) \in accepted'
      BY <1>2, <2>1, AcceptFollows
    <3> QED BY <1>3, <1>4, <1>5, <1>6, <1>12, <2>1, <3>1 DEF LateAccept
  <2>2. CASE Step(m, "detached", "unaccepted") /\ UNCHANGED <<outboxVars, accepted>>
    BY <1>3, <1>4, <1>5, <1>12, <2>2, UnchangedFollows DEF LateAccept, outboxVars
  <2> QED BY <1>12, <2>1, <2>2 DEF LateAccept
<1>13. CASE Reaccept(m)
  <2>1. CASE Step(m, "reaccept", "returned") /\ DurableAccept(CallerCoord(m))
    <3>1. RowsFollow /\ CallerCoord(m) \in accepted'
      BY <1>2, <2>1, AcceptFollows
    <3> QED BY <1>3, <1>4, <1>5, <1>6, <1>13, <2>1, <3>1 DEF Reaccept
  <2>2. CASE Step(m, "reaccept", "refused") /\ UNCHANGED <<outboxVars, accepted>>
    BY <1>3, <1>4, <1>5, <1>13, <2>2, UnchangedFollows DEF Reaccept, outboxVars
  <2> QED BY <1>13, <2>1, <2>2 DEF Reaccept
<1>14. CASE Hop(m)
  <2>1. CallerCoord(m) \in accepted /\ RowsFollow
    BY <1>14, UnchangedFollows DEF Hop, Step, HopInv, CallersAccepted, outboxVars
  <2>2. DurableBeforeHop'
    BY <1>2, <1>14, <2>1, KeyMade DEF Hop, HopInv, DurableBeforeHop
  <2>3. CallerCoord(m)' \in accepted'
    BY <1>6, <1>14, <2>1 DEF Hop
  <2> QED BY <1>3, <1>5, <1>14, <2>1, <2>2, <2>3 DEF Hop
<1>15. CASE Complete(m)
  <2>1. CallerCoord(m) \in accepted
    BY <1>15 DEF Complete, Step, HopInv, CallersAccepted
  <2>2. RowsFollow
    BY <1>15, <2>1, PublishFollows, UnchangedFollows DEF Complete, outboxVars
  <2>3. CallerCoord(m)' \in accepted'
    BY <1>6, <1>15, <2>1 DEF Complete
  <2> QED BY <1>3, <1>4, <1>5, <1>15, <2>2, <2>3 DEF Complete
<1>16. CASE CallerCrash(m)
  <2>1. RowsFollow
    BY <1>16, UnchangedFollows DEF CallerCrash, outboxVars
  <2>2. CallersAccepted'
    BY <1>1, <1>16 DEF CallerCrash, HopInv, CallersAccepted, CallerCoord,
       TypeInv, TypeOK
  <2> QED BY <1>3, <1>4, <1>16, <2>1, <2>2 DEF CallerCrash
<1> QED
  BY <1>8, <1>9, <1>10, <1>11, <1>12, <1>13, <1>14, <1>15, <1>16 DEF CallerNext

(* Steps of a publish_outbox run: it loads rows of the table.              *)
LEMMA PubHop ==
  ASSUME HopInv, NEW p \in Publishers, PubNext(p) \/ PubCrash(p)
  PROVE  HopInv'
<1> USE NoneAssumption
<1>1. TypeInv /\ TypeInv'
  BY PubType DEF HopInv
<1>2. ASSUME UNCHANGED <<callerVars, brain, repVars, tdrVars>>, RowsFollow,
             WalAccepted', PubAccepted'
      PROVE  HopInv'
  BY <1>1, <1>2 DEF HopInv, RowsFollow, CallersAccepted, CallerCoord,
     RepAccepted, TdrAccepted, DurableBeforeHop, callerVars, repVars, tdrVars
<1>3. CASE PubLoad(p)
  <2>1. RowsFollow /\ WalAccepted'
    BY <1>3, UnchangedFollows DEF PubLoad, LoadRows, outboxVars, HopInv,
       WalAccepted
  <2>2. PubAccepted'
    BY <1>1, <1>3 DEF PubLoad, LoadRows, HopInv, PubAccepted, RowsAccepted,
       Drainable, TypeInv, TypeOK
  <2> QED BY <1>2, <1>3, <2>1, <2>2 DEF PubLoad, LoadRows
<1>4. CASE PubMark(p)
  <2>1. pubSent[p] \in accepted
    BY <1>4 DEF PubMark, HopInv, PubAccepted
  <2>2. RowsFollow /\ WalAccepted'
    BY <1>4, <2>1, PublishFollows DEF PubMark, HopInv, WalAccepted
  <2>3. PubAccepted'
    BY <1>1, <1>4 DEF PubMark, HopInv, PubAccepted, TypeInv, TypeOK
  <2> QED BY <1>2, <1>4, <2>2, <2>3 DEF PubMark
<1>5. ASSUME NEW c \in Coord, PubTake(p, c), Publish(c) \/ UNCHANGED wal,
             UNCHANGED accepted
      PROVE  c \in accepted /\ WalAccepted'
  BY <1>1, <1>5 DEF PubTake, Publish, HopInv, PubAccepted, WalAccepted,
     TypeInv, TypeOK
<1>6. ASSUME NEW c \in Coord, PubSend(p, c) PROVE HopInv'
  <2>1. c \in accepted /\ WalAccepted'
    BY <1>5, <1>6 DEF PubSend
  <2>2. RowsFollow
    BY <1>6, UnchangedFollows DEF PubSend, outboxVars
  <2>3. PubAccepted'
    BY <1>1, <1>6, <2>1 DEF PubSend, PubTake, HopInv, PubAccepted, TypeInv, TypeOK
  <2> QED BY <1>2, <1>6, <2>1, <2>2, <2>3 DEF PubSend
<1>7. ASSUME NEW c \in Coord, PubSendError(p, c) PROVE HopInv'
  <2>1. c \in accepted /\ WalAccepted'
    BY <1>5, <1>7 DEF PubSendError
  <2>2. RowsFollow
    BY <1>7, <2>1, FailFollows DEF PubSendError
  <2>3. PubAccepted'
    BY <1>1, <1>7 DEF PubSendError, PubTake, HopInv, PubAccepted, TypeInv, TypeOK
  <2> QED BY <1>2, <1>7, <2>1, <2>2, <2>3 DEF PubSendError
<1>8. CASE PubCrash(p)
  <2>1. RowsFollow /\ WalAccepted'
    BY <1>8, UnchangedFollows DEF PubCrash, outboxVars, HopInv, WalAccepted
  <2>2. PubAccepted'
    BY <1>1, <1>8 DEF PubCrash, HopInv, PubAccepted, TypeInv, TypeOK
  <2> QED BY <1>2, <1>8, <2>1, <2>2 DEF PubCrash
<1> QED BY <1>3, <1>4, <1>6, <1>7, <1>8 DEF PubNext

(* Steps of the memory replicator: remember_text accepts before its hop.   *)
LEMMA RepHops ==
  ASSUME HopInv, RepNext \/ RepCrash
  PROVE  HopInv'
<1>1. TypeInv /\ TypeInv'
  BY RepType DEF HopInv
<1>2. ASSUME UNCHANGED <<caller, stamp, pubVars, tdrVars>>, RowsFollow,
             WalAccepted', RepAccepted', DurableBeforeHop'
      PROVE  HopInv'
  BY <1>1, <1>2 DEF HopInv, RowsFollow, CallersAccepted, CallerCoord,
     PubAccepted, TdrAccepted, pubVars, tdrVars
<1>3. ASSUME UNCHANGED wal, RowsFollow PROVE WalAccepted'
  BY <1>3 DEF HopInv, RowsFollow, WalAccepted
<1>4. ASSUME UNCHANGED brain, RowsFollow PROVE DurableBeforeHop'
  BY <1>4 DEF HopInv, RowsFollow, DurableBeforeHop
<1>5. ASSUME NEW c \in Coord, RepDeliver(c) PROVE HopInv'
  BY <1>2, <1>3, <1>4, <1>5, UnchangedFollows DEF RepDeliver, RepStep,
     RepAccepted, outboxVars, callerVars
<1>6. CASE RepInsert
  BY <1>2, <1>3, <1>4, <1>6, UnchangedFollows DEF RepInsert, RepStep,
     RepAccepted, outboxVars, callerVars
<1>7. CASE RepAccept
  <2> DEFINE m == MemoryOf(repSrc)
             c == <<m, clock[m]>>
  <2>1. CASE RepStep("sync", "hop") /\ clock[m] <= MaxStamp /\ repNew' = c
             /\ DurableAccept(c)
    <3>1. m \in Memories
      BY <1>1, <2>1, CoordParts DEF RepStep, TypeInv, RepOK
    <3>2. clock[m] \in 0..MaxStamp
      BY <1>1, <2>1, <3>1, ConstantsAssumption DEF TypeInv, TypeOK
    <3>3. c \in Coord
      BY <3>1, <3>2, CoordMade
    <3>4. RowsFollow /\ RepAccepted'
      BY <2>1, <3>3, AcceptFollows DEF RepAccepted
    <3> QED BY <1>2, <1>3, <1>4, <1>7, <3>4 DEF RepAccept
  <2>2. CASE /\ RepStep("sync", "dlq") \/ RepStep("sync", "commit")
             /\ UNCHANGED <<repNew, outboxVars, accepted>>
    BY <1>2, <1>3, <1>4, <1>7, <2>2, UnchangedFollows DEF RepAccept, RepStep,
       RepAccepted, outboxVars
  <2> QED BY <1>7, <2>1, <2>2 DEF RepAccept
<1>8. CASE RepHop
  <2>1. repNew \in accepted /\ repNew \in Coord
    BY <1>1, <1>8 DEF RepHop, RepStep, HopInv, RepAccepted, TypeInv, RepOK
  <2>2. RowsFollow /\ RepAccepted'
    BY <1>8, <2>1, UnchangedFollows DEF RepHop, RepAccepted, outboxVars
  <2>3. DurableBeforeHop'
    BY <1>8, <2>1, KeyMade DEF RepHop, HopInv, DurableBeforeHop
  <2> QED BY <1>2, <1>3, <1>8, <2>2, <2>3 DEF RepHop, callerVars
<1>9. CASE RepComplete
  <2>1. repNew \in accepted
    BY <1>9 DEF RepComplete, RepStep, HopInv, RepAccepted
  <2>2. RowsFollow
    BY <1>9, <2>1, PublishFollows, UnchangedFollows DEF RepComplete, outboxVars
  <2> QED BY <1>2, <1>3, <1>4, <1>9, <2>2 DEF RepComplete, RepStep, RepAccepted,
      callerVars
<1>10. CASE RepDlqPublish \/ RepDlqStore
  BY <1>2, <1>3, <1>4, <1>10, UnchangedFollows DEF RepDlqPublish, RepDlqStore,
     RepStep, RepAccepted, outboxVars, callerVars
<1>11. CASE RepCommit
  <2>1. WalAccepted'
    BY <1>1, <1>11 DEF RepCommit, RepStep, HopInv, WalAccepted, TypeInv, TypeOK,
       RepOK
  <2> QED BY <1>2, <1>4, <1>11, <2>1, UnchangedFollows DEF RepCommit, RepStep,
      RepAccepted, outboxVars, callerVars
<1>12. CASE RepCrash
  BY <1>2, <1>3, <1>4, <1>12, UnchangedFollows DEF RepCrash, RepAccepted,
     outboxVars, callerVars
<1>13. CASE RepStart
  <2>1. WalAccepted'
    BY <1>13 DEF RepStart, WalAccepted
  <2> QED BY <1>2, <1>4, <1>13, <2>1, UnchangedFollows DEF RepStart, HopInv,
      RepAccepted, outboxVars, callerVars
<1> QED
  BY <1>5, <1>6, <1>7, <1>8, <1>9, <1>10, <1>11, <1>12, <1>13 DEF RepNext

(* Steps of a drain_memory_wal_activity run: it posts rows of the table.   *)
LEMMA TdrHop ==
  ASSUME HopInv, NEW d \in Drains, TdrNext(d) \/ TdrCrash(d)
  PROVE  HopInv'
<1> USE NoneAssumption
<1>1. TypeInv /\ TypeInv'
  BY TdrType DEF HopInv
<1>2. ASSUME UNCHANGED <<callerVars, wal, pubVars, repVars>>, RowsFollow,
             TdrAccepted', DurableBeforeHop'
      PROVE  HopInv'
  BY <1>1, <1>2 DEF HopInv, RowsFollow, CallersAccepted, CallerCoord,
     RepAccepted, PubAccepted, WalAccepted, callerVars, repVars, pubVars
<1>3. ASSUME UNCHANGED brain, RowsFollow PROVE DurableBeforeHop'
  BY <1>3 DEF HopInv, RowsFollow, DurableBeforeHop
<1>4. CASE TdrLoad(d)
  <2>1. TdrAccepted'
    BY <1>1, <1>4 DEF TdrLoad, HopInv, TdrAccepted, RowsAccepted, Drainable,
       TypeInv, TypeOK
  <2> QED BY <1>2, <1>3, <1>4, <2>1, UnchangedFollows DEF TdrLoad, outboxVars
<1>5. CASE TdrMark(d)
  <2>1. tdrSent[d] \in accepted
    BY <1>5 DEF TdrMark, HopInv, TdrAccepted
  <2>2. RowsFollow
    BY <1>5, <2>1, PublishFollows DEF TdrMark
  <2>3. TdrAccepted'
    BY <1>1, <1>5 DEF TdrMark, HopInv, TdrAccepted, TypeInv, TypeOK
  <2> QED BY <1>2, <1>3, <1>5, <2>2, <2>3 DEF TdrMark
<1>6. ASSUME NEW c \in Coord, TdrTake(d, c) PROVE c \in accepted
  BY <1>6 DEF TdrTake, HopInv, TdrAccepted
<1>7. ASSUME NEW c \in Coord, TdrPost(d, c) PROVE HopInv'
  <2>1. c \in accepted /\ RowsFollow
    BY <1>6, <1>7, UnchangedFollows DEF TdrPost, outboxVars
  <2>2. TdrAccepted'
    BY <1>1, <1>7, <2>1 DEF TdrPost, TdrTake, HopInv, TdrAccepted, TypeInv, TypeOK
  <2>3. DurableBeforeHop'
    BY <1>7, <2>1, KeyMade DEF TdrPost, HopInv, DurableBeforeHop
  <2> QED BY <1>2, <1>7, <2>1, <2>2, <2>3 DEF TdrPost
<1>8. ASSUME NEW c \in Coord, TdrPostError(d, c) PROVE HopInv'
  <2>1. c \in accepted /\ RowsFollow
    BY <1>6, <1>8, UnchangedFollows DEF TdrPostError, outboxVars
  <2>2. TdrAccepted'
    BY <1>1, <1>8 DEF TdrPostError, TdrTake, HopInv, TdrAccepted, TypeInv, TypeOK
  <2>3. DurableBeforeHop'
    BY <1>8, <2>1, KeyMade DEF TdrPostError, HopInv, DurableBeforeHop
  <2> QED BY <1>2, <1>8, <2>1, <2>2, <2>3 DEF TdrPostError
<1>9. CASE TdrCrash(d)
  <2>1. TdrAccepted'
    BY <1>1, <1>9 DEF TdrCrash, HopInv, TdrAccepted, TypeInv, TypeOK
  <2> QED BY <1>2, <1>3, <1>9, <2>1, UnchangedFollows DEF TdrCrash, outboxVars
<1> QED BY <1>4, <1>5, <1>7, <1>8, <1>9 DEF TdrNext

(* Every step keeps the invariant.                                         *)
LEMMA NextHop == HopInv /\ [Next]_vars => HopInv'
<1> SUFFICES ASSUME HopInv, [Next]_vars PROVE HopInv'
  OBVIOUS
<1>1. CASE UNCHANGED vars
  <2>1. TypeInv'
    BY NextType DEF HopInv
  <2> QED BY <1>1, <2>1 DEF vars, outboxVars, callerVars, pubVars, repVars,
      tdrVars, HopInv, RowsAccepted, WalAccepted, CallersAccepted, CallerCoord,
      RepAccepted, PubAccepted, TdrAccepted, DurableBeforeHop
<1>2. ASSUME NEW c \in Coord, BackoffElapses(c) \/ CleanupOutbox(c)
      PROVE  HopInv'
  <2>1. TypeInv /\ TypeInv'
    BY <1>2, MaintenanceType DEF HopInv
  <2>2. RowsAccepted'
    BY <1>2, <2>1 DEF BackoffElapses, CleanupOutbox, HopInv, RowsAccepted,
       TypeInv, TypeOK
  <2> QED BY <1>2, <2>1, <2>2 DEF BackoffElapses, CleanupOutbox, callerVars,
      pubVars, repVars, tdrVars, HopInv, WalAccepted, CallersAccepted,
      CallerCoord, RepAccepted, PubAccepted, TdrAccepted, DurableBeforeHop
<1>3. CASE Next
  BY <1>2, <1>3, CallerHop, PubHop, RepHops, TdrHop DEF Next, Crash
<1> QED BY <1>1, <1>3

(* The invariant holds in every reachable state.                           *)
LEMMA HopInvariant == Spec => []HopInv
<1>1. Init => HopInv
  BY InitType, NoneAssumption DEF Init, HopInv, RowsAccepted, WalAccepted,
     CallersAccepted, RepAccepted, PubAccepted, TdrAccepted, DurableBeforeHop
<1> QED BY <1>1, NextHop, PTL DEF Spec

(* T-6, durable before hop: under every fault of the environment, no       *)
(* record reaches SomaBrain from remember_text, a replay or the drain      *)
(* unless durable_accept_memory inserted the row of its coord first.       *)
THEOREM OutboxDurableBeforeHop == Spec => []DurableBeforeHop
<1>1. HopInv => DurableBeforeHop BY DEF HopInv
<1> QED BY <1>1, HopInvariant, PTL

(* create_memory answers success only after an outbox insert succeeded,    *)
(* the first one or the one of its except branch.                          *)
THEOREM OutboxRestFailsClosed == Spec => []RestFailsClosed
<1>1. HopInv => RestFailsClosed
  <2> SUFFICES ASSUME HopInv, NEW m \in RestMemories, caller[m] = "returned"
               PROVE  m \in AcceptedMemories
    BY DEF RestFailsClosed
  <2>1. m \in Memories
    BY ConstantsAssumption
  <2>2. CallerCoord(m) \in accepted /\ MemoryOf(CallerCoord(m)) = m
    BY <2>1 DEF HopInv, CallersAccepted, CallerCoord, MemoryOf
  <2> QED BY <2>2 DEF AcceptedMemories
<1> QED BY <1>1, HopInvariant, PTL

-----------------------------------------------------------------------------
(***************************************************************************)
(* A blank memory reaches SomaBrain through its caller's hop only.  The    *)
(* caller's coord is that of its only hop: a later stamp is taken before   *)
(* any hop, so a blank record also means that its caller is past that      *)
(* point.                                                                  *)
(***************************************************************************)

BlankInv ==
    \A k \in brain : MemoryOf(k[2]) \in Blank =>
        /\ k = MaterialKey(CallerCoord(MemoryOf(k[2])))
        /\ caller[MemoryOf(k[2])] \notin {"idle", "accept"}

(* A caller's step adds its own record, or moves on with its stamp.        *)
LEMMA CallerBlank ==
  ASSUME TypeInv, BlankInv, NEW m \in Memories, CallerNext(m) \/ CallerCrash(m)
  PROVE  BlankInv'
<1>1. /\ \A n \in Memories \ {m} : stamp'[n] = stamp[n] /\ caller'[n] = caller[n]
      /\ caller[m] \notin {"idle", "accept"} =>
            stamp'[m] = stamp[m] /\ caller'[m] \notin {"idle", "accept"}
  <2>1. /\ \A n \in Memories \ {m} : stamp'[n] = stamp[n]
        /\ caller[m] \notin {"idle", "accept"} => stamp'[m] = stamp[m]
    <3>1. ASSUME TakeStamp(m), caller[m] \in {"idle", "accept"}
          PROVE  /\ \A n \in Memories \ {m} : stamp'[n] = stamp[n]
                 /\ caller[m] \notin {"idle", "accept"} => stamp'[m] = stamp[m]
      BY <3>1 DEF TypeInv, TypeOK, TakeStamp
    <3>2. UNCHANGED stamp \/ (TakeStamp(m) /\ caller[m] \in {"idle", "accept"})
      BY DEF CallerNext, CallerCrash, Call, AcceptOk, AcceptError,
         AcceptTimeout, LateAccept, Reaccept, Hop, Complete, Step
    <3> QED BY <3>1, <3>2
  <2>2. ASSUME NEW from, NEW to, Step(m, from, to), to \notin {"idle", "accept"}
        PROVE  /\ \A n \in Memories \ {m} : caller'[n] = caller[n]
               /\ caller'[m] \notin {"idle", "accept"}
    BY <2>2 DEF TypeInv, TypeOK, Step
  <2>5. \/ Call(m) \/ CallerCrash(m)
        \/ \E from : \E to : Step(m, from, to) /\ to \notin {"idle", "accept"}
    BY DEF CallerNext, AcceptOk, AcceptError, AcceptTimeout, LateAccept,
       Reaccept, Hop, Complete
  <2>6. ASSUME Call(m) \/ CallerCrash(m)
               \/ \E from : \E to : Step(m, from, to) /\ to \notin {"idle", "accept"}
        PROVE  /\ \A n \in Memories \ {m} : caller'[n] = caller[n]
               /\ caller[m] \notin {"idle", "accept"} => caller'[m] \notin {"idle", "accept"}
    <3>1. CASE Call(m)
      BY <3>1 DEF TypeInv, TypeOK, Call, Step
    <3>2. CASE CallerCrash(m)
      BY <3>2 DEF TypeInv, TypeOK, CallerCrash
    <3>3. CASE \E from : \E to : Step(m, from, to) /\ to \notin {"idle", "accept"}
      BY <2>2, <3>3
    <3> QED BY <2>6, <3>1, <3>2, <3>3
  <2> QED BY <2>1, <2>5, <2>6
<1>2. \A k \in brain' : \/ k \in brain
                        \/ /\ k = MaterialKey(CallerCoord(m)) /\ caller[m] = "hop"
  BY DEF CallerNext, CallerCrash, Call, AcceptOk, AcceptError, AcceptTimeout,
     LateAccept, Reaccept, Hop, Complete, Step
<1>3. CallerCoord(m) \in Coord /\ MemoryOf(CallerCoord(m)) = m
  BY CoordMade DEF TypeInv, TypeOK, CallerCoord
<1> SUFFICES ASSUME NEW k \in brain', MemoryOf(k[2]) \in Blank
             PROVE  /\ k = MaterialKey(<<MemoryOf(k[2]), stamp'[MemoryOf(k[2])]>>)
                    /\ caller'[MemoryOf(k[2])] \notin {"idle", "accept"}
  BY DEF BlankInv, CallerCoord, MaterialKey, MemoryOf
<1>4. MemoryOf(k[2]) \in Memories
  BY ConstantsAssumption
<1>5. CASE k \in brain
  <2>1. /\ k = MaterialKey(<<MemoryOf(k[2]), stamp[MemoryOf(k[2])]>>)
        /\ caller[MemoryOf(k[2])] \notin {"idle", "accept"}
    BY <1>5 DEF BlankInv, CallerCoord
  <2> QED BY <1>1, <1>4, <2>1
<1>6. CASE k = MaterialKey(CallerCoord(m)) /\ caller[m] = "hop"
  <2>1. MemoryOf(k[2]) = m
    BY <1>3, <1>6, KeyMade
  <2>2. stamp'[m] = stamp[m] /\ caller'[m] \notin {"idle", "accept"}
    BY <1>1, <1>6
  <2> QED BY <1>6, <2>1, <2>2 DEF CallerCoord
<1> QED BY <1>2, <1>5, <1>6

(* The replicator and the drain write records of memories that are not     *)
(* blank, and nobody else writes one.                                      *)
LEMMA OthersBlank ==
  ASSUME TypeInv, BlankInv, UNCHANGED <<caller, stamp>>,
         \A k \in brain' : k \in brain \/ MemoryOf(k[2]) \notin Blank
  PROVE  BlankInv'
  BY DEF BlankInv, CallerCoord, MaterialKey, MemoryOf

(* Both replay paths agree on what is not a memory: a write without a text *)
(* or a tenant reaches SomaBrain through its caller's own hop or never.    *)
THEOREM OutboxBlankIsNotReplayed == Spec => []BlankIsNotReplayed
<1>1. Init => BlankInv
  BY DEF Init, BlankInv
<1>2. TypeInv /\ BlankInv /\ [Next]_vars => BlankInv'
  <2> SUFFICES ASSUME TypeInv, BlankInv, [Next]_vars PROVE BlankInv'
    OBVIOUS
  <2>1. CASE UNCHANGED vars
    BY <2>1, OthersBlank DEF vars, callerVars
  <2>2. ASSUME NEW m \in Memories, CallerNext(m) \/ CallerCrash(m) PROVE BlankInv'
    BY <2>2, CallerBlank
  <2>3. ASSUME NEW p \in Publishers, PubNext(p) \/ PubCrash(p) PROVE BlankInv'
    BY <2>3, OthersBlank DEF PubNext, PubLoad, LoadRows, PubMark, PubSend,
       PubSendError, PubCrash, callerVars
  <2>4. CASE RepHop
    <3>1. repNew \in Coord /\ MemoryOf(repNew) \notin Blank
      BY <2>4 DEF RepHop, RepStep, TypeInv, RepOK
    <3>2. \A k \in brain' : k \in brain \/ k = MaterialKey(repNew)
      BY <2>4 DEF RepHop
    <3>3. \A k \in brain' : k \in brain \/ MemoryOf(k[2]) \notin Blank
      BY <3>1, <3>2, KeyMade
    <3> QED BY <2>4, <3>3, OthersBlank DEF RepHop, callerVars
  <2>5. ASSUME RepNext \/ RepCrash, ~RepHop PROVE BlankInv'
    BY <2>5, OthersBlank DEF RepNext, RepStart, RepDeliver, RepInsert,
       RepAccept, RepComplete, RepDlqPublish, RepDlqStore, RepCommit, RepCrash,
       callerVars
  <2>6. ASSUME NEW d \in Drains, NEW c \in Coord, TdrPost(d, c) \/ TdrPostError(d, c)
        PROVE  BlankInv'
    <3>1. \A k \in brain' : k \in brain \/ (k = MemKey(c) /\ MemoryOf(c) \notin Blank)
      BY <2>6 DEF TdrPost, TdrPostError
    <3>2. \A k \in brain' : k \in brain \/ MemoryOf(k[2]) \notin Blank
      BY <3>1, KeyMade
    <3> QED BY <2>6, <3>2, OthersBlank DEF TdrPost, TdrPostError, callerVars
  <2>7. ASSUME NEW d \in Drains, TdrLoad(d) \/ TdrMark(d) \/ TdrCrash(d)
        PROVE  BlankInv'
    BY <2>7, OthersBlank DEF TdrLoad, TdrMark, TdrCrash, callerVars
  <2>8. ASSUME NEW c \in Coord, BackoffElapses(c) \/ CleanupOutbox(c)
        PROVE  BlankInv'
    BY <2>8, OthersBlank DEF BackoffElapses, CleanupOutbox, callerVars
  <2> QED BY <2>1, <2>2, <2>3, <2>4, <2>5, <2>6, <2>7, <2>8
      DEF Next, TdrNext, Crash
<1>3. BlankInv => BlankIsNotReplayed
  BY DEF BlankInv, BlankIsNotReplayed
<1> QED BY <1>1, <1>2, <1>3, TypeInvariant, PTL DEF Spec

-----------------------------------------------------------------------------
(***************************************************************************)
(* The write path implements AtLeastOnce.  Each step is about one memory:  *)
(* it changes rows, or hands the memory off.  Only mark_failed after a     *)
(* publish of unknown outcome can do both, and then the memory was already *)
(* handed off or still has an open row, because its row was accepted.      *)
(***************************************************************************)

(* A step that changes neither rows, nor acceptances, nor what is handed   *)
(* off, is a stutter.                                                      *)
LEMMA PromiseStutters ==
  ASSUME UNCHANGED <<status, brain, wal, dlq, accepted>>
  PROVE  UNCHANGED Promise!vars
  BY DEF Promise!vars, AcceptedMemories, HasOpenRow, HandedOff, Durable, InBrain

(* A step about the rows of one memory: acceptance, closing or reopening.  *)
LEMMA RowStep ==
  ASSUME LossInv, LossInv', NEW m \in Memories,
         UNCHANGED <<brain, wal, dlq>>, RowsKept,
         \A c \in Coord : MemoryOf(c) # m => status'[c] = status[c],
         accepted \subseteq accepted',
         \A c \in accepted' : c \in accepted \/ MemoryOf(c) = m,
         \/ UNCHANGED accepted
         \/ \A c \in Coord : status[c] \in OpenStatus => status'[c] \in OpenStatus
  PROVE  [Promise!Next]_(Promise!vars)
<1> DEFINE A == AcceptedMemories \cap Replayable
<1>1. \A n : HandedOff(n)' <=> HandedOff(n)
  BY DEF HandedOff, Durable, InBrain
<1>2. \A n \in Memories \ {m} : HasOpenRow(n)' <=> HasOpenRow(n)
  BY DEF HasOpenRow
<1>3. A \subseteq A' /\ A' \subseteq A \cup {m}
  BY DEF AcceptedMemories
<1>4. CASE m \in Blank
  <2>1. A' = A
    BY <1>3, <1>4 DEF Replayable
  <2>2. \A n \in Replayable : HasOpenRow(n)' <=> HasOpenRow(n)
    BY <1>2, <1>4 DEF Replayable
  <2> QED BY <1>1, <2>1, <2>2 DEF Promise!vars
<1> SUFFICES ASSUME m \notin Blank PROVE [Promise!Next]_(Promise!vars)
  BY <1>4
<1>8. m \in Replayable /\ \A n \in Replayable \ {m} : HasOpenRow(n)' <=> HasOpenRow(n)
  BY <1>2 DEF Replayable
<1>9. m \in A' => HandedOff(m) \/ HasOpenRow(m)'
  BY <1>1 DEF LossInv, ZeroLoss
<1>5. ASSUME HasOpenRow(m), ~HasOpenRow(m)'
      PROVE  HandedOff(m) /\ UNCHANGED A
  <2>1. PICK c \in Coord : MemoryOf(c) = m /\ status[c] \in OpenStatus
    BY <1>5 DEF HasOpenRow
  <2>2. status'[c] \notin OpenStatus
    BY <1>5, <2>1 DEF HasOpenRow
  <2>3. status'[c] = "published" /\ status[c] # "published"
    BY <2>1, <2>2 DEF RowsKept, OpenStatus, Drainable
  <2>4. HandedOff(MemoryOf(c))'
    BY <2>1, <2>3 DEF RowsKept, Passed, HandedOff, Durable, InBrain, MemoryOf
  <2>5. UNCHANGED accepted
    BY <2>1, <2>2
  <2> QED BY <1>1, <2>1, <2>4, <2>5 DEF AcceptedMemories, HandedOff, Durable, InBrain
<1>6. CASE A' # A
  <2>1. Promise!Accept(m)
    BY <1>1, <1>3, <1>5, <1>6, <1>8, <1>9 DEF Promise!Accept
  <2> QED BY <1>8, <2>1 DEF Promise!Next
<1>7. CASE A' = A
  <2>1. CASE HasOpenRow(m)' <=> HasOpenRow(m)
    BY <1>1, <1>7, <1>8, <2>1 DEF Promise!vars
  <2>2. CASE HasOpenRow(m)' /\ ~HasOpenRow(m)
    <3>1. Promise!Keep(m)
      BY <1>1, <1>7, <1>8, <2>2 DEF Promise!Keep
    <3> QED BY <1>8, <3>1 DEF Promise!Next
  <2>3. CASE ~HasOpenRow(m)' /\ HasOpenRow(m)
    <3>1. Promise!Release(m)
      BY <1>1, <1>5, <1>7, <1>8, <2>3 DEF Promise!Release
    <3> QED BY <1>8, <3>1 DEF Promise!Next
  <2> QED BY <2>1, <2>2, <2>3
<1> QED BY <1>6, <1>7

(* A step that hands one memory off, and leaves the rows open or closed.   *)
LEMMA HandOffStep ==
  ASSUME NEW m \in Memories, UNCHANGED accepted,
         \A n \in Replayable : HasOpenRow(n)' <=> HasOpenRow(n),
         Grows, WalKept,
         \A k \in brain' : k \in brain \/ MemoryOf(k[2]) = m,
         \A c \in dlq' : c \in dlq \/ MemoryOf(c) = m,
         \A c \in Coord : wal'[c] > 0 => wal[c] > 0 \/ MemoryOf(c) = m
  PROVE  [Promise!Next]_(Promise!vars)
<1>1. \A n \in Replayable \ {m} : HandedOff(n)' => HandedOff(n)
  BY DEF HandedOff, Durable, InBrain
<1>2. \A n \in Replayable : HandedOff(n) => HandedOff(n)'
  <2>1. \A n : Passed(n) => Passed(n)'
    BY PassedKept
  <2> QED BY <2>1 DEF Passed, Replayable
<1>3. UNCHANGED AcceptedMemories
  BY DEF AcceptedMemories
<1>4. CASE m \in Replayable => (HandedOff(m)' => HandedOff(m))
  BY <1>1, <1>2, <1>3, <1>4 DEF Promise!vars
<1>5. CASE m \in Replayable /\ HandedOff(m)'
  <2>1. Promise!Deliver(m)
    BY <1>1, <1>2, <1>3, <1>5 DEF Promise!Deliver
  <2> QED BY <1>5, <2>1 DEF Promise!Next
<1> QED BY <1>4, <1>5

(* durable_accept_memory of one of the memory's coords.                    *)
LEMMA AcceptStep ==
  ASSUME LossInv, LossInv', NEW c \in Coord, DurableAccept(c),
         UNCHANGED <<brain, wal, dlq>>
  PROVE  [Promise!Next]_(Promise!vars)
<1>1. TypeInv /\ MemoryOf(c) \in Memories
  BY CoordParts DEF LossInv
<1>2. RowsKept
  BY <1>1, AcceptKeepsRows
<1>3. /\ \A k \in Coord : MemoryOf(k) # MemoryOf(c) => status'[k] = status[k]
      /\ \A k \in Coord : status[k] \in OpenStatus => status'[k] \in OpenStatus
      /\ accepted' = accepted \cup {c}
  BY <1>1 DEF DurableAccept, TypeInv, TypeOK, OpenStatus, Drainable
<1> QED BY <1>1, <1>2, <1>3, RowStep

(* mark_published of a row whose memory has been handed off or is blank.   *)
LEMMA PublishStep ==
  ASSUME LossInv, LossInv', NEW c \in Coord, MarkPublished(c),
         Passed(MemoryOf(c)), UNCHANGED <<brain, wal, dlq, accepted>>
  PROVE  [Promise!Next]_(Promise!vars)
<1>1. TypeInv /\ MemoryOf(c) \in Memories
  BY CoordParts DEF LossInv
<1>2. Passed(MemoryOf(c))'
  BY DEF Passed, HandedOff, Durable, InBrain, MemoryOf
<1>3. RowsKept
  BY <1>1, <1>2, PublishKeepsRows
<1>4. \A k \in Coord : MemoryOf(k) # MemoryOf(c) => status'[k] = status[k]
  BY <1>1 DEF MarkPublished, TypeInv, TypeOK
<1> QED BY <1>1, <1>3, <1>4, RowStep

(* A record is written to SomaBrain.                                       *)
LEMMA RecordStep ==
  ASSUME NEW c \in Coord, NEW k \in Key, k[2] = c,
         brain' \in {brain, brain \cup {k}},
         UNCHANGED <<status, wal, dlq, accepted>>
  PROVE  [Promise!Next]_(Promise!vars)
<1>1. MemoryOf(c) \in Memories
  BY CoordParts
<1>2. Grows /\ WalKept /\ \A n \in Replayable : HasOpenRow(n)' <=> HasOpenRow(n)
  BY DEF Grows, WalKept, HasOpenRow
<1>3. \A j \in brain' : j \in brain \/ MemoryOf(j[2]) = MemoryOf(c)
  OBVIOUS
<1> QED BY <1>1, <1>2, <1>3, HandOffStep

(* Every step of the write path is a step of AtLeastOnce or a stutter.     *)
LEMMA PromiseStep ==
  ASSUME Benign, LossInv, LossInv', HopInv, [Next]_vars
  PROVE  [Promise!Next]_(Promise!vars)
<1> USE NoneAssumption
<1>1. TypeInv /\ TypeInv'
  BY DEF LossInv
<1>2. ASSUME NEW m \in Memories, CallerNext(m)
      PROVE  [Promise!Next]_(Promise!vars)
  <2>1. CallerCoord(m) \in Coord /\ MemoryOf(CallerCoord(m)) = m
    BY <1>1, CoordMade DEF TypeInv, TypeOK, CallerCoord
  <2>2. CASE Call(m) \/ AcceptError(m) \/ AcceptTimeout(m)
    BY <2>2, PromiseStutters DEF Call, AcceptError, AcceptTimeout, outboxVars
  <2>3. CASE AcceptOk(m)
    BY <2>1, <2>3, AcceptStep DEF AcceptOk
  <2>4. CASE LateAccept(m)
    BY <2>1, <2>4, AcceptStep, PromiseStutters DEF LateAccept, outboxVars
  <2>5. CASE Reaccept(m)
    BY <2>1, <2>5, AcceptStep, PromiseStutters DEF Reaccept, outboxVars
  <2>6. CASE Hop(m)
    <3>1. brain' \in {brain, brain \cup {MaterialKey(CallerCoord(m))}}
      BY <2>6 DEF Hop
    <3> QED BY <2>1, <2>6, <3>1, KeyMade, RecordStep DEF Hop, outboxVars
  <2>7. CASE Complete(m)
    <3>1. Passed(MemoryOf(CallerCoord(m)))
      BY <2>1, <2>7 DEF Complete, Step, LossInv, CallerOK, Placed, Passed, HandedOff
    <3> QED BY <2>1, <2>7, <3>1, PublishStep, PromiseStutters DEF Complete, outboxVars
  <2> QED BY <1>2, <2>2, <2>3, <2>4, <2>5, <2>6, <2>7 DEF CallerNext
<1>3. ASSUME NEW p \in Publishers, PubNext(p)
      PROVE  [Promise!Next]_(Promise!vars)
  <2>1. CASE PubLoad(p)
    BY <2>1, PromiseStutters DEF PubLoad, LoadRows, outboxVars
  <2>2. CASE PubMark(p)
    <3>1. PICK c \in Coord : c = pubSent[p]
      BY <1>1, <2>2 DEF PubMark, TypeInv, TypeOK
    <3>2. Passed(MemoryOf(c))
      BY <3>1 DEF LossInv, PubSentOK
    <3> QED BY <2>2, <3>1, <3>2, PublishStep DEF PubMark
  (* A publish adds a message of its own memory only.                      *)
  <2>3. ASSUME NEW c \in Coord, Publish(c) \/ UNCHANGED wal, UNCHANGED <<brain, dlq>>
        PROVE  /\ Grows /\ WalKept
               /\ \A k \in Coord : wal'[k] > 0 => wal[k] > 0 \/ MemoryOf(k) = MemoryOf(c)
    <3>1. Grows
      BY <2>3 DEF Grows
    <3>2. CASE UNCHANGED wal
      BY <3>1, <3>2 DEF WalKept
    <3>3. CASE Publish(c)
      BY <1>1, <3>1, <3>3 DEF Publish, WalKept, TypeInv, TypeOK
    <3> QED BY <2>3, <3>2, <3>3
  <2>4. ASSUME NEW c \in Coord, PubSend(p, c) PROVE [Promise!Next]_(Promise!vars)
    <3>1. /\ Grows /\ WalKept /\ UNCHANGED <<status, accepted, brain, dlq>>
          /\ \A k \in Coord : wal'[k] > 0 => wal[k] > 0 \/ MemoryOf(k) = MemoryOf(c)
      BY <2>3, <2>4 DEF PubSend, outboxVars
    <3>2. \A n \in Replayable : HasOpenRow(n)' <=> HasOpenRow(n)
      BY <3>1 DEF HasOpenRow
    <3> QED BY <3>1, <3>2, CoordParts, HandOffStep
  <2>5. ASSUME NEW c \in Coord, PubSendError(p, c) PROVE [Promise!Next]_(Promise!vars)
    <3> DEFINE m == MemoryOf(c)
    <3>1. /\ Grows /\ WalKept /\ UNCHANGED <<accepted, brain, dlq>>
          /\ \A k \in Coord : wal'[k] > 0 => wal[k] > 0 \/ MemoryOf(k) = m
      BY <2>3, <2>5 DEF PubSendError
    <3>2. /\ status'[c] \in OpenStatus
          /\ \A k \in Coord : k # c => status'[k] = status[k]
      BY <1>1, <2>5 DEF PubSendError, MarkFailed, TypeInv, TypeOK, OpenStatus, Drainable
    <3>3. m \in Memories /\ m \in AcceptedMemories
      BY <2>5, CoordParts DEF PubSendError, PubTake, HopInv, PubAccepted, AcceptedMemories
    <3>4. HasOpenRow(m)' /\ \A n \in Memories \ {m} : HasOpenRow(n)' <=> HasOpenRow(n)
      BY <3>2 DEF HasOpenRow, MemoryOf
    <3>5. CASE m \in Blank \/ HasOpenRow(m)
      <4>1. \A n \in Replayable : HasOpenRow(n)' <=> HasOpenRow(n)
        BY <3>4, <3>5 DEF Replayable
      <4> QED BY <3>1, <3>3, <4>1, HandOffStep
    <3>6. CASE m \notin Blank /\ ~HasOpenRow(m)
      <4>1. m \in Replayable /\ HandedOff(m)
        BY <3>3, <3>6 DEF LossInv, ZeroLoss, Replayable
      <4>2. \A n \in Replayable : HandedOff(n)' <=> HandedOff(n)
        <5>1. \A n : Passed(n) => Passed(n)'
          BY <3>1, PassedKept
        <5>2. \A n \in Replayable : HandedOff(n) => HandedOff(n)'
          BY <5>1 DEF Passed, Replayable
        <5>3. \A n \in Replayable \ {m} : HandedOff(n)' => HandedOff(n)
          BY <3>1 DEF HandedOff, Durable, InBrain
        <5> QED BY <4>1, <5>2, <5>3
      <4>3. \A n \in Replayable \ {m} : HasOpenRow(n)' <=> HasOpenRow(n)
        BY <3>4 DEF Replayable
      <4>4. UNCHANGED AcceptedMemories
        BY <3>1 DEF AcceptedMemories
      <4>5. Promise!Keep(m)
        BY <3>4, <3>6, <4>1, <4>2, <4>3, <4>4 DEF Promise!Keep
      <4> QED BY <4>1, <4>5 DEF Promise!Next
    <3> QED BY <3>5, <3>6
  <2> QED BY <1>3, <2>1, <2>2, <2>4, <2>5 DEF PubNext
<1>4. CASE RepNext
  <2>1. rep # "idle" => repSrc \in Coord /\ MemoryOf(repSrc) \in Memories
    BY <1>1, CoordParts DEF TypeInv, RepOK
  <2>2. CASE RepInsert \/ \E c \in Coord : RepDeliver(c)
    BY <2>2, PromiseStutters DEF RepInsert, RepDeliver, outboxVars
  <2>3. CASE RepAccept
    <3> DEFINE m == MemoryOf(repSrc)
               c == <<m, clock[m]>>
    <3>1. CASE RepStep("sync", "hop") /\ clock[m] <= MaxStamp /\ DurableAccept(c)
      <4>1. m \in Memories
        BY <2>1, <3>1 DEF RepStep
      <4>2. clock[m] \in 0..MaxStamp
        BY <1>1, <3>1, <4>1, ConstantsAssumption DEF TypeInv, TypeOK
      <4>3. c \in Coord
        BY <4>1, <4>2, CoordMade
      <4> QED BY <2>3, <3>1, <4>3, AcceptStep DEF RepAccept
    <3>2. CASE UNCHANGED <<clock, repNew, outboxVars, accepted>>
      BY <2>3, <3>2, PromiseStutters DEF RepAccept, outboxVars
    <3> QED BY <2>3, <3>1, <3>2 DEF RepAccept
  <2>4. CASE RepHop
    <3>1. repNew \in Coord /\ brain' \in {brain, brain \cup {MaterialKey(repNew)}}
      BY <1>1, <2>4 DEF RepHop, RepStep, TypeInv, RepOK
    <3> QED BY <2>4, <3>1, KeyMade, RecordStep DEF RepHop, outboxVars
  <2>5. CASE RepComplete
    <3>1. PICK c \in Coord : c = repNew /\ MemoryOf(c) = MemoryOf(repSrc)
      BY <1>1, <2>5 DEF RepComplete, RepStep, TypeInv, RepOK
    <3>2. Passed(MemoryOf(c))
      BY <2>5, <3>1 DEF RepComplete, RepStep, RepPlaced, LossInv, RepPlacedOK,
         Placed, Passed, HandedOff
    <3> QED BY <2>5, <3>1, <3>2, PublishStep, PromiseStutters DEF RepComplete, outboxVars
  <2>6. CASE RepDlqPublish \/ RepDlqStore
    <3>1. MemoryOf(repSrc) \in Memories /\ dlq' \in {dlq, dlq \cup {repSrc}}
      BY <2>1, <2>6 DEF RepDlqPublish, RepDlqStore, RepStep
    <3>2. UNCHANGED <<status, brain, wal, accepted>>
      BY <2>6 DEF RepDlqPublish, RepDlqStore, outboxVars
    <3>3. Grows /\ WalKept /\ \A n \in Replayable : HasOpenRow(n)' <=> HasOpenRow(n)
      BY <3>1, <3>2 DEF Grows, WalKept, HasOpenRow
    <3> QED BY <3>1, <3>2, <3>3, HandOffStep
  <2>7. CASE RepCommit
    <3>1. MemoryOf(repSrc) \in Memories /\ Placed(MemoryOf(repSrc))
      BY <2>1, <2>7 DEF RepCommit, RepStep, RepPlaced, LossInv, RepPlacedOK
    <3>2. UNCHANGED <<status, brain, dlq, accepted>>
      BY <2>7 DEF RepCommit, outboxVars
    <3>3. \A k \in Coord : /\ wal'[k] > 0 => wal[k] > 0
                           /\ wal[k] > 0 => wal'[k] > 0 \/ k = repSrc
      BY <1>1, <2>7 DEF RepCommit, RepStep, TypeInv, TypeOK, RepOK
    <3>4. Grows /\ \A n \in Replayable : HasOpenRow(n)' <=> HasOpenRow(n)
      BY <3>2 DEF Grows, HasOpenRow
    <3>5. WalKept
      <4> SUFFICES ASSUME NEW k \in Coord, wal[k] > 0, ~(wal'[k] > 0)
                   PROVE  Placed(MemoryOf(k))'
        BY DEF WalKept
      <4>1. k = repSrc
        BY <3>3
      <4> QED BY <3>1, <3>2, <4>1 DEF Placed, Durable, InBrain, MemoryOf
    <3> QED BY <3>1, <3>2, <3>3, <3>4, <3>5, HandOffStep
  <2>8. RepStart => FALSE
    BY DEF RepStart, LossInv, GroupOK
  <2> QED BY <1>4, <2>2, <2>3, <2>4, <2>5, <2>6, <2>7, <2>8 DEF RepNext
<1>5. ASSUME NEW d \in Drains, TdrNext(d)
      PROVE  [Promise!Next]_(Promise!vars)
  <2>1. CASE TdrLoad(d)
    BY <2>1, PromiseStutters DEF TdrLoad, outboxVars
  <2>2. CASE TdrMark(d)
    <3>1. PICK c \in Coord : c = tdrSent[d]
      BY <1>1, <2>2 DEF TdrMark, TypeInv, TypeOK
    <3>2. Passed(MemoryOf(c))
      BY <3>1 DEF LossInv, TdrSentOK, Placed, Passed, HandedOff
    <3> QED BY <2>2, <3>1, <3>2, PublishStep DEF TdrMark
  <2>3. ASSUME NEW c \in Coord, TdrPost(d, c) \/ TdrPostError(d, c)
        PROVE  [Promise!Next]_(Promise!vars)
    <3>1. brain' \in {brain, brain \cup {MemKey(c)}}
      BY <2>3 DEF TdrPost, TdrPostError
    <3> QED BY <2>3, <3>1, KeyMade, RecordStep DEF TdrPost, TdrPostError, outboxVars
  <2> QED BY <1>5, <2>1, <2>2, <2>3 DEF TdrNext
<1>6. ASSUME NEW c \in Coord, BackoffElapses(c) \/ CleanupOutbox(c)
      PROVE  [Promise!Next]_(Promise!vars)
  <2>1. \A k \in Coord : status'[k] \in OpenStatus <=> status[k] \in OpenStatus
    BY <1>1, <1>6 DEF BackoffElapses, CleanupOutbox, OpenStatus, Drainable, TypeInv, TypeOK
  <2>2. UNCHANGED <<brain, wal, dlq, accepted>>
    BY <1>6 DEF BackoffElapses, CleanupOutbox
  <2> QED BY <2>1, <2>2 DEF Promise!vars, AcceptedMemories, HasOpenRow, HandedOff,
      Durable, InBrain
<1>7. CASE Crash \/ UNCHANGED vars
  BY <1>7, PromiseStutters DEF Crash, CallerCrash, PubCrash, RepCrash, TdrCrash,
     vars, outboxVars
<1> QED BY <1>2, <1>3, <1>4, <1>5, <1>6, <1>7 DEF Next

(* T-6 as a refinement: gateway, table, WAL, replicator and both drains    *)
(* together implement at-least-once delivery of every memory with a text   *)
(* and a tenant, for every number of crashes, in a benign deployment.      *)
THEOREM OutboxPromiseKept ==
  ASSUME Benign
  PROVE  Spec => OutboxKeepsPromise
<1>1. Init => Promise!Init
  BY DEF Init, Promise!Init, AcceptedMemories, HasOpenRow, HandedOff, Durable,
     InBrain, OpenStatus, Drainable
<1>2. LossInv /\ LossInv' /\ HopInv /\ [Next]_vars => [Promise!Next]_(Promise!vars)
  BY PromiseStep
<1> QED BY <1>1, <1>2, LossInvariant, HopInvariant, PTL
    DEF Spec, OutboxKeepsPromise, Promise!Spec

=============================================================================
