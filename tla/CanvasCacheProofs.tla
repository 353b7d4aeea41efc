------------------------- MODULE CanvasCacheProofs -------------------------
(***************************************************************************)
(* Proofs about CanvasCache for any walls, back ends, batches and number   *)
(* of workers, clears and restarts.                                        *)
(***************************************************************************)
EXTENDS CanvasCache, FiniteSetTheorems, FunctionTheorems, TLAPS

BatchType == [queue : SUBSET Keys, workers : [Workers -> WorkType], count : Nat]

-----------------------------------------------------------------------------
(* What the steps do to the places where a thumbnail is being made *)

LEMMA NoWorkType ==
    /\ NoWork \in WorkType /\ NoBatch \in BatchType
    /\ \A work \in WorkType : work.pc # "idle" =>
         /\ work # NoWork /\ work.key \in Keys
         /\ work \in [pc : {"decode", "write", "meta"}, key : Keys]
    BY DEF NoWork, NoBatch, WorkType, BatchType

LEMMA WorkIsFinite ==
    ASSUME TypeOK, NEW scope \in SUBSET Walls, NEW backend \in Backends
    PROVE  /\ Work(scope, backend) \in SUBSET Keys
           /\ IsFiniteSet(Work(scope, backend))
           /\ Work(scope, backend) \cap pending = {}
    <1> DEFINE wanted == { x \in scope : Wanted(x, backend) }
               key == [w \in wanted |-> Key(w, backend)]
    <1>1. IsFiniteSet(wanted)
        BY FS_Subset, CanvasCacheAssumption
    <1>2. key \in Surjection(wanted, Work(scope, backend))
        BY DEF Surjection, Work
    <1>3. IsFiniteSet(Work(scope, backend))
        BY <1>1, <1>2, FS_Surjection
    <1>4. ASSUME NEW w \in wanted
          PROVE  Key(w, backend) \in Keys /\ Key(w, backend) \notin pending
        <2>1. version[w] \in 0 .. MaxVersion /\ version[w] > 0 /\ w \in Walls
            BY DEF TypeOK, Wanted, Exists
        <2>2. version[w] \in 1 .. MaxVersion
            BY <2>1, CanvasCacheAssumption
        <2> QED BY <2>1, <2>2 DEF Wanted, Key, Keys
    <1> QED BY <1>3, <1>4 DEF Work

LEMMA SetWorkPlaces ==
    ASSUME TypeOK, NEW b \in Batches, NEW i \in Workers,
           NEW work \in WorkType, SetWork(b, i, work),
           work # NoWork, Job(b, i) # NoWork, work.key = Job(b, i).key
    PROVE  /\ batches' \in [Batches -> BatchType]
           /\ \A c \in Batches : Queued(c)' = Queued(c)
           /\ \A c \in Batches, j \in Workers : InHand(c, j)' = InHand(c, j)
    BY DEF TypeOK, BatchType, SetWork, Queued, InHand, Job

LEMMA EndedPlaces ==
    ASSUME TypeOK, NEW b \in Batches, NEW i \in Workers, Ended(b, i)
    PROVE  /\ batches' \in [Batches -> BatchType]
           /\ \A c \in Batches : Queued(c)' = Queued(c)
           /\ \A c \in Batches, j \in Workers :
                InHand(c, j)' = IF c = b /\ j = i THEN {} ELSE InHand(c, j)
    <1> DEFINE batch == [batches[b] EXCEPT !.workers[i] = NoWork]
    <1>1. batches \in [Batches -> BatchType]
        BY DEF TypeOK, BatchType
    <1>2. /\ batch \in BatchType /\ batch.queue = batches[b].queue
          /\ \A j \in Workers : batch.workers[j] = IF j = i THEN NoWork ELSE batches[b].workers[j]
        BY <1>1, NoWorkType DEF BatchType
    <1>3. batches' = [batches EXCEPT ![b] = IF Over(batch) THEN NoBatch ELSE batch]
        BY DEF Ended
    <1>4. CASE Over(batch)
        <2>1. NoBatch.queue = batch.queue /\ \A j \in Workers : NoBatch.workers[j] = batch.workers[j]
            BY <1>4 DEF Over, NoBatch
        <2> QED BY <1>1, <1>2, <1>3, <1>4, <2>1, NoWorkType DEF Queued, InHand, Job
    <1>5. CASE ~Over(batch)
        BY <1>1, <1>2, <1>3, <1>5 DEF Queued, InHand, Job
    <1> QED BY <1>4, <1>5

-----------------------------------------------------------------------------
(* The steps *)

\* Nothing is added, handed on or taken in.
LEMMA SameKeeps ==
    ASSUME Inductive, version' \in [Walls -> 0 .. MaxVersion],
           batches' \in [Batches -> BatchType],
           \A c \in Batches : Queued(c)' = Queued(c),
           \A c \in Batches, j \in Workers : InHand(c, j)' = InHand(c, j),
           UNCHANGED <<pending, results, clears>>
    PROVE  Inductive'
    <1>1. TypeOK'
        BY DEF Inductive, TypeOK, BatchType
    <1>2. Underway' = Underway
        BY DEF Underway
    <1>3. PendingIsWorked'
        BY <1>2 DEF Inductive, PendingIsWorked
    <1>4. (clears = 0 => OnePlace)'
        BY DEF Inductive, OnePlace, Place
    <1> QED BY <1>1, <1>3, <1>4 DEF Inductive

LEMMA ScheduleKeeps ==
    ASSUME Inductive, NEW scope \in SUBSET Walls, NEW backend \in Backends,
           NEW workers \in Workers, Schedule(scope, backend, workers), clears' = clears
    PROVE  Inductive'
    <1> DEFINE work == Work(scope, backend)
    <1>0. TypeOK
        BY DEF Inductive
    <1>1. work \in SUBSET Keys /\ IsFiniteSet(work) /\ work \cap pending = {}
        BY <1>0, WorkIsFinite
    <1>2. pending' = pending \cup work /\ UNCHANGED <<version, results>>
        BY DEF Schedule
    <1>3. CASE work = {}
        <2>1. UNCHANGED <<pending, batches>>
            BY <1>2, <1>3 DEF Schedule
        <2> QED BY <1>0, <1>2, <2>1, SameKeeps DEF TypeOK, BatchType, Queued, InHand, Job
    <1>4. CASE work # {}
        <2>1. PICK b \in Batches :
                /\ ~Busy(b)
                /\ batches' = [batches EXCEPT ![b] =
                     [NoBatch EXCEPT !.queue = work,
                        !.count = IF workers < Cardinality(work) THEN workers ELSE Cardinality(work)]]
            BY <1>4 DEF Schedule
        <2> DEFINE count == IF workers < Cardinality(work) THEN workers ELSE Cardinality(work)
                   batch == [NoBatch EXCEPT !.queue = work, !.count = count]
        <2>2. count \in Nat
            <3>1. Cardinality(work) \in Nat
                BY <1>1, FS_CardinalityType
            <3>2. Cardinality(Workers) \in Nat
                BY CanvasCacheAssumption, FS_CardinalityType
            <3>3. workers \in 1 .. Cardinality(Workers)
                BY CanvasCacheAssumption
            <3> QED BY <3>1, <3>2, <3>3
        <2> HIDE DEF count
        <2>3. /\ batch \in BatchType /\ batch.queue = work
              /\ batch.workers = [j \in Workers |-> NoWork]
            BY <1>1, <2>2, NoWorkType DEF NoBatch, BatchType
        <2>4. batches[b] = NoBatch
            BY <2>1 DEF Busy
        <2>5. batches' = [batches EXCEPT ![b] = batch]
            BY <2>1 DEF count
        <2> HIDE DEF batch, work
        <2>6. /\ batches' \in [Batches -> BatchType]
              /\ \A c \in Batches : Queued(c)' = IF c = b THEN work ELSE Queued(c)
              /\ \A c \in Batches, j \in Workers : InHand(c, j)' = InHand(c, j)
              /\ Queued(b) = {} /\ \A j \in Workers : InHand(b, j) = {}
            <3>1. batches \in [Batches -> BatchType]
                BY <1>0 DEF TypeOK, BatchType
            <3>2. batches[b].queue = {} /\ batches[b].workers = [j \in Workers |-> NoWork]
                BY <2>4 DEF NoBatch
            <3>3. batches' \in [Batches -> BatchType]
                BY <2>3, <2>5, <3>1
            <3>4. \A c \in Batches : batches'[c] = IF c = b THEN batch ELSE batches[c]
                BY <2>5, <3>1
            <3> QED BY <2>3, <3>2, <3>3, <3>4 DEF Queued, InHand, Job
        <2>7. TypeOK'
            BY <1>0, <1>1, <1>2, <2>6 DEF TypeOK, BatchType
        <2>8. PendingIsWorked'
            <3>1. Underway \cup work \subseteq Underway'
                BY <2>6 DEF Underway
            <3> QED BY <1>2, <3>1 DEF Inductive, PendingIsWorked
        <2>9. ASSUME clears' = 0 PROVE OnePlace'
            <3>1. OnePlace
                BY <2>9 DEF Inductive
            <3>2. \A c \in Batches, j \in Workers :
                    Place(c, j)' = IF c = b THEN work ELSE Place(c, j)
                BY <2>6 DEF Place
            <3>3. \A c \in Batches, j \in Workers : Place(c, j) \cap work = {}
                BY <1>1, <3>1 DEF OnePlace
            <3>4. \A n \in DOMAIN results : results[n].key \notin work
                BY <1>1, <3>1 DEF OnePlace
            <3>5. \A c \in Batches, j \in Workers : InHand(c, j)' \cap Queued(c)' = {}
                BY <2>6, <3>1 DEF OnePlace
            <3>6. \A c, d \in Batches, i, j \in Workers : c # d => Place(c, i)' \cap Place(d, j)' = {}
                BY <3>1, <3>2, <3>3 DEF OnePlace
            <3> QED BY <1>2, <2>6, <3>1, <3>2, <3>4, <3>5, <3>6 DEF OnePlace
        <2> QED BY <2>7, <2>8, <2>9 DEF Inductive
    <1> QED BY <1>3, <1>4

LEMMA TakeKeeps ==
    ASSUME Inductive, NEW b \in Batches, NEW i \in Workers, Take(b, i)
    PROVE  Inductive'
    <1>0. TypeOK
        BY DEF Inductive
    <1>1. PICK key \in Queued(b) :
            batches' = [batches EXCEPT ![b].queue = @ \ {key}, ![b].workers[i] = [pc |-> "decode", key |-> key]]
        BY DEF Take, Firsts, Queued
    <1>2. Job(b, i) = NoWork /\ UNCHANGED <<version, pending, results, clears>>
        BY DEF Take, NoLoopChange, cache, bounds
    <1>3. key \in Keys
        BY <1>0 DEF TypeOK, Queued
    <1>4. /\ batches' \in [Batches -> BatchType]
          /\ \A c \in Batches : Queued(c)' = IF c = b THEN Queued(b) \ {key} ELSE Queued(c)
          /\ \A c \in Batches, j \in Workers :
               InHand(c, j)' = IF c = b /\ j = i THEN {key} ELSE InHand(c, j)
        <2> DEFINE work == [pc |-> "decode", key |-> key]
        <2>1. work \in WorkType /\ work # NoWork /\ work.key = key
            BY <1>3 DEF WorkType, NoWork
        <2> HIDE DEF work
        <2>2. batches' = [batches EXCEPT ![b].queue = @ \ {key}, ![b].workers[i] = work]
            BY <1>1 DEF work
        <2> QED BY <1>0, <2>1, <2>2 DEF TypeOK, BatchType, Queued, InHand, Job
    <1>5. TypeOK'
        BY <1>0, <1>2, <1>4 DEF TypeOK, BatchType
    <1>6. PendingIsWorked'
        <2>1. Underway \subseteq Underway'
            <3>1. InHand(b, i) = {}
                BY <1>2 DEF InHand
            <3>2. \A c \in Batches, j \in Workers : InHand(c, j) \subseteq InHand(c, j)'
                BY <1>4, <3>1
            <3>3. \A c \in Batches : Queued(c) \subseteq Queued(c)' \cup InHand(b, i)'
                BY <1>4
            <3> QED BY <3>2, <3>3 DEF Underway
        <2> QED BY <1>2, <2>1 DEF Inductive, PendingIsWorked
    <1>7. ASSUME clears' = 0 PROVE OnePlace'
        <2>1. OnePlace
            BY <1>2, <1>7 DEF Inductive
        <2>2. \A c \in Batches, j \in Workers : Place(c, j)' \subseteq Place(c, j) \/ c = b
            BY <1>4 DEF Place
        <2>3. \A j \in Workers : Place(b, j)' \subseteq Place(b, j)
            BY <1>4 DEF Place
        <2>4. \A j \in Workers : InHand(b, j) \cap Queued(b) = {}
            BY <2>1 DEF OnePlace
        <2> QED BY <1>1, <1>2, <1>4, <2>1, <2>2, <2>3, <2>4 DEF OnePlace
    <1> QED BY <1>5, <1>6, <1>7 DEF Inductive

LEMMA ReportKeeps ==
    ASSUME Inductive, NEW b \in Batches, NEW i \in Workers, NEW ok \in BOOLEAN,
           Job(b, i).pc # "idle", Report(b, i, ok), UNCHANGED <<version, pending, clears>>
    PROVE  Inductive'
    <1> DEFINE key == Job(b, i).key
    <1>0. TypeOK
        BY DEF Inductive
    <1>1. Job(b, i) # NoWork /\ key \in Keys
        BY <1>0, NoWorkType DEF TypeOK, Job
    <1>2. results' = Append(results, [key |-> key, ok |-> ok])
        BY DEF Report
    <1>3. /\ batches' \in [Batches -> BatchType]
          /\ \A c \in Batches : Queued(c)' = Queued(c)
          /\ \A c \in Batches, j \in Workers :
               InHand(c, j)' = IF c = b /\ j = i THEN {} ELSE InHand(c, j)
        BY <1>0, EndedPlaces DEF Report
    <1>4. InHand(b, i) = {key}
        BY <1>1 DEF InHand
    <1> HIDE DEF key
    <1>5. /\ results' \in Seq([key : Keys, ok : BOOLEAN])
          /\ DOMAIN results' = 1 .. Len(results) + 1
          /\ Len(results) \in Nat /\ DOMAIN results = 1 .. Len(results)
          /\ \A n \in DOMAIN results : results'[n] = results[n]
          /\ results'[Len(results) + 1].key = key
        BY <1>0, <1>1, <1>2 DEF TypeOK
    <1>6. TypeOK'
        BY <1>0, <1>3, <1>5 DEF TypeOK, BatchType
    <1>7. PendingIsWorked'
        <2>1. Underway \subseteq Underway' \cup {key}
            BY <1>3, <1>4 DEF Underway
        <2>2. { results[n].key : n \in DOMAIN results } \cup {key}
                \subseteq { results'[n].key : n \in DOMAIN results' }
            BY <1>5
        <2> QED BY <2>1, <2>2 DEF Inductive, PendingIsWorked
    <1>8. ASSUME clears' = 0 PROVE OnePlace'
        <2>1. OnePlace
            BY <1>8 DEF Inductive
        <2>2. \A c \in Batches, j \in Workers : Place(c, j)' \subseteq Place(c, j)
            BY <1>3 DEF Place
        <2>3. \A c \in Batches, j \in Workers : key \notin Place(c, j)'
            BY <1>3, <1>4, <2>1 DEF OnePlace, Place
        <2>4. key \in pending /\ \A n \in DOMAIN results : results[n].key # key
            BY <1>4, <2>1 DEF OnePlace, Place
        <2>5. \A n \in DOMAIN results' :
                 /\ results'[n].key \in pending
                 /\ \A c \in Batches, j \in Workers : results'[n].key \notin Place(c, j)'
                 /\ \A m \in DOMAIN results' : n # m => results'[n].key # results'[m].key
            BY <1>5, <2>1, <2>2, <2>3, <2>4 DEF OnePlace
        <2>6. \A c \in Batches, j \in Workers : Place(c, j)' \subseteq pending
            BY <2>1, <2>2 DEF OnePlace
        <2>7. \A c, d \in Batches, j, k \in Workers : c # d => Place(c, j)' \cap Place(d, k)' = {}
            BY <2>1, <2>2 DEF OnePlace
        <2> QED BY <1>3, <2>1, <2>5, <2>6, <2>7 DEF OnePlace
    <1> QED BY <1>6, <1>7, <1>8 DEF Inductive

LEMMA AcceptKeeps ==
    ASSUME Inductive, AcceptResult
    PROVE  Inductive'
    <1> DEFINE key == Head(results).key
    <1>0. TypeOK
        BY DEF Inductive
    <1>1. pending' = pending \ {key} /\ UNCHANGED <<version, batches, clears>>
        BY DEF AcceptResult, bounds
    <1>2. results # <<>> /\ results' = Tail(results)
        BY DEF AcceptResult
    <1>3. /\ results' \in Seq([key : Keys, ok : BOOLEAN])
          /\ Len(results) \in Nat /\ DOMAIN results = 1 .. Len(results) /\ 1 \in DOMAIN results
          /\ DOMAIN results' = 1 .. Len(results) - 1
          /\ \A n \in DOMAIN results' : results'[n] = results[n + 1] /\ n + 1 \in DOMAIN results
          /\ key = results[1].key
        BY <1>0, <1>2 DEF TypeOK
    <1> HIDE DEF key
    <1>4. /\ \A c \in Batches : Queued(c)' = Queued(c)
          /\ \A c \in Batches, j \in Workers : InHand(c, j)' = InHand(c, j)
        BY <1>1 DEF Queued, InHand, Job
    <1>5. TypeOK'
        BY <1>0, <1>1, <1>3 DEF TypeOK
    <1>6. PendingIsWorked'
        <2>1. { results[n].key : n \in DOMAIN results }
                \subseteq { results'[n].key : n \in DOMAIN results' } \cup {key}
            <3>1. ASSUME NEW n \in DOMAIN results, n # 1
                  PROVE  \E m \in DOMAIN results' : results'[m].key = results[n].key
                <4>1. n - 1 \in DOMAIN results' /\ results'[n - 1] = results[n]
                    BY <1>3, <3>1
                <4> QED BY <4>1
            <3>2. \A n \in DOMAIN results :
                    results[n].key = key \/ \E m \in DOMAIN results' : results'[m].key = results[n].key
                BY <1>3, <3>1
            <3> QED BY <3>2
        <2>2. Underway' = Underway
            BY <1>4 DEF Underway
        <2> QED BY <1>1, <2>1, <2>2 DEF Inductive, PendingIsWorked
    <1>7. ASSUME clears' = 0 PROVE OnePlace'
        <2>1. OnePlace
            BY <1>1, <1>7 DEF Inductive
        <2>2. \A c \in Batches, j \in Workers : Place(c, j)' = Place(c, j) /\ key \notin Place(c, j)
            BY <1>3, <1>4, <2>1 DEF OnePlace, Place
        <2>3. \A n \in DOMAIN results' :
                 /\ results'[n].key \in pending'
                 /\ \A c \in Batches, j \in Workers : results'[n].key \notin Place(c, j)'
                 /\ \A m \in DOMAIN results' : n # m => results'[n].key # results'[m].key
            <3> SUFFICES ASSUME NEW n \in DOMAIN results'
                         PROVE  /\ results[n + 1].key \in pending \ {key}
                                /\ \A c \in Batches, j \in Workers : results[n + 1].key \notin Place(c, j)
                                /\ \A m \in DOMAIN results' : n # m => results[n + 1].key # results[m + 1].key
                BY <1>1, <1>3, <2>2
            <3>1. n + 1 # 1 /\ \A m \in DOMAIN results' : n # m => n + 1 # m + 1
                BY <1>3
            <3> QED BY <1>3, <2>1, <3>1 DEF OnePlace
        <2> QED BY <1>1, <1>4, <2>1, <2>2, <2>3 DEF OnePlace
    <1> QED BY <1>5, <1>6, <1>7 DEF Inductive

LEMMA ClearKeeps ==
    ASSUME Inductive, Clear
    PROVE  Inductive'
    <1>1. clears \in Nat /\ clears' = clears + 1 /\ UNCHANGED <<version, batches, results>>
        BY DEF Clear, Inductive, TypeOK
    <1>2. pending' = {} \/ pending' = pending
        BY DEF Clear
    <1>3. TypeOK'
        BY <1>1, <1>2 DEF Inductive, TypeOK
    <1>4. Underway' = Underway
        BY <1>1 DEF Underway, Queued, InHand, Job
    <1>5. PendingIsWorked'
        BY <1>1, <1>2, <1>4 DEF Inductive, PendingIsWorked
    <1>6. clears' # 0
        BY <1>1
    <1> QED BY <1>3, <1>5, <1>6 DEF Inductive

LEMMA RestartKeeps ==
    ASSUME Inductive, Restart
    PROVE  Inductive'
    <1>1. /\ batches' = [b \in Batches |-> NoBatch] /\ results' = <<>> /\ pending' = {}
          /\ UNCHANGED <<version, clears>>
        BY DEF Restart
    <1>2. TypeOK'
        BY <1>1, NoWorkType DEF Inductive, TypeOK, BatchType
    <1>3. PendingIsWorked'
        BY <1>1 DEF PendingIsWorked
    <1>4. \A b \in Batches, i \in Workers : Queued(b)' = {} /\ InHand(b, i)' = {}
        BY <1>1 DEF Queued, InHand, Job, NoBatch
    <1>5. OnePlace'
        BY <1>1, <1>4 DEF OnePlace, Place
    <1> QED BY <1>2, <1>3, <1>5 DEF Inductive

LEMMA WorkerKeeps ==
    ASSUME Inductive, NEW b \in Batches, NEW i \in Workers, WorkerStep(b, i)
    PROVE  Inductive'
    <1>0. TypeOK
        BY DEF Inductive
    <1>1. CASE Take(b, i)
        BY <1>1, TakeKeeps
    <1>2. ASSUME NEW pc \in {"write", "meta"}, Job(b, i).pc # "idle",
                 SetWork(b, i, [Job(b, i) EXCEPT !.pc = pc]),
                 UNCHANGED <<version, pending, results, clears>>
          PROVE  Inductive'
        <2> DEFINE work == [Job(b, i) EXCEPT !.pc = pc]
        <2>1. Job(b, i) # NoWork /\ Job(b, i) \in [pc : {"decode", "write", "meta"}, key : Keys]
            BY <1>0, <1>2, NoWorkType DEF TypeOK, Job
        <2>2. work \in WorkType /\ work # NoWork /\ work.key = Job(b, i).key
            BY <1>2, <2>1 DEF WorkType, NoWork
        <2> HIDE DEF work
        <2>3. SetWork(b, i, work)
            BY <1>2 DEF work
        <2>4. /\ batches' \in [Batches -> BatchType]
              /\ \A c \in Batches : Queued(c)' = Queued(c)
              /\ \A c \in Batches, j \in Workers : InHand(c, j)' = InHand(c, j)
            BY <1>0, <2>1, <2>2, <2>3, SetWorkPlaces
        <2>5. version' \in [Walls -> 0 .. MaxVersion]
            BY <1>0, <1>2 DEF TypeOK
        <2> QED BY <1>2, <2>4, <2>5, SameKeeps
    <1>3. CASE Create(b, i)
        BY <1>2, <1>3 DEF Create, NoLoopChange, cache, bounds
    <1>4. CASE DecodeFails(b, i)
        BY <1>4, ReportKeeps DEF DecodeFails, NoLoopChange, cache, bounds
    <1>5. CASE Install(b, i)
        BY <1>2, <1>5, ReportKeeps DEF Install, NoLoopChange, cache, bounds
    <1>6. CASE InstallMeta(b, i)
        <2>1. (Tmp(b, i) \in tmpMetas) \in BOOLEAN
            OBVIOUS
        <2> QED BY <1>6, <2>1, ReportKeeps DEF InstallMeta, NoLoopChange, cache, bounds
    <1> QED BY <1>1, <1>3, <1>4, <1>5, <1>6 DEF WorkerStep

-----------------------------------------------------------------------------
(* The files.  Before the first clear a temporary thumbnail is being written *)
(* by the one worker that holds its key, and what is renamed is whole.       *)

Owned(name) ==
    \E b \in Batches, i \in Workers :
        Job(b, i).pc = "write" /\ name = Tmp(b, i) /\ tmps[name] = {Writer(b, i)}
Written ==
    clears = 0 =>
      /\ ThumbnailsAreWhole
      /\ \A b \in Batches, i \in Workers : Job(b, i).pc = "meta" => Job(b, i).key \in DOMAIN images
      /\ \A name \in DOMAIN tmps : Owned(name)

LEMMA SetWorkJobs ==
    ASSUME TypeOK, NEW b \in Batches, NEW i \in Workers, NEW work, SetWork(b, i, work)
    PROVE  \A c \in Batches, j \in Workers :
             Job(c, j)' = IF c = b /\ j = i THEN work ELSE Job(c, j)
    BY DEF TypeOK, SetWork, Job

LEMMA EndedJobs ==
    ASSUME TypeOK, NEW b \in Batches, NEW i \in Workers, Ended(b, i)
    PROVE  \A c \in Batches, j \in Workers :
             Job(c, j)' = IF c = b /\ j = i THEN NoWork ELSE Job(c, j)
    <1> DEFINE batch == [batches[b] EXCEPT !.workers[i] = NoWork]
    <1>1. batches \in [Batches -> BatchType]
        BY DEF TypeOK, BatchType
    <1>2. \A j \in Workers : batch.workers[j] = IF j = i THEN NoWork ELSE batches[b].workers[j]
        BY <1>1 DEF BatchType
    <1>3. batches' = [batches EXCEPT ![b] = IF Over(batch) THEN NoBatch ELSE batch]
        BY DEF Ended
    <1>4. CASE Over(batch)
        <2>1. \A j \in Workers : NoBatch.workers[j] = batch.workers[j]
            BY <1>4 DEF Over, NoBatch
        <2> QED BY <1>1, <1>2, <1>3, <1>4, <2>1 DEF Job
    <1>5. CASE ~Over(batch)
        BY <1>1, <1>2, <1>3, <1>5 DEF Job
    <1> QED BY <1>4, <1>5

LEMMA ReportResults ==
    ASSUME TypeOK, NEW b \in Batches, NEW i \in Workers, NEW ok \in BOOLEAN, Report(b, i, ok)
    PROVE  \A n \in DOMAIN results' :
             \/ n \in DOMAIN results /\ results'[n] = results[n]
             \/ results'[n] = [key |-> Job(b, i).key, ok |-> ok]
    <1>1. results \in Seq([key : Keys, ok : BOOLEAN])
        BY DEF TypeOK
    <1>2. results' = Append(results, [key |-> Job(b, i).key, ok |-> ok])
        BY DEF Report
    <1> QED BY <1>1, <1>2

\* Two workers of one name do not hold one key.
LEMMA OneWriter ==
    ASSUME Inductive, clears = 0, NEW b \in Batches, NEW i \in Workers,
           NEW c \in Batches, NEW j \in Workers,
           Job(b, i) # NoWork, Job(c, j) # NoWork, Tmp(b, i) = Tmp(c, j)
    PROVE  b = c /\ i = j
    <1>1. Job(b, i).key = Job(c, j).key /\ i = j
        BY DEF Tmp
    <1>2. InHand(b, i) \cap InHand(c, j) # {}
        BY <1>1 DEF InHand
    <1> QED BY <1>1, <1>2 DEF Inductive, OnePlace, Place

LEMMA OwnedByIts ==
    ASSUME Inductive, Written, clears = 0, NEW b \in Batches, NEW i \in Workers,
           Job(b, i) # NoWork, Tmp(b, i) \in DOMAIN tmps
    PROVE  Job(b, i).pc = "write" /\ tmps[Tmp(b, i)] = {Writer(b, i)}
    <1>1. PICK c \in Batches, j \in Workers :
            /\ Job(c, j).pc = "write" /\ Tmp(b, i) = Tmp(c, j)
            /\ tmps[Tmp(b, i)] = {Writer(c, j)}
        BY DEF Written, Owned
    <1>2. Job(c, j) # NoWork
        BY <1>1 DEF NoWork
    <1> QED BY <1>1, <1>2, OneWriter

\* Steps that leave the files and the work on them alone, and report nothing new.
LEMMA SameFilesWritten ==
    ASSUME Written, UNCHANGED <<images, tmps, clears>>,
           \A b \in Batches, i \in Workers :
             /\ Job(b, i).pc = "write" => Job(b, i)' = Job(b, i)
             /\ Job(b, i)'.pc = "meta" => Job(b, i)' = Job(b, i),
           \A n \in DOMAIN results' : \E m \in DOMAIN results : results'[n] = results[m]
    PROVE  Written'
    <1> SUFFICES ASSUME clears' = 0
                 PROVE  /\ ThumbnailsAreWhole'
                        /\ \A b \in Batches, i \in Workers : Job(b, i)'.pc = "meta" => Job(b, i)'.key \in DOMAIN images'
                        /\ \A name \in DOMAIN tmps' : Owned(name)'
        BY DEF Written
    <1>1. /\ ThumbnailsAreWhole /\ clears = 0
          /\ \A b \in Batches, i \in Workers : Job(b, i).pc = "meta" => Job(b, i).key \in DOMAIN images
          /\ \A name \in DOMAIN tmps : Owned(name)
        BY DEF Written
    <1>2. ThumbnailsAreWhole'
        BY <1>1 DEF ThumbnailsAreWhole
    <1>3. ASSUME NEW name \in DOMAIN tmps' PROVE Owned(name)'
        <2>1. PICK b \in Batches, i \in Workers :
                Job(b, i).pc = "write" /\ name = Tmp(b, i) /\ tmps[name] = {Writer(b, i)}
            BY <1>1, <1>3 DEF Owned
        <2>2. Job(b, i)' = Job(b, i)
            BY <2>1
        <2> QED BY <2>1, <2>2 DEF Owned, Tmp, Writer
    <1> QED BY <1>1, <1>2, <1>3

LEMMA CreateWrites ==
    ASSUME Inductive, Written, NEW b \in Batches, NEW i \in Workers, Create(b, i)
    PROVE  Written'
    <1> DEFINE work == [Job(b, i) EXCEPT !.pc = "write"]
               name == Tmp(b, i)
    <1> SUFFICES ASSUME clears' = 0 PROVE Written'
        BY DEF Written
    <1>0. clears = 0 /\ UNCHANGED <<clears, images, results>> /\ Job(b, i).pc = "decode" /\ TypeOK
        BY DEF Create, NoLoopChange, bounds, Inductive
    <1>1. Job(b, i) # NoWork /\ work.pc = "write" /\ work.key = Job(b, i).key
        BY <1>0, NoWorkType DEF TypeOK, Job, NoWork
    <1>2. name \notin DOMAIN tmps
        BY <1>0, <1>1, OwnedByIts
    <1>3. tmps' = With(tmps, name, {Writer(b, i)})
        BY <1>2 DEF Create, Writers
    <1>4. \A c \in Batches, j \in Workers : Job(c, j)' = IF c = b /\ j = i THEN work ELSE Job(c, j)
        BY <1>0, SetWorkJobs DEF Create
    <1>5. ThumbnailsAreWhole'
        BY <1>0 DEF Written, ThumbnailsAreWhole
    <1>6. \A c \in Batches, j \in Workers : Job(c, j)'.pc = "meta" => Job(c, j)'.key \in DOMAIN images'
        BY <1>0, <1>1, <1>4 DEF Written
    <1>7. ASSUME NEW n \in DOMAIN tmps' PROVE Owned(n)'
        <2>1. CASE n = name
            <3>1. tmps'[n] = {Writer(b, i)}
                BY <1>3, <2>1 DEF With
            <3>2. Job(b, i)'.pc = "write" /\ n = Tmp(b, i)'
                BY <1>1, <1>4, <2>1 DEF Tmp
            <3> QED BY <3>1, <3>2 DEF Owned, Writer
        <2>2. CASE n # name
            <3>1. n \in DOMAIN tmps /\ tmps'[n] = tmps[n]
                BY <1>3, <1>7, <2>2 DEF With
            <3>2. PICK c \in Batches, j \in Workers :
                    Job(c, j).pc = "write" /\ n = Tmp(c, j) /\ tmps[n] = {Writer(c, j)}
                BY <1>0, <3>1 DEF Written, Owned
            <3>3. Job(c, j)' = Job(c, j)
                BY <1>0, <1>4, <3>2
            <3> QED BY <3>1, <3>2, <3>3 DEF Owned, Tmp, Writer
        <2> QED BY <2>1, <2>2
    <1> QED BY <1>5, <1>6, <1>7 DEF Written

\* A worker that failed, or has installed both files, reports.
LEMMA ReportWrites ==
    ASSUME Inductive, Written, NEW b \in Batches, NEW i \in Workers, NEW ok \in BOOLEAN,
           Job(b, i).pc # "idle", Tmp(b, i) \notin DOMAIN tmps,
           Report(b, i, ok), ok => Job(b, i).key \in DOMAIN images,
           images' = images \/ images' = ClosedBy(images, Writer(b, i)),
           DOMAIN tmps' = DOMAIN tmps, \A name \in DOMAIN tmps : tmps'[name] = tmps[name],
           clears' = clears
    PROVE  Written'
    <1> SUFFICES ASSUME clears' = 0 PROVE Written'
        BY DEF Written
    <1>0. clears = 0 /\ TypeOK
        BY DEF Inductive
    <1>1. \A c \in Batches, j \in Workers : Job(c, j)' = IF c = b /\ j = i THEN NoWork ELSE Job(c, j)
        BY <1>0, EndedJobs DEF Report
    <1>2. DOMAIN images' = DOMAIN images /\ \A key \in DOMAIN images : images'[key] = {}
        BY <1>0 DEF ClosedBy, Written, ThumbnailsAreWhole
    <1>3. \A n \in DOMAIN results' : results'[n].ok => results'[n].key \in DOMAIN images
        <2>1. ASSUME NEW n \in DOMAIN results', results'[n].ok PROVE results'[n].key \in DOMAIN images
            <3>1. CASE n \in DOMAIN results /\ results'[n] = results[n]
                BY <1>0, <2>1, <3>1 DEF Written, ThumbnailsAreWhole
            <3>2. CASE results'[n] = [key |-> Job(b, i).key, ok |-> ok]
                BY <2>1, <3>2
            <3> QED BY <1>0, <3>1, <3>2, ReportResults
        <2> QED BY <2>1
    <1>4. \A c \in Batches, j \in Workers : Job(c, j)'.pc = "meta" => Job(c, j)'.key \in DOMAIN images'
        BY <1>0, <1>1, <1>2 DEF Written, NoWork
    <1>5. ASSUME NEW n \in DOMAIN tmps' PROVE Owned(n)'
        <2>1. PICK c \in Batches, j \in Workers :
                Job(c, j).pc = "write" /\ n = Tmp(c, j) /\ tmps[n] = {Writer(c, j)}
            BY <1>0, <1>5 DEF Written, Owned
        <2>2. ~(c = b /\ j = i)
            BY <1>5, <2>1
        <2>3. Job(c, j)' = Job(c, j)
            BY <1>1, <2>2
        <2> QED BY <2>1, <2>3 DEF Owned, Tmp, Writer
    <1> QED BY <1>2, <1>3, <1>4, <1>5 DEF Written, ThumbnailsAreWhole

LEMMA InstallWrites ==
    ASSUME Inductive, Written, NEW b \in Batches, NEW i \in Workers, Install(b, i)
    PROVE  Written'
    <1> DEFINE work == [Job(b, i) EXCEPT !.pc = "meta"]
               name == Tmp(b, i)
               key  == Job(b, i).key
    <1> SUFFICES ASSUME clears' = 0 PROVE Written'
        BY DEF Written
    <1>0. clears = 0 /\ UNCHANGED clears /\ Job(b, i).pc = "write" /\ TypeOK
        BY DEF Install, NoLoopChange, bounds, Inductive
    <1>1. Job(b, i) # NoWork /\ work.pc = "meta" /\ work.key = key
        BY <1>0, NoWorkType DEF TypeOK, Job, NoWork
    <1>2. CASE name \in DOMAIN tmps
        <2>1. /\ images' = ClosedBy(With(images, key, tmps[name]), Writer(b, i))
              /\ tmps' = Without(tmps, name) /\ SetWork(b, i, work) /\ UNCHANGED results
            BY <1>2 DEF Install
        <2>2. tmps[name] = {Writer(b, i)}
            BY <1>0, <1>1, <1>2, OwnedByIts
        <2>3. DOMAIN images' = DOMAIN images \cup {key} /\ \A k \in DOMAIN images' : images'[k] = {}
            <3>1. \A k \in DOMAIN images : images[k] = {}
                BY <1>0 DEF Written, ThumbnailsAreWhole
            <3> QED BY <2>1, <2>2, <3>1 DEF ClosedBy, With
        <2>4. \A c \in Batches, j \in Workers : Job(c, j)' = IF c = b /\ j = i THEN work ELSE Job(c, j)
            BY <1>0, <2>1, SetWorkJobs
        <2>5. \A c \in Batches, j \in Workers : Job(c, j)'.pc = "meta" => Job(c, j)'.key \in DOMAIN images'
            BY <1>0, <1>1, <2>3, <2>4 DEF Written
        <2>6. ASSUME NEW n \in DOMAIN tmps' PROVE Owned(n)'
            <3>1. n \in DOMAIN tmps /\ n # name /\ tmps'[n] = tmps[n]
                BY <2>1, <2>6 DEF Without
            <3>2. PICK c \in Batches, j \in Workers :
                    Job(c, j).pc = "write" /\ n = Tmp(c, j) /\ tmps[n] = {Writer(c, j)}
                BY <1>0, <3>1 DEF Written, Owned
            <3>3. Job(c, j)' = Job(c, j)
                BY <2>4, <3>1, <3>2
            <3> QED BY <3>1, <3>2, <3>3 DEF Owned, Tmp, Writer
        <2>7. \A n \in DOMAIN results' : results'[n].ok => results'[n].key \in DOMAIN images'
            BY <1>0, <2>1, <2>3 DEF Written, ThumbnailsAreWhole
        <2> QED BY <2>3, <2>5, <2>6, <2>7 DEF Written, ThumbnailsAreWhole
    <1>3. CASE name \notin DOMAIN tmps
        BY <1>0, <1>3, ReportWrites DEF Install
    <1> QED BY <1>2, <1>3

LEMMA WorkerWrites ==
    ASSUME Inductive, Written, NEW b \in Batches, NEW i \in Workers, WorkerStep(b, i)
    PROVE  Written'
    <1>0. TypeOK
        BY DEF Inductive
    <1>1. CASE Take(b, i)
        <2>1. PICK k \in batches[b].queue :
                batches' = [batches EXCEPT ![b].queue = @ \ {k}, ![b].workers[i] = [pc |-> "decode", key |-> k]]
            BY <1>1 DEF Take, Firsts
        <2>2. Job(b, i) = NoWork /\ UNCHANGED <<images, tmps, clears, results>>
            BY <1>1 DEF Take, NoLoopChange, bounds, files
        <2>3. \A c \in Batches, j \in Workers :
                Job(c, j)' = IF c = b /\ j = i THEN [pc |-> "decode", key |-> k] ELSE Job(c, j)
            BY <1>0, <2>1 DEF TypeOK, Job
        <2> QED BY <2>2, <2>3, SameFilesWritten DEF NoWork
    <1>2. CASE Create(b, i)
        BY <1>2, CreateWrites
    <1>3. CASE DecodeFails(b, i)
        <2>0. CASE clears # 0
            BY <1>3, <2>0 DEF DecodeFails, NoLoopChange, bounds, Written
        <2> SUFFICES ASSUME clears = 0 PROVE Written'
            BY <2>0
        <2>1. Job(b, i).pc = "decode" /\ Job(b, i) # NoWork
            BY <1>3 DEF DecodeFails, NoWork
        <2>2. Tmp(b, i) \notin DOMAIN tmps
            BY <2>1, OwnedByIts
        <2>3. DOMAIN tmps' = DOMAIN tmps /\ \A name \in DOMAIN tmps : tmps'[name] = tmps[name]
            BY <1>3, <2>2 DEF DecodeFails, Without
        <2>4. Report(b, i, FALSE) /\ images' = images /\ clears' = clears
            BY <1>3 DEF DecodeFails, NoLoopChange, bounds
        <2>5. Job(b, i).pc # "idle"
            BY <2>1
        <2> QED BY <2>2, <2>3, <2>4, <2>5, ReportWrites
    <1>4. CASE Install(b, i)
        BY <1>4, InstallWrites
    <1>5. CASE InstallMeta(b, i)
        <2>0. CASE clears # 0
            BY <1>5, <2>0 DEF InstallMeta, NoLoopChange, bounds, Written
        <2> SUFFICES ASSUME clears = 0 PROVE Written'
            BY <2>0
        <2>1. Job(b, i).pc = "meta" /\ Job(b, i) # NoWork
            BY <1>5 DEF InstallMeta, NoWork
        <2>2. Tmp(b, i) \notin DOMAIN tmps /\ Job(b, i).key \in DOMAIN images
            BY <2>1, OwnedByIts DEF Written
        <2>3. Report(b, i, Tmp(b, i) \in tmpMetas) /\ (Tmp(b, i) \in tmpMetas) \in BOOLEAN
            BY <1>5 DEF InstallMeta
        <2>4. UNCHANGED <<images, tmps, clears>>
            BY <1>5 DEF InstallMeta, NoLoopChange, bounds
        <2>5. Job(b, i).pc # "idle"
            BY <2>1
        <2> QED BY <2>2, <2>3, <2>4, <2>5, ReportWrites
    <1> QED BY <1>1, <1>2, <1>3, <1>4, <1>5 DEF WorkerStep

LEMMA WrittenStep ==
    ASSUME Inductive, Written, [Next]_vars
    PROVE  Written'
    <1>0. TypeOK
        BY DEF Inductive
    <1>1. ASSUME NEW scope, NEW backend, NEW workers, Schedule(scope, backend, workers), clears' = clears
          PROVE  Written'
        <2>1. UNCHANGED <<images, tmps, results>>
            BY <1>1 DEF Schedule, files
        <2>2. CASE UNCHANGED batches
            BY <1>1, <2>1, <2>2, SameFilesWritten DEF Job
        <2>3. CASE \E b \in Batches :
                     /\ ~Busy(b)
                     /\ batches' = [batches EXCEPT ![b] =
                          [NoBatch EXCEPT !.queue = Work(scope, backend),
                             !.count = IF workers < Cardinality(Work(scope, backend)) THEN workers
                                       ELSE Cardinality(Work(scope, backend))]]
            <3>1. PICK b \in Batches : ~Busy(b) /\ batches'[b].workers = NoBatch.workers
                                       /\ \A c \in Batches : c # b => batches'[c] = batches[c]
                BY <1>0, <2>3 DEF TypeOK, NoBatch
            <3>2. \A c \in Batches, j \in Workers : Job(c, j)' = Job(c, j)
                BY <3>1 DEF Job, Busy, NoBatch
            <3> QED BY <1>1, <2>1, <3>2, SameFilesWritten
        <2> QED BY <1>1, <2>2, <2>3 DEF Schedule
    <1>2. ASSUME UNCHANGED <<images, tmps, clears, batches>>,
                 \A n \in DOMAIN results' : \E m \in DOMAIN results : results'[n] = results[m]
          PROVE  Written'
        BY <1>2, SameFilesWritten DEF Job
    <1>3. CASE Warm
        BY <1>1, <1>3 DEF Warm
    <1>4. CASE MaybeWarm
        BY <1>1, <1>4 DEF MaybeWarm, bounds
    <1>5. CASE Lookup
        BY <1>2, <1>5 DEF Lookup, files, bounds
    <1>6. CASE AcceptResult
        <2>1. results \in Seq([key : Keys, ok : BOOLEAN]) /\ results # <<>> /\ results' = Tail(results)
            BY <1>0, <1>6 DEF TypeOK, AcceptResult
        <2>2. \A n \in DOMAIN results' : n + 1 \in DOMAIN results /\ results'[n] = results[n + 1]
            BY <2>1
        <2> QED BY <1>2, <1>6, <2>2 DEF AcceptResult, files, bounds
    <1>7. CASE Clear
        BY <1>0, <1>7 DEF Clear, TypeOK, Written
    <1>8. CASE Restart
        <2>1. tmps' = <<>> /\ results' = <<>> /\ UNCHANGED <<images, clears>>
            BY <1>8 DEF Restart
        <2>2. \A b \in Batches, i \in Workers : Job(b, i)'.pc = "idle"
            BY <1>8 DEF Restart, Job, NoBatch, NoWork
        <2>3. DOMAIN tmps' = {} /\ DOMAIN results' = {}
            BY <2>1
        <2> QED BY <2>1, <2>2, <2>3 DEF Written, ThumbnailsAreWhole
    <1>9. CASE Rewrite
        BY <1>2, <1>9 DEF Rewrite, files, bounds
    <1>10. CASE \E b \in Batches, i \in Workers : WorkerStep(b, i)
        BY <1>10, WorkerWrites
    <1>11. CASE UNCHANGED vars
        BY <1>2, <1>11 DEF vars, files, bounds
    <1> QED BY <1>3, <1>4, <1>5, <1>6, <1>7, <1>8, <1>9, <1>10, <1>11 DEF Next

-----------------------------------------------------------------------------
(* Theorems *)

\* The inductive invariant: types, every pending thumbnail has a worker, a queue
\* or a result behind it, and before the first clear exactly one of them
\* (CanvasCache::schedule, canvas_cache_worker, accept_result).
THEOREM CanvasInductive == Spec => []Inductive
    <1>1. Init => Inductive
        <2> SUFFICES ASSUME Init PROVE Inductive
            OBVIOUS
        <2>1. TypeOK
            <3>1. 1 \in 0 .. MaxVersion
                BY CanvasCacheAssumption
            <3>2. version \in [Walls -> 0 .. MaxVersion]
                BY <3>1 DEF Init
            <3> QED BY <3>2, NoWorkType DEF Init, TypeOK, BatchType
        <2>2. \A b \in Batches, i \in Workers : Queued(b) = {} /\ InHand(b, i) = {}
            BY DEF Init, Queued, InHand, Job, NoBatch
        <2> QED BY <2>1, <2>2 DEF Init, Inductive, PendingIsWorked, OnePlace, Place
    <1>2. Inductive /\ [Next]_vars => Inductive'
        <2> SUFFICES ASSUME Inductive, [Next]_vars PROVE Inductive'
            OBVIOUS
        <2>0. TypeOK
            BY DEF Inductive
        <2>1. CASE Warm
            BY <2>1, ScheduleKeeps, CanvasCacheAssumption DEF Warm
        <2>2. CASE MaybeWarm
            BY <2>2, ScheduleKeeps, CanvasCacheAssumption DEF MaybeWarm, bounds
        <2>3. ASSUME version' \in [Walls -> 0 .. MaxVersion], UNCHANGED <<batches, pending, results, clears>>
              PROVE  Inductive'
            BY <2>0, <2>3, SameKeeps DEF TypeOK, BatchType, Queued, InHand, Job
        <2>4. CASE Lookup
            BY <2>0, <2>3, <2>4 DEF Lookup, TypeOK, bounds
        <2>5. CASE AcceptResult
            BY <2>5, AcceptKeeps
        <2>6. CASE Clear
            BY <2>6, ClearKeeps
        <2>7. CASE Restart
            BY <2>7, RestartKeeps
        <2>8. CASE Rewrite
            <3>1. UNCHANGED <<batches, pending, results, clears>>
                BY <2>8 DEF Rewrite, cache, bounds
            <3>2. PICK w \in Walls :
                    \/ version[w] < MaxVersion /\ version' = [version EXCEPT ![w] = @ + 1]
                    \/ version' = [version EXCEPT ![w] = 0]
                BY <2>8 DEF Rewrite
            <3>3. version' \in [Walls -> 0 .. MaxVersion]
                BY <2>0, <3>2, CanvasCacheAssumption DEF TypeOK
            <3> QED BY <2>3, <3>1, <3>3
        <2>9. CASE \E b \in Batches, i \in Workers : WorkerStep(b, i)
            BY <2>9, WorkerKeeps
        <2>10. CASE UNCHANGED vars
            BY <2>0, <2>3, <2>10 DEF vars, cache, bounds, TypeOK
        <2> QED BY <2>1, <2>2, <2>4, <2>5, <2>6, <2>7, <2>8, <2>9, <2>10 DEF Next
    <1> QED BY <1>1, <1>2, PTL DEF Spec

\* A pending thumbnail always has a job or a result behind it, through clears
\* that succeed or fail halfway and killed renderers.
THEOREM CanvasPendingIsWorked == Spec => []PendingIsWorked
    <1>1. Inductive => PendingIsWorked
        BY DEF Inductive
    <1> QED BY <1>1, CanvasInductive, PTL

\* Before the first clear no thumbnail is made twice at once, however many
\* warm-ups overlap.
THEOREM CanvasOneJobPerKey == Spec => []OneJobPerKey
    <1>1. Inductive => OneJobPerKey
        BY DEF Inductive, OneJobPerKey, OnePlace, Place
    <1> QED BY <1>1, CanvasInductive, PTL

\* Before the first clear, a file under the name of a thumbnail is complete, even
\* one that a killed renderer left, and a worker that reports success has left
\* such a file (generate_canvas_cache_entry).
THEOREM CanvasThumbnailsAreWhole == Spec => []ThumbnailsAreWhole
    <1>1. Init => Written
        BY DEF Init, Written, ThumbnailsAreWhole, NoBatch, NoWork, Job
    <1>2. Inductive /\ Written /\ [Next]_vars => Written'
        BY WrittenStep
    <1>3. Written => ThumbnailsAreWhole
        BY DEF Written, ThumbnailsAreWhole
    <1> QED BY <1>1, <1>2, <1>3, CanvasInductive, PTL DEF Spec
=============================================================================
