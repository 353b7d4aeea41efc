---------------------------- MODULE CanvasCache ----------------------------
(***************************************************************************)
(* The thumbnail cache of the canvas transition: the files under           *)
(* cache/canvas-v1, the batches of worker threads that write them, the     *)
(* channel by which they report, and the memory cache in front of them.    *)
(*                                                                         *)
(* The event loop schedules, clears, looks up and takes in results; the    *)
(* workers share with it only the directory and the channel.  Workers bear *)
(* the same names in every batch, and the name of a temporary file is made *)
(* of the key and the name of the worker.                                  *)
(*                                                                         *)
(* Walls are numbers; the version of a wall stands for the length and the  *)
(* modification time of its file, 0 for no file.  A warm-up lists walls in  *)
(* their order, so the queue of a batch is a set with its least wall first. *)
(***************************************************************************)
EXTENDS Integers, Sequences, FiniteSets, SequencesExt

CONSTANTS Walls,
          Broken,        \* walls that cannot be decoded
          Backends,      \* effective backends that requests ask for
          Default,       \* the configured backend
          WarmScopes,    \* the sets of walls that are warmed together
          Size,          \* bytes of the thumbnail of a wall
          MaxBytes,      \* limit of the memory cache
          Batches,       \* batches that can be at work at once
          Workers,       \* 1 .. the workers of a batch
          UsesCanvas,    \* a canvas transition is configured
          MaxWarms, MaxDisturbances, MaxVersion  \* bounds; clears and restarts disturb

ASSUME CanvasCacheAssumption ==
  /\ Walls \subseteq Nat /\ IsFiniteSet(Walls) /\ Broken \subseteq Walls /\ Default \in Backends
  /\ WarmScopes \subseteq SUBSET Walls
  /\ Size \in [Walls -> Nat] /\ MaxBytes \in Nat
  /\ IsFiniteSet(Workers) /\ Workers = 1 .. Cardinality(Workers) /\ Workers # {}
  /\ MaxWarms \in Nat /\ MaxDisturbances \in Nat /\ MaxVersion \in Nat \ {0}
  /\ UsesCanvas \in BOOLEAN

VARIABLES version,   \* of the file of each wall
          images,    \* thumbnails under their final name: who still writes the file
          metas,     \* keys with a metadata file
          tmps,      \* temporary thumbnails: who writes the file
          tmpMetas,  \* temporary metadata files
          batches,   \* the queue of each batch and what its workers do
          results,   \* the channel from the workers to the event loop
          started,   \* the cache has been initialised
          pending, failed,
          memory,    \* keys in the memory cache, the least recently used first
          bytes,     \* what the memory cache believes it holds
          warmDone,  \* the cache was warmed after the startup
          warms, clears, restarts

files  == <<images, metas, tmps, tmpMetas>>
cache  == <<started, pending, failed, memory, bytes>>
bounds == <<warms, clears, restarts>>
vars   == <<version, files, batches, results, cache, warmDone, bounds>>

Keys == Walls \X (1 .. MaxVersion) \X Backends
\* canvas_cache_key: path, length, time, edge and backend.
Key(w, backend) == <<w, version[w], backend>>
Exists(w) == version[w] > 0

NoWork == [pc |-> "idle", key |-> <<>>]
NoBatch == [queue |-> {}, workers |-> [i \in Workers |-> NoWork], count |-> 0]
Busy(b) == batches[b] # NoBatch
Working == { b \in Batches : \E i \in Workers : batches[b].workers[i] # NoWork }

-----------------------------------------------------------------------------
(* ThumbnailCache: insert, get, evict_to_limit. *)

SizeOf(key) == Size[key[1]]
SizeOfAll(keys) == FoldSet(LAMBDA key, sum : SizeOf(key) + sum, 0, keys)
\* The keys used least recently go, as many as it takes to keep the limit.
Evicted(keys, total) ==
  LET left(n) == total - SizeOfAll({ keys[i] : i \in 1 .. n })
      gone == CHOOSE n \in 0 .. Len(keys) :
                /\ n = Len(keys) \/ left(n) <= MaxBytes
                /\ \A m \in 0 .. n - 1 : left(m) > MaxBytes
  IN [keys |-> SubSeq(keys, gone + 1, Len(keys)), total |-> left(gone)]
\* Mutant: room is made before the new thumbnail is counted.
Inserted_Before(key) ==
  LET room == Evicted(Remove(memory, key), bytes)
  IN [keys |-> Append(room.keys, key), total |-> room.total + SizeOf(key)]

Inserted(key) ==
  LET old == IF Contains(memory, key) THEN SizeOf(key) ELSE 0
  IN Evicted(Append(Remove(memory, key), key), bytes - old + SizeOf(key))
Remember(key) == memory' = Inserted(key).keys /\ bytes' = Inserted(key).total
Touch(key) == memory' = Append(Remove(memory, key), key) /\ UNCHANGED bytes

-----------------------------------------------------------------------------
(* CanvasCache::schedule and its callers. *)

\* Mutant: what is pending is not looked at.
Wanted_Pending(w, backend) ==
  Exists(w) /\ Key(w, backend) \notin DOMAIN images /\ ~Contains(memory, Key(w, backend))

Wanted(w, backend) ==
  /\ Exists(w)
  /\ Key(w, backend) \notin DOMAIN images
  /\ ~Contains(memory, Key(w, backend))
  /\ Key(w, backend) \notin pending
Work(scope, backend) ==
  { Key(w, backend) : w \in { x \in scope : Wanted(x, backend) } }
\* The job that was queued first.
Firsts(queue) == { key \in queue : \A other \in queue : key[1] <= other[1] }

\* spawn_canvas_cache_workers: a batch has no more workers than work.
Schedule(scope, backend, workers) ==
  LET work == Work(scope, backend)
  IN /\ started' = TRUE
     /\ pending' = pending \cup work
     /\ IF work = {} THEN UNCHANGED batches
        ELSE \E b \in Batches :
               /\ ~Busy(b)
               /\ batches' = [batches EXCEPT ![b] =
                    [NoBatch EXCEPT !.queue = work,
                       !.count = IF workers < Cardinality(work) THEN workers ELSE Cardinality(work)]]
     /\ UNCHANGED <<version, files, results, failed, memory, bytes>>

\* A cache warm request.
Warm ==
  /\ warms < MaxWarms
  /\ warms' = warms + 1
  /\ \E scope \in WarmScopes, backend \in Backends, workers \in Workers : Schedule(scope, backend, workers)
  /\ UNCHANGED <<warmDone, clears, restarts>>

\* maybe_warm_canvas_cache, once after the startup.
MaybeWarm ==
  /\ ~warmDone /\ UsesCanvas
  /\ warmDone' = TRUE
  /\ \E scope \in WarmScopes, workers \in Workers : Schedule(scope, Default, workers)
  /\ UNCHANGED bounds

\* canvas_tiles_for_preview_paths asks get_image for a tile; without a
\* thumbnail the tile goes without a texture.
Lookup ==
  \E w \in Walls :
    LET key == Key(w, Default)
        held == started /\ Exists(w) /\ Contains(memory, key)
        read == started /\ Exists(w) /\ ~held /\ key \in DOMAIN images
    IN /\ IF held THEN Touch(key)
          ELSE IF read /\ images[key] = {} THEN Remember(key)
          ELSE UNCHANGED <<memory, bytes>>
       /\ UNCHANGED <<version, files, batches, results, started, pending, failed, warmDone, bounds>>

-----------------------------------------------------------------------------
(* canvas_cache_worker and generate_canvas_cache_entry. *)

Job(b, i) == batches[b].workers[i]
SetWork(b, i, work) == batches' = [batches EXCEPT ![b].workers[i] = work]
\* A batch whose queue and workers are done is over.
Over(batch) == batch.queue = {} /\ \A i \in Workers : batch.workers[i] = NoWork
Ended(b, i) ==
  LET batch == [batches[b] EXCEPT !.workers[i] = NoWork]
  IN batches' = [batches EXCEPT ![b] = IF Over(batch) THEN NoBatch ELSE batch]
\* Mutant: a worker that fails leaves without a word.
Report_OkOnly(b, i, ok) ==
  /\ results' = IF ok THEN Append(results, [key |-> Job(b, i).key, ok |-> ok]) ELSE results
  /\ Ended(b, i)

Report(b, i, ok) ==
  /\ results' = Append(results, [key |-> Job(b, i).key, ok |-> ok])
  /\ Ended(b, i)

Without(f, k) == [x \in DOMAIN f \ {k} |-> f[x]]
With(f, k, v) == [x \in DOMAIN f \cup {k} |-> IF x = k THEN v ELSE f[x]]
Tmp(b, i) == <<Job(b, i).key, i>>
Writer(b, i) == <<b, i>>
Writers(name) == IF name \in DOMAIN tmps THEN tmps[name] ELSE {}

NoLoopChange == UNCHANGED <<version, cache, warmDone, bounds>>

Take(b, i) ==
  /\ i <= batches[b].count /\ Job(b, i) = NoWork
  /\ \E key \in Firsts(batches[b].queue) :
       batches' = [batches EXCEPT ![b].queue = @ \ {key}, ![b].workers[i] = [pc |-> "decode", key |-> key]]
  /\ NoLoopChange /\ UNCHANGED <<files, results>>

Readable(key) == Exists(key[1]) /\ key[1] \notin Broken
\* Mutant: the thumbnail is written under its final name.
Create_InPlace(b, i) ==
  /\ Job(b, i).pc = "decode" /\ Readable(Job(b, i).key)
  /\ images' = With(images, Job(b, i).key, {Writer(b, i)})
  /\ tmps' = With(tmps, Tmp(b, i), Writers(Tmp(b, i)) \cup {Writer(b, i)})
  /\ SetWork(b, i, [Job(b, i) EXCEPT !.pc = "write"])
  /\ NoLoopChange /\ UNCHANGED <<metas, tmpMetas, results>>

\* The source is decoded, then the temporary file is created, which truncates
\* the one another worker may be writing under this name.
Create(b, i) ==
  /\ Job(b, i).pc = "decode" /\ Readable(Job(b, i).key)
  /\ tmps' = With(tmps, Tmp(b, i), Writers(Tmp(b, i)) \cup {Writer(b, i)})
  /\ SetWork(b, i, [Job(b, i) EXCEPT !.pc = "write"])
  /\ NoLoopChange /\ UNCHANGED <<images, metas, tmpMetas, results>>

\* What cannot be decoded is reported, and what cannot be created because the
\* directory went away meanwhile; files of these names are removed.
DecodeFails(b, i) ==
  /\ Job(b, i).pc = "decode"
  /\ ~Readable(Job(b, i).key) \/ clears > 0
  /\ tmps' = Without(tmps, Tmp(b, i))
  /\ tmpMetas' = tmpMetas \ {Tmp(b, i)}
  /\ Report(b, i, FALSE)
  /\ NoLoopChange /\ UNCHANGED <<images, metas>>

\* The thumbnail and its metadata are written; the thumbnail is renamed.
ClosedBy(f, writer) == [x \in DOMAIN f |-> f[x] \ {writer}]
Install(b, i) ==
  LET key == Job(b, i).key  name == Tmp(b, i)
  IN /\ Job(b, i).pc = "write"
     /\ IF name \in DOMAIN tmps
        THEN /\ images' = ClosedBy(With(images, key, tmps[name]), Writer(b, i))
             /\ tmps' = Without(tmps, name)
             /\ tmpMetas' = tmpMetas \cup {name}
             /\ SetWork(b, i, [Job(b, i) EXCEPT !.pc = "meta"]) /\ UNCHANGED results
        ELSE /\ images' = ClosedBy(images, Writer(b, i))
             /\ Report(b, i, FALSE) /\ UNCHANGED <<tmps, tmpMetas>>
     /\ NoLoopChange /\ UNCHANGED metas

InstallMeta(b, i) ==
  LET name == Tmp(b, i)
  IN /\ Job(b, i).pc = "meta"
     /\ metas' = IF name \in tmpMetas THEN metas \cup {Job(b, i).key} ELSE metas
     /\ tmpMetas' = tmpMetas \ {name}
     /\ Report(b, i, name \in tmpMetas)
     /\ NoLoopChange /\ UNCHANGED <<images, tmps>>

WorkerStep(b, i) ==
  Take(b, i) \/ Create(b, i) \/ DecodeFails(b, i) \/ Install(b, i) \/ InstallMeta(b, i)

-----------------------------------------------------------------------------
(* The event loop takes in a result; the user clears the cache. *)

\* Mutant: a failure leaves its key pending.
AcceptResult_OkOnly ==
  /\ results # <<>>
  /\ results' = Tail(results)
  /\ pending' = IF Head(results).ok THEN pending \ {Head(results).key} ELSE pending
  /\ failed' = IF Head(results).ok THEN failed ELSE failed + 1
  /\ UNCHANGED <<version, files, batches, started, memory, bytes, warmDone, bounds>>

\* accept_result.
AcceptResult ==
  /\ results # <<>>
  /\ results' = Tail(results)
  /\ pending' = pending \ {Head(results).key}
  /\ failed' = IF Head(results).ok THEN failed ELSE failed + 1
  /\ UNCHANGED <<version, files, batches, started, memory, bytes, warmDone, bounds>>

\* remove_dir_all; a worker that creates a file meanwhile makes it fail after
\* the files are gone, and then nothing else is reset.
NoFiles == images' = <<>> /\ metas' = {} /\ tmps' = <<>> /\ tmpMetas' = {}
Clear ==
  /\ clears + restarts < MaxDisturbances
  /\ clears' = clears + 1
  /\ NoFiles
  /\ \/ pending' = {} /\ failed' = 0 /\ memory' = <<>> /\ bytes' = 0
     \/ Working # {} /\ UNCHANGED <<pending, failed, memory, bytes>>
  /\ UNCHANGED <<version, batches, results, started, warmDone, warms, restarts>>

\* The renderer process dies and another one starts; files stay as they are.
Restart ==
  /\ clears + restarts < MaxDisturbances
  /\ restarts' = restarts + 1
  /\ batches' = [b \in Batches |-> NoBatch] /\ results' = <<>>
  /\ started' = FALSE /\ pending' = {} /\ failed' = 0 /\ memory' = <<>> /\ bytes' = 0
  /\ warmDone' = FALSE
  \* temporary files keep a name with the number of the dead process
  /\ tmps' = <<>> /\ tmpMetas' = {}
  /\ UNCHANGED <<version, images, metas, warms, clears>>

\* Somebody rewrites or removes the file of a wall.
Rewrite ==
  /\ \E w \in Walls :
       \/ Exists(w) /\ version[w] < MaxVersion /\ version' = [version EXCEPT ![w] = @ + 1]
       \/ Exists(w) /\ version' = [version EXCEPT ![w] = 0]
  /\ UNCHANGED <<files, batches, results, cache, warmDone, bounds>>

Init ==
  /\ version = [w \in Walls |-> 1]
  /\ images = <<>> /\ metas = {} /\ tmps = <<>> /\ tmpMetas = {}
  /\ batches = [b \in Batches |-> NoBatch] /\ results = <<>>
  /\ started = FALSE /\ pending = {} /\ failed = 0 /\ memory = <<>> /\ bytes = 0
  /\ warmDone = FALSE /\ warms = 0 /\ clears = 0 /\ restarts = 0

Next ==
  \/ Warm \/ MaybeWarm \/ Lookup \/ AcceptResult \/ Clear \/ Restart \/ Rewrite
  \/ \E b \in Batches, i \in Workers : WorkerStep(b, i)

Spec == Init /\ [][Next]_vars

\* Threads run, and the event loop takes in what is in the channel and warms
\* the cache after the startup.
FairSpec ==
  /\ Spec
  /\ \A b \in Batches, i \in Workers : WF_vars(WorkerStep(b, i))
  /\ WF_vars(AcceptResult) /\ WF_vars(MaybeWarm)

-----------------------------------------------------------------------------
(* Properties. *)

Queued(b)  == batches[b].queue
InHand(b, i) == IF Job(b, i) = NoWork THEN {} ELSE {Job(b, i).key}
Underway == UNION { Queued(b) \cup UNION { InHand(b, i) : i \in Workers } : b \in Batches }

\* Types of the state of the cache and of its workers.
WorkType == [pc : {"decode", "write", "meta"}, key : Keys] \cup {NoWork}
TypeOK ==
  /\ version \in [Walls -> 0 .. MaxVersion]
  /\ pending \subseteq Keys /\ results \in Seq([key : Keys, ok : BOOLEAN])
  /\ batches \in [Batches -> [queue : SUBSET Keys, workers : [Workers -> WorkType], count : Nat]]
  /\ clears \in Nat

\* The memory cache holds what it believes to hold, within its limit, however
\* lookups of walls that are rewritten meanwhile evict each other, and no entry
\* has two places in the order of use.
MemoryAccounted ==
  /\ IsInjective(memory)
  /\ bytes = SizeOfAll(Range(memory))
  /\ bytes <= MaxBytes

\* Two warm-ups that overlap never have the same thumbnail made twice at once:
\* two workers of one name would write one temporary file.  A clear forgets
\* what is pending, and then it can happen.
OneJobPerKey ==
  clears = 0 =>
    /\ \A b \in Batches, i, j \in Workers : i # j => InHand(b, i) \cap InHand(b, j) = {}
    /\ \A b \in Batches, i \in Workers : InHand(b, i) \cap Queued(b) = {}
    /\ \A b, c \in Batches, i, j \in Workers :
         b # c => (Queued(b) \cup InHand(b, i)) \cap (Queued(c) \cup InHand(c, j)) = {}

\* A file under the name of a thumbnail is complete: nobody writes it any more,
\* and a renderer that was killed has not left half of one, which would be
\* taken for ready for as long as the wall does not change.  A worker that
\* reports success has left such a file.
ThumbnailsAreWhole ==
  clears = 0 =>
    /\ \A key \in DOMAIN images : images[key] = {}
    /\ \A n \in DOMAIN results : results[n].ok => results[n].key \in DOMAIN images

\* What is pending is being made or its result is on the way; nothing stays
\* pending, and so out of every later warm-up, without a worker behind it.
PendingIsWorked == pending \subseteq Underway \cup { results[n].key : n \in DOMAIN results }

\* The inductive invariant of the proofs.  Before the first clear a thumbnail
\* that is pending is in one place: in a queue, in a worker's hand or in one
\* result of the channel.
Place(b, i) == Queued(b) \cup InHand(b, i)
OnePlace ==
  /\ \A b \in Batches, i \in Workers : InHand(b, i) \cap Queued(b) = {}
  /\ \A b \in Batches, i, j \in Workers : i # j => InHand(b, i) \cap InHand(b, j) = {}
  /\ \A b, c \in Batches, i, j \in Workers : b # c => Place(b, i) \cap Place(c, j) = {}
  /\ \A b \in Batches, i \in Workers : Place(b, i) \subseteq pending
  /\ \A n \in DOMAIN results :
       /\ results[n].key \in pending
       /\ \A b \in Batches, i \in Workers : results[n].key \notin Place(b, i)
       /\ \A m \in DOMAIN results : n # m => results[n].key # results[m].key
Inductive == TypeOK /\ PendingIsWorked /\ (clears = 0 => OnePlace)

\* Every thumbnail that is asked for is made or fails: again and again nothing
\* is pending.
WarmSettles == []<>(pending = {})
=============================================================================
