--------------------------- MODULE VectorStorage ---------------------------
(***************************************************************************)
(* The vectors of one segment in memory and in the files of its directory: *)
(* the chunks and the database column of SimpleVectorStorage, the file of  *)
(* MemmapVectorStorage, the files of scalar quantization, and the state    *)
(* and version files that say whether a directory is a segment.  A segment *)
(* is created and appended to, or built from other segments in a temporary *)
(* directory and moved to its place, or comes from an older release; the   *)
(* process may crash at any step.                                          *)
(*                                                                         *)
(* A vector is a name and a value; a file is the sequence of its vectors.  *)
(***************************************************************************)
EXTENDS Integers, FiniteSets, Sequences, SequencesExt, TLC

CONSTANTS Names,          \* of vectors
          Values,
          ChunkCapacity,
          None,
          MaxVectors,
          MaxSteps,       \* inserts and flushes
          MaxCrashes,
          Scenarios

VARIABLES scenario,
          pc,
          disk,      \* the directory
          mem,       \* the segment, when there is one in memory
          buffer,    \* by name, the records that the database has not flushed
          source,    \* the segment that the builder copies
          todo,      \* the names that it has still to do
          expected,  \* by name, the vectors that were stored
          steps, crashes

vars == <<scenario, pc, disk, mem, buffer, source, todo, expected, steps, crashes>>

Zero == "zero"
Vector(n, v) == <<n, v>>
Quantized(s) == [i \in DOMAIN s |-> <<"q", s[i]>>]

NoDir == [place |-> "none", version |-> "none", state |-> "none",
          db |-> [n \in Names |-> <<>>],          \* by key, from 0
          matrix |-> [n \in Names |-> None],
          qdata |-> [n \in Names |-> None], qconfig |-> [n \in Names |-> None]]

-----------------------------------------------------------------------------
(* ChunkedVectors                                                          *)

NoChunks == [len |-> 0, chunks |-> <<>>]

Resized(s, len, fill) == [i \in 1 .. len |-> IF i <= Len(s) THEN s[i] ELSE fill]
AtLeast(s, len, fill) == IF Len(s) < len THEN Resized(s, len, fill) ELSE s
Chunk(key) == key \div ChunkCapacity + 1
Index(key) == (key % ChunkCapacity) + 1

Inserted(c, key, vector) ==
    LET len == IF key + 1 > c.len THEN key + 1 ELSE c.len
        chunks == AtLeast(c.chunks, (len + ChunkCapacity - 1) \div ChunkCapacity, <<>>)
    IN  [len |-> len,
         chunks |-> [chunks EXCEPT ![Chunk(key)] = [AtLeast(@, Index(key), Zero) EXCEPT ![Index(key)] = vector]]]

Pushed(c, vector) == Inserted(c, c.len, vector)
Got(c, key) == c.chunks[Chunk(key)][Index(key)]

-----------------------------------------------------------------------------
(* Opening the storages of a directory                                     *)

\* The column is read in the order of its keys as bytes, lowest byte first.
BytesBefore(j, k) == j % 2 < k % 2 \/ (j % 2 = k % 2 /\ j < k)
Records(column) == SetToSortSeq(DOMAIN column, BytesBefore)

OpenSimple(column) == FoldLeft(LAMBDA c, k : Inserted(c, k, column[k]), NoChunks, Records(column))

\* ensure_mmap_file_exists
WithMatrix(d, n) == IF d.matrix[n] = None THEN <<>> ELSE d.matrix[n]

OpenStorage(d, n) ==
    IF scenario.storage = "mmap" THEN WithMatrix(d, n) ELSE OpenSimple(d.db[n])

\* load_quantization looks for the configuration, and checks the number of vectors.
Quantization(d, n) ==
    IF ~scenario.quantized \/ d.qconfig[n] = None THEN None ELSE d.qdata[n]
CanLoad(d, n) == ~scenario.quantized \/ d.qconfig[n] = None
                 \/ (d.qdata[n] # None /\ Len(d.qdata[n]) = d.qconfig[n])

\* create_segment
Opened(d) == [storage |-> [n \in scenario.names |-> OpenStorage(d, n)],
              quantized |-> [n \in scenario.names |-> Quantization(d, n)]]

Files(d) == IF scenario.storage = "mmap"
            THEN [d EXCEPT !.matrix = [n \in Names |-> IF n \in scenario.names THEN WithMatrix(d, n) ELSE @[n]]]
            ELSE d

Count(n) == IF scenario.storage = "mmap" THEN Len(mem.storage[n]) ELSE mem.storage[n].len
Get(n, key) == IF scenario.storage = "mmap" THEN mem.storage[n][key + 1] ELSE Got(mem.storage[n], key)
Stored(n) == [i \in 1 .. Count(n) |-> Get(n, i - 1)]

NoBuffer == [n \in Names |-> <<>>]
Put(column, key, vector) == [k \in DOMAIN column \cup {key} |-> IF k = key THEN vector ELSE column[k]]
Flushed(n) == [k \in DOMAIN disk.db[n] \cup DOMAIN buffer[n] |->
                  IF k \in DOMAIN buffer[n] THEN buffer[n][k] ELSE disk.db[n][k]]
AllFlushed == [disk EXCEPT !.db = [n \in Names |-> Flushed(n)]]

Init ==
    /\ scenario \in Scenarios
    /\ pc = IF scenario.kind = "old" THEN "down" ELSE "new"
    /\ disk = IF scenario.kind = "old"
              THEN [NoDir EXCEPT !.place = "segments", !.version = "old", !.state = "v3",
                                 !.db = [n \in Names |-> IF n \in scenario.names
                                                         THEN 0 :> Vector(n, scenario.sources[1][1]) ELSE <<>>]]
              ELSE NoDir
    /\ mem = None
    /\ buffer = NoBuffer
    /\ source = 1 /\ todo = scenario.names
    /\ expected = [n \in scenario.names |->
                      IF scenario.kind = "old" THEN <<Vector(n, scenario.sources[1][1])>> ELSE <<>>]
    /\ steps = 0 /\ crashes = 0

-----------------------------------------------------------------------------
(* build_segment                                                           *)

Working == <<source, todo, expected, steps>>

\* The directory, in the temporary place when a builder made it
Create ==
    /\ pc = "new"
    /\ LET d == [disk EXCEPT !.place = IF scenario.kind = "build" THEN "temp" ELSE "segments"]
       IN  disk' = Files(d) /\ mem' = Opened(d)
    /\ pc' = "state"
    /\ UNCHANGED <<scenario, buffer, crashes, Working>>

SaveState ==
    /\ pc = "state"
    /\ disk' = [disk EXCEPT !.state = "current"]
    /\ pc' = "version"
    /\ UNCHANGED <<scenario, mem, buffer, crashes, Working>>

\* The last file: without it the directory is no segment.
SaveVersion ==
    /\ pc = "version"
    /\ disk' = [disk EXCEPT !.version = "current"]
    /\ pc' = IF scenario.kind = "build" THEN "copy" ELSE "serving"
    /\ UNCHANGED <<scenario, mem, buffer, crashes, Working>>

-----------------------------------------------------------------------------
(* insert_vector, and the flush of the column                              *)

Insert ==
    /\ pc = "serving" /\ scenario.kind = "append" /\ steps < MaxSteps
    /\ \E n \in scenario.names, v \in Values : \E key \in 0 .. Count(n) :
          /\ key < MaxVectors
          /\ mem' = [mem EXCEPT !.storage[n] = Inserted(@, key, Vector(n, v))]
          /\ buffer' = [buffer EXCEPT ![n] = Put(@, key, Vector(n, v))]
          /\ expected' = [expected EXCEPT ![n] = IF key < Len(@) THEN [@ EXCEPT ![key + 1] = Vector(n, v)]
                                                 ELSE Append(@, Vector(n, v))]
    /\ steps' = steps + 1
    /\ UNCHANGED <<scenario, pc, disk, source, todo, crashes>>

FlushColumns ==
    /\ pc = "serving" /\ buffer # NoBuffer /\ steps < MaxSteps
    /\ disk' = AllFlushed /\ buffer' = NoBuffer
    /\ steps' = steps + 1
    /\ UNCHANGED <<scenario, pc, mem, source, todo, expected, crashes>>

-----------------------------------------------------------------------------
(* SegmentBuilder                                                          *)

SourceVectors(n) == [i \in DOMAIN scenario.sources[source] |-> Vector(n, scenario.sources[source][i])]

\* update_from of MemmapVectorStorage and of SimpleVectorStorage: the vectors go
\* to the end, the file is mapped anew.
CopyVectors ==
    /\ pc = "copy" /\ todo # {}
    /\ \E n \in todo :
          /\ IF scenario.storage = "mmap"
             THEN LET file == disk.matrix[n] \o SourceVectors(n) IN
                  /\ disk' = [disk EXCEPT !.matrix[n] = file]
                  /\ mem' = [mem EXCEPT !.storage[n] = file]
                  /\ UNCHANGED buffer
             ELSE /\ mem' = [mem EXCEPT !.storage[n] = FoldLeft(Pushed, @, SourceVectors(n))]
                  /\ buffer' = [buffer EXCEPT ![n] =
                                   [k \in DOMAIN @ \cup (Count(n) .. Count(n) + Len(SourceVectors(n)) - 1) |->
                                       IF k \in DOMAIN @ THEN @[k] ELSE SourceVectors(n)[k - Count(n) + 1]]]
                  /\ UNCHANGED disk
          /\ expected' = [expected EXCEPT ![n] = @ \o SourceVectors(n)]
          /\ todo' = todo \ {n}
    /\ UNCHANGED <<scenario, pc, source, steps, crashes>>

NextSource ==
    /\ pc = "copy" /\ todo = {}
    /\ todo' = scenario.names
    /\ IF source < Len(scenario.sources)
       THEN source' = source + 1 /\ UNCHANGED pc
       ELSE pc' = (IF scenario.quantized THEN "quantize" ELSE "flush") /\ UNCHANGED source
    /\ UNCHANGED <<scenario, disk, mem, buffer, expected, steps, crashes>>

\* check_process_stopped: the builder is dropped.
Stop ==
    /\ pc \in {"copy", "quantize"}
    /\ pc' = "cancelled" /\ mem' = None /\ buffer' = NoBuffer
    /\ UNCHANGED <<scenario, disk, crashes, Working>>

\* QuantizedVectorsStorage::create: data, then configuration
Quantize ==
    /\ pc = "quantize" /\ todo # {}
    /\ \E n \in todo :
          /\ disk' = [disk EXCEPT !.qdata[n] = Quantized(Stored(n))]
          /\ mem' = [mem EXCEPT !.quantized[n] = Quantized(Stored(n))]
    /\ pc' = "configure"
    /\ UNCHANGED <<scenario, buffer, crashes, Working>>

ConfigureQuantization ==
    /\ pc = "configure"
    /\ \E n \in {m \in todo : disk.qdata[m] # None} :
          /\ disk' = [disk EXCEPT !.qconfig[n] = Count(n)]
          /\ todo' = todo \ {n}
          /\ pc' = IF todo = {n} THEN "flush" ELSE "quantize"
    /\ UNCHANGED <<scenario, mem, buffer, source, expected, steps, crashes>>

\* A slip of FlushBuilt: the segment is evicted before it is flushed.
FlushNothing ==
    /\ pc = "flush"
    /\ buffer' = NoBuffer /\ mem' = None
    /\ pc' = "move"
    /\ UNCHANGED <<scenario, disk, crashes, Working>>

FlushBuilt ==
    /\ pc = "flush"
    /\ disk' = AllFlushed /\ buffer' = NoBuffer /\ mem' = None
    /\ pc' = "move"
    /\ UNCHANGED <<scenario, crashes, Working>>

Move ==
    /\ pc = "move"
    /\ disk' = [disk EXCEPT !.place = "segments"]
    /\ pc' = "down"
    /\ UNCHANGED <<scenario, mem, buffer, crashes, Working>>

-----------------------------------------------------------------------------
(* load_segment, drop_data, and crashes                                    *)

\* The state file of the old release is read and replaced before the version.
MigrateState ==
    /\ pc = "down" /\ disk.place = "segments" /\ disk.version = "old"
    /\ IF disk.state = "v3"
       THEN disk' = [disk EXCEPT !.state = "current"] /\ pc' = "migrated"
       ELSE pc' = "failed" /\ UNCHANGED disk
    /\ UNCHANGED <<scenario, mem, buffer, crashes, Working>>

MigrateVersion ==
    /\ pc = "migrated"
    /\ disk' = [disk EXCEPT !.version = "current"] /\ pc' = "down"
    /\ UNCHANGED <<scenario, mem, buffer, crashes, Working>>

\* LocalShard::load skips a path that ends with the component "deleted"; the name
\* that drop_data gives to a directory has it as its extension, so that the
\* directory is loaded like the others.
LoadSegment ==
    /\ pc = "down" /\ disk.place \in {"segments", "deleted"} /\ disk.version = "current"
    /\ IF disk.state = "current" /\ \A n \in scenario.names : CanLoad(disk, n)
       THEN mem' = Opened(disk) /\ disk' = Files(disk) /\ pc' = "serving"
       ELSE pc' = "failed" /\ UNCHANGED <<mem, disk>>
    /\ UNCHANGED <<scenario, buffer, crashes, Working>>

\* "Assume segment was not properly saved"
SkipSegment ==
    /\ pc = "down"
    /\ disk.place \in {"none", "temp"} \/ disk.version = "none"
    /\ pc' = "skipped"
    /\ UNCHANGED <<scenario, disk, mem, buffer, crashes, Working>>

\* The directory is renamed, and its files are removed one by one.
DropData ==
    /\ pc = "serving" /\ scenario.drop
    /\ mem' = None /\ buffer' = NoBuffer
    /\ disk' = [disk EXCEPT !.place = "deleted"] /\ pc' = "remove"
    /\ UNCHANGED <<scenario, crashes, Working>>

RemoveData ==
    /\ pc = "remove"
    /\ \E file \in {"version", "state", "db", "matrix", "qdata", "qconfig"} :
          disk[file] # NoDir[file] /\ disk' = [disk EXCEPT ![file] = NoDir[file]]
    /\ pc' = IF [disk' EXCEPT !.place = "none"] = NoDir THEN "skipped" ELSE "remove"
    /\ UNCHANGED <<scenario, mem, buffer, crashes, Working>>

\* The database may have written its buffers on its own. What it has not written
\* is lost.
Crash ==
    /\ pc \notin {"skipped", "failed", "cancelled"} /\ crashes < MaxCrashes
    /\ crashes' = crashes + 1
    /\ \E d \in {disk, AllFlushed} :
          /\ disk' = d
          /\ expected' = IF scenario.kind = "append"
                         THEN [n \in scenario.names |-> [i \in 1 .. Cardinality(DOMAIN d.db[n]) |-> d.db[n][i - 1]]]
                         ELSE expected
    /\ mem' = None /\ buffer' = NoBuffer /\ pc' = "down"
    /\ UNCHANGED <<scenario, source, todo, steps>>

Build == CopyVectors \/ NextSource \/ Stop \/ Quantize \/ ConfigureQuantization \/ FlushBuilt \/ Move

Next ==
    \/ Create \/ SaveState \/ SaveVersion \/ Insert \/ FlushColumns \/ Build
    \/ MigrateState \/ MigrateVersion \/ LoadSegment \/ SkipSegment
    \/ DropData \/ RemoveData \/ Crash

Spec == Init /\ [][Next]_vars

-----------------------------------------------------------------------------
(* Properties                                                              *)

\* Loading stopped between its two steps for a segment of an old release: the state
\* is in the new form, the version still asks for the old one.
HalfMigrated == disk.version = "old" /\ disk.state = "current"
Marked == disk.place = "deleted"

Serves(n) ==
    /\ Stored(n) = expected[n]
    /\ scenario.kind = "build" /\ scenario.quantized => mem.quantized[n] = Quantized(expected[n])
    /\ scenario.kind = "build" => Len(expected[n]) = FoldLeft(LAMBDA k, s : k + Len(s), 0, scenario.sources)

\* A segment that serves from its own place has, under every name and for every
\* offset, the vector that was stored there last, wherever the process crashed before
\* it was loaded, and its quantized vectors, if it should have them, are the ones of
\* these vectors.  Loading fails for two kinds of directories only: one that drop_data
\* has marked and that a crash left with a part of its files, and one of an old
\* release whose migration a crash cut off (build_segment, SegmentBuilder::build,
\* load_segment, drop_data).
VectorsAreThere ==
    /\ pc = "failed" => Marked \/ HalfMigrated
    /\ pc = "serving" /\ ~Marked => \A n \in scenario.names : Serves(n)

\* A directory that is not complete is not loaded, and loading never fails: "Assume
\* segment was not properly saved", "If it is not saved, segment will be skipped"
\* (load_segment, build_segment).
VectorsAreAlwaysThere == pc # "failed" /\ (pc = "serving" => \A n \in scenario.names : Serves(n))

\* LocalShard::load does not load a segment that drop_data has marked: it removes
\* the directory and goes on ("Can't remove marked-for-remove segment").
MarkedIsNotLoaded == pc = "serving" => disk.place # "deleted"
=============================================================================
