---------------------------- MODULE UdpRegistry ----------------------------
(***************************************************************************)
(* udp_registry in the controller's and in a worker's process, and the     *)
(* libraries that move between them.  Work carries the hash of the         *)
(* controller's library (udp_dll_wrapper::save()); the worker compares it  *)
(* with that of its own file, fetches the library when it is missing or    *)
(* differs, and sends its results back with the hash of its own file.      *)
(*                                                                         *)
(* A file's content is the version of the library, or Broken when the      *)
(* process that wrote it ended half-way.  SHA-256 tells contents apart, so *)
(* a hash is the content it was computed from.                             *)
(***************************************************************************)
EXTENDS LruCache

CONSTANTS
    Libs,          \* names of libraries
    FilesCap,      \* capacity of _libFilesBuffer (5 in the code)
    HashCap,       \* capacity of the hash_cache (50 in the code)
    NoFile,
    MaxVersion,    \* bound: versions of a library
    MaxCrashes     \* bound: ends of the worker's process

ASSUME RegistryAssumption ==
    /\ FilesCap \in Nat \ {0} /\ HashCap \in Nat \ {0}
    /\ MaxVersion \in Nat \ {0} /\ MaxCrashes \in Nat
    /\ NoFile \notin Nat

Process == {"controller", "worker"}

Broken == 0
Content == 0..MaxVersion

VARIABLES
    fs,               \* process -> name -> the file in _local_cache
    useInMemoryCache, \* process -> _use_in_memory_cache
    libFilesBuffer,   \* process -> _libFilesBuffer
    hashCache,        \* process -> _hash_cache
    libLoaders,       \* process -> name -> the version that is loaded
    controllerUp,     \* FALSE once the controller's process has failed
    work,             \* name -> where work with this library is, and its hash
    thread,           \* the worker's thread, in udp_dll_wrapper::load()
    replaced,         \* the files replaced while the controller ran
    crashes

registryVars == <<fs, useInMemoryCache, libFilesBuffer, hashCache, libLoaders>>
vars == <<registryVars, controllerUp, work, thread, replaced, crashes>>

NoWork == [at |-> "none", hash |-> NoFile]
IdleThread == [step |-> "idle", lib |-> NoFile, file |-> NoFile]

Steps == {"hash", "fetch", "saveHash", "saveLoad", "run"}

CacheType(cap) ==
    UNION {[1..n -> [key : Libs, value : Content]] : n \in 0..cap}

TypeOK ==
    /\ fs \in [Process -> [Libs -> Content \cup {NoFile}]]
    /\ useInMemoryCache \in [Process -> BOOLEAN]
    /\ libFilesBuffer \in [Process -> CacheType(FilesCap)]
    /\ hashCache \in [Process -> CacheType(HashCap)]
    /\ libLoaders \in [Process -> [Libs -> Content \cup {NoFile}]]
    /\ controllerUp \in BOOLEAN
    /\ work \in [Libs -> [at : {"toWorker", "worker", "toController"},
                          hash : Content] \cup {NoWork}]
    /\ thread \in [step : Steps, lib : Libs, file : Content \cup {NoFile}]
                    \cup {IdleThread}
    /\ replaced \subseteq Libs
    /\ crashes \in 0..MaxCrashes

\* The controller's libraries are installed; the worker may have older ones,
\* or what a process that ended in a write has left.
Init ==
    /\ \E v \in [Libs -> (1..MaxVersion)], old \in [Libs -> Content \cup {NoFile}] :
          /\ \A l \in Libs : old[l] # NoFile => old[l] <= v[l]
          /\ fs = [p \in Process |-> IF p = "controller" THEN v ELSE old]
    /\ useInMemoryCache = [p \in Process |-> TRUE]
    /\ libFilesBuffer = [p \in Process |-> << >>]
    /\ hashCache = [p \in Process |-> << >>]
    /\ libLoaders = [p \in Process |-> [l \in Libs |-> NoFile]]
    /\ controllerUp = TRUE
    /\ work = [l \in Libs |-> NoWork]
    /\ thread = IdleThread
    /\ replaced = {}
    /\ crashes = 0

-----------------------------------------------------------------------------
(***************************************************************************)
(* The parts of a registry that need no provider.                          *)
(***************************************************************************)
is_lib_in_cache(p, l) == fs[p][l] # NoFile

\* get_lib_as_file() for a file that is there: its content, and the buffer.
InBuffer(p, l) == useInMemoryCache[p] /\ contains(libFilesBuffer[p], l)

FileContent(p, l) ==
    IF InBuffer(p, l) THEN ValueOf(libFilesBuffer[p], l) ELSE fs[p][l]

FileBuffered(p, l) ==
    IF InBuffer(p, l) THEN MoveToFront(libFilesBuffer[p], l)
    ELSE IF useInMemoryCache[p] THEN put(libFilesBuffer[p], FilesCap, l, fs[p][l])
    ELSE libFilesBuffer[p]

\* get_lib_file_hash() once the content is known: the hash, and the cache.
FileHash(p, l, content) ==
    IF contains(hashCache[p], l) THEN ValueOf(hashCache[p], l) ELSE content

HashCached(p, l, content) ==
    IF contains(hashCache[p], l) THEN MoveToFront(hashCache[p], l)
    ELSE put(hashCache[p], HashCap, l, content)

BufferErased(p, files, l) ==
    IF useInMemoryCache[p] THEN erase(files, l) ELSE files

\* Mutant: the hash of the deleted file stays in the cache.
DeleteKeepsHash(p, l, files, hashes) ==
    /\ libLoaders' = [libLoaders EXCEPT ![p][l] = NoFile]
    /\ libFilesBuffer' = [libFilesBuffer EXCEPT ![p] = BufferErased(p, files, l)]
    /\ hashCache' = [hashCache EXCEPT ![p] = hashes]
    /\ fs' = [fs EXCEPT ![p][l] = NoFile]
    /\ UNCHANGED useInMemoryCache

\* Mutant: the library stays loaded.
DeleteKeepsLoaded(p, l, files, hashes) ==
    /\ libFilesBuffer' = [libFilesBuffer EXCEPT ![p] = BufferErased(p, files, l)]
    /\ hashCache' = [hashCache EXCEPT ![p] = erase(hashes, l)]
    /\ fs' = [fs EXCEPT ![p][l] = NoFile]
    /\ UNCHANGED <<libLoaders, useInMemoryCache>>

\* _unload_lib() and _delete_lib_file(), with the caches as left so far.
UnloadAndDelete(p, l, files, hashes) ==
    /\ libLoaders' = [libLoaders EXCEPT ![p][l] = NoFile]
    /\ libFilesBuffer' = [libFilesBuffer EXCEPT ![p] = BufferErased(p, files, l)]
    /\ hashCache' = [hashCache EXCEPT ![p] = erase(hashes, l)]
    /\ fs' = [fs EXCEPT ![p][l] = NoFile]
    /\ UNCHANGED useInMemoryCache

\* The hash matches: the caches as left so far, and the library loaded from the
\* file unless it is loaded already.
KeepAndLoad(p, l, files, hashes, disk) ==
    /\ libFilesBuffer' = [libFilesBuffer EXCEPT ![p] = files]
    /\ hashCache' = [hashCache EXCEPT ![p] = hashes]
    /\ fs' = [fs EXCEPT ![p][l] = disk]
    /\ libLoaders' = [libLoaders EXCEPT ![p][l] = IF @ = NoFile THEN disk ELSE @]
    /\ UNCHANGED useInMemoryCache

-----------------------------------------------------------------------------
(***************************************************************************)
(* The controller's process.  It has no provider.                          *)
(***************************************************************************)
\* construct_udp(), through the constructor of udp_dll_wrapper.
construct_udp(l) ==
    /\ controllerUp
    /\ libLoaders["controller"][l] = NoFile
    /\ is_lib_in_cache("controller", l)
    /\ libLoaders' = [libLoaders EXCEPT !["controller"][l] = fs["controller"][l]]
    /\ UNCHANGED <<fs, useInMemoryCache, libFilesBuffer, hashCache, controllerUp,
                   work, thread, replaced, crashes>>

\* udp_dll_wrapper::save() for the work of an island.
SaveWork(l) ==
    /\ controllerUp
    /\ work[l] = NoWork
    /\ libLoaders["controller"][l] # NoFile
    /\ LET file == FileContent("controller", l)
       IN /\ work' = [work EXCEPT ![l] =
                [at |-> "toWorker", hash |-> FileHash("controller", l, file)]]
          /\ hashCache' = [hashCache EXCEPT !["controller"] =
                             HashCached("controller", l, file)]
    /\ libFilesBuffer' = [libFilesBuffer EXCEPT !["controller"] =
                            FileBuffered("controller", l)]
    /\ UNCHANGED <<fs, useInMemoryCache, libLoaders, controllerUp, thread,
                   replaced, crashes>>

\* udp_dll_wrapper::load() for the results.  When the hash differs, the library
\* is unloaded under the live objects of the islands and its file is deleted;
\* nobody can provide another one, and initialize_udp() throws.
LoadResults(l) ==
    /\ controllerUp
    /\ work[l].at = "toController"
    /\ LET p      == "controller"
           file   == FileContent(p, l)
           files  == FileBuffered(p, l)
           hashes == HashCached(p, l, file)
       IN IF FileHash(p, l, file) = work[l].hash
          THEN KeepAndLoad(p, l, files, hashes, fs[p][l]) /\ UNCHANGED controllerUp
          ELSE UnloadAndDelete(p, l, files, hashes) /\ controllerUp' = FALSE
    /\ work' = [work EXCEPT ![l] = NoWork]
    /\ UNCHANGED <<thread, replaced, crashes>>

\* use_in_memory_cache(), in either process; the worker's thread holds the
\* registry's mutex all through initialize_udp().
use_in_memory_cache(p, value) ==
    /\ IF p = "controller" THEN controllerUp
                           ELSE thread.step \in {"idle", "run"}
    /\ value # useInMemoryCache[p]
    /\ useInMemoryCache' = [useInMemoryCache EXCEPT ![p] = value]
    /\ libFilesBuffer' = [libFilesBuffer EXCEPT
                            ![p] = IF value THEN @ ELSE << >>]
    /\ UNCHANGED <<fs, hashCache, libLoaders, controllerUp, work, thread,
                   replaced, crashes>>

\* Somebody installs the next version while the controller runs.
ReplaceFile(l) ==
    /\ controllerUp
    /\ fs["controller"][l] < MaxVersion
    /\ fs' = [fs EXCEPT !["controller"][l] = @ + 1]
    /\ replaced' = replaced \cup {l}
    /\ UNCHANGED <<useInMemoryCache, libFilesBuffer, hashCache, libLoaders,
                   controllerUp, work, thread, crashes>>

\* The controller's process ends between two evolutions and is started again,
\* with or without a new version; the worker lives on.
RestartController ==
    /\ controllerUp
    /\ work = [l \in Libs |-> NoWork]
    /\ \E v \in [Libs -> 1..MaxVersion] :
          /\ \A l \in Libs : v[l] >= fs["controller"][l]
          /\ fs' = [fs EXCEPT !["controller"] = v]
    /\ useInMemoryCache' = [useInMemoryCache EXCEPT !["controller"] = TRUE]
    /\ libFilesBuffer' = [libFilesBuffer EXCEPT !["controller"] = << >>]
    /\ hashCache' = [hashCache EXCEPT !["controller"] = << >>]
    /\ libLoaders' = [libLoaders EXCEPT !["controller"] = [l \in Libs |-> NoFile]]
    /\ replaced' = {}
    /\ UNCHANGED <<controllerUp, work, thread, crashes>>

-----------------------------------------------------------------------------
(***************************************************************************)
(* The worker's thread: initialize_udp() with the hash of the work.        *)
(***************************************************************************)
At(step, l, file) == [step |-> step, lib |-> l, file |-> file]

\* Mutant: a file that is there is not compared.
FoundMatches(l, hash) == TRUE

Matches(l, hash) == hash = work[l].hash

\* The rest of initialize_udp() once the content of the local file is known.
CompareAndLoad(l, files, content, disk) ==
    LET p      == "worker"
        hashes == HashCached(p, l, content)
    IN IF Matches(l, FileHash(p, l, content))
       THEN /\ KeepAndLoad(p, l, files, hashes, disk)
            /\ thread' = At("run", l, NoFile)
       ELSE /\ UnloadAndDelete(p, l, files, hashes)
            /\ thread' = At("fetch", l, NoFile)

\* The work arrives, and there is a local file.
InitializeFromFile(l) ==
    /\ thread = IdleThread
    /\ work[l].at = "toWorker"
    /\ is_lib_in_cache("worker", l)
    /\ work' = [work EXCEPT ![l].at = "worker"]
    /\ CompareAndLoad(l, FileBuffered("worker", l), FileContent("worker", l),
                      fs["worker"][l])
    /\ UNCHANGED <<controllerUp, replaced, crashes>>

\* ... and there is none: get_lib_as_file() asks the provider.
InitializeFromProvider(l) ==
    /\ thread = IdleThread
    /\ work[l].at = "toWorker"
    /\ ~is_lib_in_cache("worker", l)
    /\ work' = [work EXCEPT ![l].at = "worker"]
    /\ thread' = At("hash", l, NoFile)
    /\ UNCHANGED <<registryVars, controllerUp, replaced, crashes>>

\* _save_lib_into_fs() opens the file; until the write ends it is no library.
save_lib_into_fs(l) == fs' = [fs EXCEPT !["worker"][l] = Broken]

\* GET_DLL: the controller reads the file, and the worker begins to write it.
ProvideFile ==
    /\ controllerUp
    /\ thread.step \in {"hash", "fetch"}
    /\ is_lib_in_cache("controller", thread.lib)
    /\ libFilesBuffer' = [libFilesBuffer EXCEPT !["controller"] =
                            FileBuffered("controller", thread.lib)]
    /\ thread' = At(IF thread.step = "hash" THEN "saveHash" ELSE "saveLoad",
                    thread.lib, FileContent("controller", thread.lib))
    /\ save_lib_into_fs(thread.lib)
    /\ UNCHANGED <<useInMemoryCache, hashCache, libLoaders, controllerUp, work,
                   replaced, crashes>>

\* The file for the hash is written; get_lib_as_file() returns what it got,
\* which it does not put into the buffer.
SavedForHash ==
    /\ thread.step = "saveHash"
    /\ CompareAndLoad(thread.lib, libFilesBuffer["worker"], thread.file,
                      thread.file)
    /\ UNCHANGED <<controllerUp, work, replaced, crashes>>

\* The file for the loader is written; it is loaded as it is.
SavedForLoad ==
    /\ thread.step = "saveLoad"
    /\ fs' = [fs EXCEPT !["worker"][thread.lib] = thread.file]
    /\ libLoaders' = [libLoaders EXCEPT !["worker"][thread.lib] =
                        IF @ = NoFile THEN thread.file ELSE @]
    /\ thread' = At("run", thread.lib, NoFile)
    /\ UNCHANGED <<useInMemoryCache, libFilesBuffer, hashCache, controllerUp,
                   work, replaced, crashes>>

\* The evolution is over: udp_dll_wrapper::save() for the results.
SaveResults ==
    /\ thread.step = "run"
    /\ LET p == "worker"
           l == thread.lib
           file == FileContent(p, l)
       IN /\ work' = [work EXCEPT ![l] =
                [at |-> "toController", hash |-> FileHash(p, l, file)]]
          /\ hashCache' = [hashCache EXCEPT ![p] = HashCached(p, l, file)]
          /\ libFilesBuffer' = [libFilesBuffer EXCEPT ![p] = FileBuffered(p, l)]
    /\ thread' = IdleThread
    /\ UNCHANGED <<fs, useInMemoryCache, libLoaders, controllerUp, replaced,
                   crashes>>

\* The worker's process ends, is started again, and the controller allocates
\* the same work once more.
RestartWorker ==
    /\ crashes < MaxCrashes
    /\ crashes' = crashes + 1
    /\ useInMemoryCache' = [useInMemoryCache EXCEPT !["worker"] = TRUE]
    /\ libFilesBuffer' = [libFilesBuffer EXCEPT !["worker"] = << >>]
    /\ hashCache' = [hashCache EXCEPT !["worker"] = << >>]
    /\ libLoaders' = [libLoaders EXCEPT !["worker"] = [l \in Libs |-> NoFile]]
    /\ thread' = IdleThread
    /\ work' = [l \in Libs |-> IF work[l].at = "worker"
                               THEN [work[l] EXCEPT !.at = "toWorker"]
                               ELSE work[l]]
    /\ UNCHANGED <<fs, controllerUp, replaced>>

Next ==
    \/ \E l \in Libs : \/ construct_udp(l) \/ SaveWork(l) \/ LoadResults(l)
                       \/ ReplaceFile(l)
                       \/ InitializeFromFile(l) \/ InitializeFromProvider(l)
    \/ \E p \in Process, value \in BOOLEAN : use_in_memory_cache(p, value)
    \/ RestartController
    \/ ProvideFile \/ SavedForHash \/ SavedForLoad \/ SaveResults
    \/ RestartWorker

Spec == Init /\ [][Next]_vars

-----------------------------------------------------------------------------
\* A file that a process left half-written is never loaded: the hash that comes
\* with the work gives it away, whatever was cached, restarted or replaced.
BrokenIsNeverLoaded ==
    \A p \in Process, l \in Libs : libLoaders[p][l] # Broken

\* A worker evolves with the version of the library the work was made with,
\* unless the controller's file was replaced under it.
WorkerRunsSentVersion ==
    thread.step = "run" /\ thread.lib \notin replaced =>
        libLoaders["worker"][thread.lib] = work[thread.lib].hash

\* Results never make the controller unload a library under its own objects
\* and delete the file, unless the file was replaced.
ControllerKeepsLibraries == replaced = {} => controllerUp

\* The buffer, the hash cache, the loader and the file of a worker speak of the
\* same version: the caches have different capacities and are filled and
\* emptied at different times, and none outlives the file it was made from.
WorkerCachesAgree ==
    \A l \in Libs :
        LET file == fs["worker"][l] IN
        /\ contains(libFilesBuffer["worker"], l) =>
              ValueOf(libFilesBuffer["worker"], l) = file
        /\ contains(hashCache["worker"], l) =>
              ValueOf(hashCache["worker"], l) = file
        /\ libLoaders["worker"][l] \in {file, NoFile}
=============================================================================
