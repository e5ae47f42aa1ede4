------------------------- MODULE UdpRegistryProofs -------------------------
(***************************************************************************)
(* What holds of the libraries of a controller and a worker, for any set   *)
(* of libraries, any capacities of the caches, any versions, and any       *)
(* number of crashes: first what the operations of the LRU cache do to a   *)
(* cache, then the inductive invariant of the two registries.              *)
(***************************************************************************)
EXTENDS UdpRegistry, SequenceTheorems, TLAPS

-----------------------------------------------------------------------------
(***************************************************************************)
(* LRU caches.                                                             *)
(***************************************************************************)
Entry == [key : Libs, value : Content]

\* The list and the map of a cache fit together: a key has one item.
IsCache(items, cap) ==
    /\ items \in Seq(Entry)
    /\ Len(items) <= cap
    /\ \A n, m \in 1..Len(items) : items[n].key = items[m].key => n = m

Within(a, b) == \A n \in 1..Len(a) : \E m \in 1..Len(b) : a[n] = b[m]

WithinOr(a, b, e) ==
    \A n \in 1..Len(a) : a[n] = e \/ \E m \in 1..Len(b) : a[n] = b[m]

\* RemoveAt() keeps the order of the other elements.
LEMMA RemoveAtFacts ==
    ASSUME NEW S, NEW s \in Seq(S), NEW i \in 1..Len(s)
    PROVE  /\ RemoveAt(s, i) \in Seq(S)
           /\ Len(RemoveAt(s, i)) = Len(s) - 1
           /\ \A n \in 1..(Len(s) - 1) :
                 RemoveAt(s, i)[n] = IF n < i THEN s[n] ELSE s[n + 1]
  <1> DEFINE a == SubSeq(s, 1, i - 1)
             b == SubSeq(s, i + 1, Len(s))
  <1>1. /\ a \in Seq(S) /\ Len(a) = i - 1
        /\ \A n \in 1..(i - 1) : a[n] = s[n]
    OBVIOUS
  <1>2. /\ b \in Seq(S) /\ Len(b) = Len(s) - i
        /\ \A n \in 1..(Len(s) - i) : b[n] = s[i + n]
    OBVIOUS
  <1>3. RemoveAt(s, i) = a \o b
    BY DEF RemoveAt
  <1> HIDE DEF a, b
  <1>4. /\ a \o b \in Seq(S)
        /\ Len(a \o b) = Len(a) + Len(b)
        /\ \A n \in 1..(Len(a) + Len(b)) :
              (a \o b)[n] = IF n <= Len(a) THEN a[n] ELSE b[n - Len(a)]
    BY <1>1, <1>2, ConcatProperties, Zenon
  <1>5. ASSUME NEW n \in 1..(Len(s) - 1)
        PROVE  (a \o b)[n] = IF n < i THEN s[n] ELSE s[n + 1]
    <2>1. CASE n < i
      BY <2>1, <1>1, <1>2, <1>4
    <2>2. CASE ~(n < i)
      <3>1. n - Len(a) \in 1..(Len(s) - i) /\ i + (n - Len(a)) = n + 1
        BY <2>2, <1>1
      <3>2. b[n - Len(a)] = s[n + 1]
        BY <3>1, <1>2
      <3>. QED  BY <3>2, <2>2, <1>1, <1>2, <1>4
    <2>. QED  BY <2>1, <2>2
  <1>. QED  BY <1>1, <1>2, <1>3, <1>4, <1>5

\* Adding an element in front.
LEMMA FrontFacts ==
    ASSUME NEW S, NEW e \in S, NEW s \in Seq(S)
    PROVE  /\ <<e>> \o s \in Seq(S)
           /\ Len(<<e>> \o s) = Len(s) + 1
           /\ \A n \in 1..(Len(s) + 1) :
                 (<<e>> \o s)[n] = IF n = 1 THEN e ELSE s[n - 1]
  <1> DEFINE a == <<e>>
  <1>1. a \in Seq(S) /\ Len(a) = 1 /\ a[1] = e
    OBVIOUS
  <1> HIDE DEF a
  <1>2. /\ a \o s \in Seq(S)
        /\ Len(a \o s) = Len(a) + Len(s)
        /\ \A n \in 1..(Len(a) + Len(s)) :
              (a \o s)[n] = IF n <= Len(a) THEN a[n] ELSE s[n - Len(a)]
    BY <1>1, ConcatProperties, Zenon
  <1>3. ASSUME NEW n \in 1..(Len(s) + 1)
        PROVE  (a \o s)[n] = IF n = 1 THEN e ELSE s[n - 1]
    BY <1>1, <1>2
  <1>4. /\ a \o s \in Seq(S) /\ Len(a \o s) = Len(s) + 1
    BY <1>1, <1>2
  <1>. QED  BY <1>3, <1>4 DEF a

\* The map finds the item of a key that is there.
LEMMA FindFacts ==
    ASSUME NEW items, NEW key, contains(items, key)
    PROVE  /\ Find(items, key) \in 1..Len(items)
           /\ items[Find(items, key)].key = key
  BY DEF contains, Keys, Find

\* erase(), get() and put() leave a cache; what is in it was in it before, or is
\* the item that was put.
LEMMA RemoveItem ==
    ASSUME NEW cap \in Nat, NEW items, IsCache(items, cap), NEW key,
           contains(items, key)
    PROVE  LET rest == RemoveAt(items, Find(items, key)) IN
           /\ IsCache(rest, cap) /\ Len(rest) + 1 = Len(items)
           /\ ~contains(rest, key)
           /\ Within(rest, items)
  <1> DEFINE i == Find(items, key)
             rest == RemoveAt(items, i)
  <1>1. /\ i \in 1..Len(items) /\ items[i].key = key
    BY FindFacts
  <1>2. /\ items \in Seq(Entry) /\ Len(items) <= cap
        /\ \A n, m \in 1..Len(items) : items[n].key = items[m].key => n = m
    BY DEF IsCache
  <1> HIDE DEF i
  <1>3. /\ rest \in Seq(Entry)
        /\ Len(rest) = Len(items) - 1
        /\ \A n \in 1..(Len(items) - 1) :
              rest[n] = IF n < i THEN items[n] ELSE items[n + 1]
    BY <1>1, <1>2, RemoveAtFacts
  <1> HIDE DEF rest
  <1>4. ASSUME NEW n \in 1..Len(rest)
        PROVE  \E m \in 1..Len(items) : m # i /\ rest[n] = items[m] /\ m = IF n < i THEN n ELSE n + 1
    BY <1>1, <1>2, <1>3
  <1>5. \A n \in 1..Len(rest) : rest[n].key # key
    BY <1>1, <1>2, <1>4
  <1>6. ASSUME NEW n \in 1..Len(rest), NEW m \in 1..Len(rest),
               rest[n].key = rest[m].key
        PROVE  n = m
    <2>1. PICK k \in 1..Len(items) : rest[n] = items[k] /\ k = IF n < i THEN n ELSE n + 1
      BY <1>4
    <2>2. PICK j \in 1..Len(items) : rest[m] = items[j] /\ j = IF m < i THEN m ELSE m + 1
      BY <1>4
    <2>3. k = j
      BY <2>1, <2>2, <1>2, <1>6
    <2>. QED  BY <2>1, <2>2, <2>3, <1>1, <1>2, <1>3
  <1>7. IsCache(rest, cap) /\ Len(rest) + 1 = Len(items)
    BY <1>2, <1>3, <1>6 DEF IsCache
  <1>8. Within(rest, items)
    BY <1>4 DEF Within
  <1>9. ~contains(rest, key)
    BY <1>5 DEF contains, Keys
  <1>. QED  BY <1>7, <1>8, <1>9 DEF rest, i

LEMMA PushItem ==
    ASSUME NEW cap \in Nat, NEW items, IsCache(items, cap), Len(items) + 1 <= cap,
           NEW e \in Entry, ~contains(items, e.key)
    PROVE  /\ IsCache(<<e>> \o items, cap)
           /\ WithinOr(<<e>> \o items, items, e)
  <1> DEFINE s == <<e>> \o items
  <1>1. /\ items \in Seq(Entry)
        /\ \A n, m \in 1..Len(items) : items[n].key = items[m].key => n = m
        /\ \A n \in 1..Len(items) : items[n].key # e.key
    BY DEF IsCache, contains, Keys
  <1>2. /\ s \in Seq(Entry) /\ Len(s) = Len(items) + 1
        /\ \A n \in 1..(Len(items) + 1) : s[n] = IF n = 1 THEN e ELSE items[n - 1]
    BY <1>1, FrontFacts
  <1> HIDE DEF s
  <1>3. ASSUME NEW n \in 1..Len(s)
        PROVE  \/ n = 1 /\ s[n] = e
               \/ n - 1 \in 1..Len(items) /\ s[n] = items[n - 1]
    BY <1>1, <1>2
  <1>4. ASSUME NEW n \in 1..Len(s), NEW m \in 1..Len(s), s[n].key = s[m].key
        PROVE  n = m
    <2>1. CASE n = 1
      <3>1. s[m].key = e.key
        BY <2>1, <1>1, <1>3, <1>4
      <3>2. ~(m - 1 \in 1..Len(items) /\ s[m] = items[m - 1])
        BY <3>1, <1>1
      <3>. QED  BY <3>2, <2>1, <1>3
    <2>2. CASE m = 1
      <3>1. s[n].key = e.key
        BY <2>2, <1>1, <1>3, <1>4
      <3>2. ~(n - 1 \in 1..Len(items) /\ s[n] = items[n - 1])
        BY <3>1, <1>1
      <3>. QED  BY <3>2, <2>2, <1>3
    <2>3. CASE n # 1 /\ m # 1
      <3>1. /\ n - 1 \in 1..Len(items) /\ s[n] = items[n - 1]
            /\ m - 1 \in 1..Len(items) /\ s[m] = items[m - 1]
        BY <2>3, <1>3
      <3>2. n - 1 = m - 1
        BY <3>1, <1>1, <1>4
      <3>. QED  BY <3>2, <1>1, <1>2
    <2>. QED  BY <2>1, <2>2, <2>3
  <1>5. WithinOr(s, items, e)
    BY <1>3 DEF WithinOr
  <1>6. IsCache(s, cap)
    BY <1>1, <1>2, <1>4 DEF IsCache
  <1>. QED  BY <1>5, <1>6 DEF s

LEMMA EraseFacts ==
    ASSUME NEW cap \in Nat, NEW items, IsCache(items, cap), NEW key
    PROVE  /\ IsCache(erase(items, key), cap)
           /\ ~contains(erase(items, key), key)
           /\ Within(erase(items, key), items)
  <1>1. CASE contains(items, key)
    BY <1>1, RemoveItem DEF erase
  <1>2. CASE ~contains(items, key)
    <2>1. erase(items, key) = items
      BY <1>2 DEF erase
    <2>2. Within(items, items)
      BY DEF Within
    <2>. QED  BY <1>2, <2>1, <2>2
  <1>. QED  BY <1>1, <1>2

LEMMA MoveFacts ==
    ASSUME NEW cap \in Nat, NEW items, IsCache(items, cap), NEW key,
           contains(items, key)
    PROVE  /\ IsCache(MoveToFront(items, key), cap)
           /\ Within(MoveToFront(items, key), items)
  <1> DEFINE e == items[Find(items, key)]
             rest == RemoveAt(items, Find(items, key))
  <1>1. /\ Find(items, key) \in 1..Len(items) /\ e.key = key
    BY FindFacts
  <1>2. /\ IsCache(rest, cap) /\ Len(rest) + 1 = Len(items)
        /\ ~contains(rest, key) /\ Within(rest, items)
    BY RemoveItem
  <1>3. e \in Entry /\ Len(items) <= cap
    BY <1>1 DEF IsCache
  <1>4. MoveToFront(items, key) = <<e>> \o rest
    BY DEF MoveToFront
  <1>5. \E m \in 1..Len(items) : e = items[m]
    BY <1>1
  <1> HIDE DEF e, rest
  <1>6. IsCache(<<e>> \o rest, cap) /\ WithinOr(<<e>> \o rest, rest, e)
    <2>1. Len(rest) + 1 <= cap /\ ~contains(rest, e.key)
      BY <1>1, <1>2, <1>3
    <2>. QED  BY <2>1, <1>2, <1>3, PushItem
  <1>7. Within(<<e>> \o rest, items)
    BY <1>2, <1>5, <1>6 DEF Within, WithinOr
  <1>. QED  BY <1>4, <1>6, <1>7

LEMMA PutFacts ==
    ASSUME NEW cap \in Nat \ {0}, NEW items, IsCache(items, cap),
           NEW key \in Libs, NEW value \in Content
    PROVE  /\ IsCache(put(items, cap, key, value), cap)
           /\ WithinOr(put(items, cap, key, value), items, Item(key, value))
  <1> DEFINE e == Item(key, value)
  <1>1. e \in Entry /\ e.key = key
    BY DEF Item, Entry
  <1>2. CASE contains(items, key)
    <2> DEFINE rest == RemoveAt(items, Find(items, key))
    <2>1. /\ IsCache(rest, cap) /\ Len(rest) + 1 = Len(items)
          /\ ~contains(rest, key) /\ Within(rest, items)
      BY <1>2, RemoveItem
    <2>2. Len(items) <= cap
      BY DEF IsCache
    <2>3. put(items, cap, key, value) = <<e>> \o rest
      BY <1>2 DEF put
    <2> HIDE DEF e, rest
    <2>4. IsCache(<<e>> \o rest, cap) /\ WithinOr(<<e>> \o rest, rest, e)
      <3>1. Len(rest) + 1 <= cap /\ ~contains(rest, e.key)
        BY <1>1, <2>1, <2>2
      <3>. QED  BY <3>1, <2>1, <1>1, PushItem
    <2>5. WithinOr(<<e>> \o rest, items, e)
      BY <2>1, <2>4 DEF Within, WithinOr
    <2>. QED  BY <2>3, <2>4, <2>5 DEF e
  <1>3. CASE ~contains(items, key)
    <2> DEFINE rest == IF Len(items) >= cap THEN Front(items) ELSE items
    <2>1. /\ items \in Seq(Entry) /\ Len(items) <= cap
          /\ \A n, m \in 1..Len(items) : items[n].key = items[m].key => n = m
          /\ \A n \in 1..Len(items) : items[n].key # key
      BY <1>3 DEF IsCache, contains, Keys
    <2>2. /\ rest \in Seq(Entry) /\ Len(rest) + 1 <= cap /\ Len(rest) <= Len(items)
          /\ \A n \in 1..Len(rest) : rest[n] = items[n]
      <3>1. CASE Len(items) >= cap
        <4>1. Len(items) - 1 \in 0..Len(items)
          BY <3>1, <2>1
        <4>2. Front(items) = SubSeq(items, 1, Len(items) - 1)
          BY DEF Front
        <4>. QED  BY <4>1, <4>2, <3>1, <2>1
      <3>2. CASE ~(Len(items) >= cap)
        BY <3>2, <2>1
      <3>. QED  BY <3>1, <3>2
    <2>3. put(items, cap, key, value) = <<e>> \o rest
      BY <1>3 DEF put
    <2> HIDE DEF e, rest
    <2>4. IsCache(rest, cap) /\ ~contains(rest, key) /\ Within(rest, items)
      <3>1. \A n \in 1..Len(rest) : n \in 1..Len(items)
        BY <2>1, <2>2
      <3>2. ~contains(rest, key) /\ Within(rest, items)
        BY <3>1, <2>1, <2>2 DEF contains, Keys, Within
      <3>3. \A n, m \in 1..Len(rest) : rest[n].key = rest[m].key => n = m
        BY <3>1, <2>1, <2>2
      <3>4. rest \in Seq(Entry) /\ Len(rest) <= cap
        BY <2>1, <2>2
      <3>. QED  BY <3>2, <3>3, <3>4 DEF IsCache
    <2>5. IsCache(<<e>> \o rest, cap) /\ WithinOr(<<e>> \o rest, rest, e)
      BY <1>1, <2>2, <2>4, PushItem
    <2>6. WithinOr(<<e>> \o rest, items, e)
      BY <2>4, <2>5 DEF Within, WithinOr
    <2>. QED  BY <2>3, <2>5, <2>6 DEF e
  <1>. QED  BY <1>2, <1>3

-----------------------------------------------------------------------------
(***************************************************************************)
(* The inductive invariant.                                                *)
(***************************************************************************)
Versions == 1..MaxVersion

RegistryTypes ==
    /\ fs \in [Process -> [Libs -> Content \cup {NoFile}]]
    /\ useInMemoryCache \in [Process -> BOOLEAN]
    /\ libFilesBuffer \in [Process -> Seq(Entry)]
    /\ hashCache \in [Process -> Seq(Entry)]
    /\ libLoaders \in [Process -> [Libs -> Content \cup {NoFile}]]

WorkTypes ==
    /\ controllerUp \in BOOLEAN
    /\ work \in [Libs -> [at : {"toWorker", "worker", "toController"},
                          hash : Content] \cup {NoWork}]
    /\ thread \in [step : Steps, lib : Libs, file : Content \cup {NoFile}]
                    \cup {IdleThread}
    /\ replaced \subseteq Libs
    /\ crashes \in 0..MaxCrashes

\* A buffer that is switched off is empty, so a deleted file is not left in it.
Caches ==
    \A p \in Process :
        /\ IsCache(libFilesBuffer[p], FilesCap)
        /\ IsCache(hashCache[p], HashCap)
        /\ ~useInMemoryCache[p] => libFilesBuffer[p] = << >>

Agree(items, files) ==
    \A n \in 1..Len(items) : items[n].value = files[items[n].key]

\* What the worker keeps of a library was made from the file it has.
WorkerFiles ==
    /\ Agree(libFilesBuffer["worker"], fs["worker"])
    /\ Agree(hashCache["worker"], fs["worker"])
    /\ \A l \in Libs : libLoaders["worker"][l] \in {fs["worker"][l], NoFile} \ {Broken}

\* The worker's thread: where initialize_udp() is and what it has so far.
\* While a file is being written nothing is kept of the one before it.
Loading ==
    LET l == thread.lib IN
    /\ thread.step # "idle" => work[l].at = "worker"
    /\ thread.step \in {"hash", "fetch"} => fs["worker"][l] = NoFile
    /\ thread.step \in {"saveHash", "saveLoad"} =>
          /\ thread.file \in Versions
          /\ ~contains(libFilesBuffer["worker"], l)
          /\ ~contains(hashCache["worker"], l)
          /\ libLoaders["worker"][l] = NoFile
    /\ thread.step = "saveLoad" /\ l \notin replaced => thread.file = work[l].hash
    /\ thread.step = "run" =>
          /\ libLoaders["worker"][l] = fs["worker"][l]
          /\ fs["worker"][l] \in Versions
          /\ l \notin replaced => fs["worker"][l] = work[l].hash

Fresh(items, files, new) ==
    \A n \in 1..Len(items) :
        /\ items[n].value \in Versions
        /\ items[n].key \notin new => items[n].value = files[items[n].key]

\* The controller's files are whole, and unless one is replaced under it, its
\* caches and the hash that is sent with work are of the file it has.
ControllerFiles ==
    /\ Fresh(libFilesBuffer["controller"], fs["controller"], replaced)
    /\ Fresh(hashCache["controller"], fs["controller"], replaced)
    /\ \A l \in Libs :
          /\ fs["controller"][l] \in Versions \cup {NoFile}
          /\ libLoaders["controller"][l] \in Versions \cup {NoFile}
          /\ controllerUp => fs["controller"][l] \in Versions
    /\ replaced = {} => controllerUp

\* A hash that travels is never that of a half-written file.
SentHashes ==
    \A l \in Libs : work[l] # NoWork =>
        /\ work[l].hash \in Versions
        /\ l \notin replaced => work[l].hash = fs["controller"][l]

RegistryInv ==
    RegistryTypes /\ WorkTypes /\ Caches /\ WorkerFiles /\ Loading
      /\ ControllerFiles /\ SentHashes

-----------------------------------------------------------------------------
(***************************************************************************)
(* What a registry reads, and what its caches hold afterwards.             *)
(***************************************************************************)
LEMMA VersionFacts ==
    /\ Versions \subseteq Content /\ Broken \in Content /\ Broken \notin Versions
    /\ NoFile \notin Content
    /\ FilesCap \in Nat \ {0} /\ HashCap \in Nat \ {0}
  BY RegistryAssumption DEF Versions, Content, Broken

\* get() returns the value of the key's item.
LEMMA ValueFacts ==
    ASSUME NEW items, NEW l, contains(items, l)
    PROVE  \E n \in 1..Len(items) :
              items[n].key = l /\ ValueOf(items, l) = items[n].value
  BY FindFacts DEF ValueOf

LEMMA WithinIsWithinOr ==
    ASSUME NEW a, NEW b, NEW e, Within(a, b)
    PROVE  WithinOr(a, b, e)
  BY DEF Within, WithinOr

LEMMA AgreeWithinOr ==
    ASSUME NEW a, NEW b, NEW e, NEW files, Agree(b, files),
           e.value = files[e.key], WithinOr(a, b, e)
    PROVE  Agree(a, files)
  BY DEF Agree, WithinOr

LEMMA CacheKeys ==
    ASSUME NEW items \in Seq(Entry)
    PROVE  \A n \in 1..Len(items) : items[n].key \in Libs
  <1>1. \A n \in 1..Len(items) : items[n] \in Entry
    OBVIOUS
  <1>. QED  BY <1>1 DEF Entry

LEMMA KeysElsewhere ==
    ASSUME NEW cap, NEW a, IsCache(a, cap), NEW l, ~contains(a, l)
    PROVE  \A n \in 1..Len(a) : a[n].key \in Libs \ {l}
  <1>1. \A n \in 1..Len(a) : a[n].key \in Libs
    BY CacheKeys DEF IsCache
  <1>2. \A n \in 1..Len(a) : a[n].key # l
    BY DEF contains, Keys
  <1>. QED  BY <1>1, <1>2

LEMMA AgreeWithin ==
    ASSUME NEW a, NEW b, NEW files, Agree(b, files), Within(a, b)
    PROVE  Agree(a, files)
  BY DEF Agree, Within

LEMMA FreshWithinOr ==
    ASSUME NEW a, NEW b, NEW e, NEW files, NEW new, Fresh(b, files, new),
           e.value \in Versions, e.key \notin new => e.value = files[e.key],
           WithinOr(a, b, e)
    PROVE  Fresh(a, files, new)
  BY DEF Fresh, WithinOr

LEMMA FreshWithin ==
    ASSUME NEW a, NEW b, NEW files, NEW new, Fresh(b, files, new), Within(a, b)
    PROVE  Fresh(a, files, new)
  BY DEF Fresh, Within

LEMMA Buffered ==
    ASSUME Caches, NEW p \in Process, NEW l \in Libs, fs[p][l] \in Content
    PROVE  /\ IsCache(FileBuffered(p, l), FilesCap)
           /\ ~useInMemoryCache[p] => FileBuffered(p, l) = << >>
           /\ WithinOr(FileBuffered(p, l), libFilesBuffer[p], Item(l, fs[p][l]))
  <1> DEFINE b == libFilesBuffer[p]
             e == Item(l, fs[p][l])
  <1>1. IsCache(b, FilesCap) /\ (~useInMemoryCache[p] => b = << >>)
    BY DEF Caches
  <1> USE VersionFacts
  <1> HIDE DEF b, e
  <1>2. CASE InBuffer(p, l)
    <2>1. contains(b, l) /\ useInMemoryCache[p]
      BY <1>2 DEF InBuffer, b
    <2>2. FileBuffered(p, l) = MoveToFront(b, l)
      BY <1>2 DEF FileBuffered, b
    <2>3. IsCache(MoveToFront(b, l), FilesCap) /\ Within(MoveToFront(b, l), b)
      BY <1>1, <2>1, MoveFacts
    <2>4. WithinOr(MoveToFront(b, l), b, e)
      BY <2>3, WithinIsWithinOr
    <2>. QED  BY <2>1, <2>2, <2>3, <2>4 DEF b, e
  <1>3. CASE ~InBuffer(p, l) /\ useInMemoryCache[p]
    <2>1. FileBuffered(p, l) = put(b, FilesCap, l, fs[p][l])
      BY <1>3 DEF FileBuffered, b
    <2>. QED  BY <1>1, <1>3, <2>1, PutFacts DEF b, e
  <1>4. CASE ~InBuffer(p, l) /\ ~useInMemoryCache[p]
    <2>1. FileBuffered(p, l) = b
      BY <1>4 DEF FileBuffered, b
    <2>2. WithinOr(b, b, e)
      BY DEF WithinOr
    <2>. QED  BY <1>1, <1>4, <2>1, <2>2 DEF b, e
  <1>. QED  BY <1>2, <1>3, <1>4

LEMMA Hashed ==
    ASSUME Caches, NEW p \in Process, NEW l \in Libs, NEW content \in Content
    PROVE  /\ IsCache(HashCached(p, l, content), HashCap)
           /\ WithinOr(HashCached(p, l, content), hashCache[p], Item(l, content))
  <1> USE VersionFacts
  <1>1. IsCache(hashCache[p], HashCap)
    BY DEF Caches
  <1>2. CASE contains(hashCache[p], l)
    <2>1. /\ IsCache(MoveToFront(hashCache[p], l), HashCap)
          /\ Within(MoveToFront(hashCache[p], l), hashCache[p])
      BY <1>1, <1>2, MoveFacts
    <2>2. WithinOr(MoveToFront(hashCache[p], l), hashCache[p], Item(l, content))
      BY <2>1, WithinIsWithinOr
    <2>. QED  BY <1>2, <2>1, <2>2 DEF HashCached
  <1>3. CASE ~contains(hashCache[p], l)
    <2>1. HashCached(p, l, content) = put(hashCache[p], HashCap, l, content)
      BY <1>3 DEF HashCached
    <2>. QED  BY <1>1, <2>1, PutFacts
  <1>. QED  BY <1>2, <1>3

LEMMA Erased ==
    ASSUME NEW p \in Process, NEW l, NEW files, IsCache(files, FilesCap),
           ~useInMemoryCache[p] => files = << >>
    PROVE  /\ IsCache(BufferErased(p, files, l), FilesCap)
           /\ ~contains(BufferErased(p, files, l), l)
           /\ Within(BufferErased(p, files, l), files)
           /\ ~useInMemoryCache[p] => BufferErased(p, files, l) = << >>
  <1> USE VersionFacts
  <1>1. CASE useInMemoryCache[p]
    <2>1. BufferErased(p, files, l) = erase(files, l)
      BY <1>1 DEF BufferErased
    <2>2. /\ IsCache(erase(files, l), FilesCap) /\ ~contains(erase(files, l), l)
          /\ Within(erase(files, l), files)
      BY EraseFacts
    <2>. QED  BY <1>1, <2>1, <2>2
  <1>2. CASE ~useInMemoryCache[p]
    <2>1. BufferErased(p, files, l) = files /\ files = << >>
      BY <1>2 DEF BufferErased
    <2>2. ~contains(<< >>, l)
      BY DEF contains, Keys
    <2>3. Within(files, files)
      BY DEF Within
    <2>. QED  BY <2>1, <2>2, <2>3
  <1>. QED  BY <1>1, <1>2

\* The worker reads its file, from wherever it does.
LEMMA WorkerReads ==
    ASSUME Caches, WorkerFiles, NEW l \in Libs
    PROVE  /\ FileContent("worker", l) = fs["worker"][l]
           /\ FileHash("worker", l, fs["worker"][l]) = fs["worker"][l]
  <1>1. contains(libFilesBuffer["worker"], l) =>
          ValueOf(libFilesBuffer["worker"], l) = fs["worker"][l]
    BY ValueFacts DEF WorkerFiles, Agree
  <1>2. contains(hashCache["worker"], l) =>
          ValueOf(hashCache["worker"], l) = fs["worker"][l]
    BY ValueFacts DEF WorkerFiles, Agree
  <1>. QED  BY <1>1, <1>2 DEF FileContent, FileHash, InBuffer

\* So does the controller, unless the file was replaced; what it reads is whole.
LEMMA ControllerReads ==
    ASSUME Caches, ControllerFiles, NEW l \in Libs, fs["controller"][l] \in Versions
    PROVE  /\ FileContent("controller", l) \in Versions
           /\ l \notin replaced => FileContent("controller", l) = fs["controller"][l]
           /\ FileHash("controller", l, FileContent("controller", l)) \in Versions
           /\ l \notin replaced =>
                FileHash("controller", l, FileContent("controller", l))
                  = fs["controller"][l]
  <1>1. contains(libFilesBuffer["controller"], l) =>
          /\ ValueOf(libFilesBuffer["controller"], l) \in Versions
          /\ l \notin replaced =>
               ValueOf(libFilesBuffer["controller"], l) = fs["controller"][l]
    BY ValueFacts DEF ControllerFiles, Fresh
  <1>2. contains(hashCache["controller"], l) =>
          /\ ValueOf(hashCache["controller"], l) \in Versions
          /\ l \notin replaced =>
               ValueOf(hashCache["controller"], l) = fs["controller"][l]
    BY ValueFacts DEF ControllerFiles, Fresh
  <1>. QED  BY <1>1, <1>2 DEF FileContent, FileHash, InBuffer

-----------------------------------------------------------------------------
(***************************************************************************)
(* The two ends of initialize_udp().                                       *)
(***************************************************************************)
SameRegistry(q) ==
    /\ fs'[q] = fs[q] /\ libFilesBuffer'[q] = libFilesBuffer[q]
    /\ hashCache'[q] = hashCache[q] /\ libLoaders'[q] = libLoaders[q]

LEMMA KeepFacts ==
    ASSUME RegistryTypes, Caches, NEW p \in Process, NEW l \in Libs,
           NEW files, IsCache(files, FilesCap),
           ~useInMemoryCache[p] => files = << >>,
           NEW hashes, IsCache(hashes, HashCap), NEW disk \in Content,
           KeepAndLoad(p, l, files, hashes, disk)
    PROVE  /\ RegistryTypes' /\ Caches'
           /\ \A q \in Process \ {p} : SameRegistry(q)
           /\ fs'[p] = [fs[p] EXCEPT ![l] = disk]
           /\ libFilesBuffer'[p] = files /\ hashCache'[p] = hashes
           /\ libLoaders'[p] = [libLoaders[p] EXCEPT ![l] = IF @ = NoFile THEN disk ELSE @]
  <1>1. /\ libFilesBuffer' = [libFilesBuffer EXCEPT ![p] = files]
        /\ hashCache' = [hashCache EXCEPT ![p] = hashes]
        /\ fs' = [fs EXCEPT ![p][l] = disk]
        /\ libLoaders' = [libLoaders EXCEPT ![p][l] = IF @ = NoFile THEN disk ELSE @]
        /\ useInMemoryCache' = useInMemoryCache
    BY DEF KeepAndLoad
  <1>2. files \in Seq(Entry) /\ hashes \in Seq(Entry)
    BY DEF IsCache
  <1>3. RegistryTypes'
    BY <1>1, <1>2 DEF RegistryTypes
  <1>4. /\ \A q \in Process \ {p} : SameRegistry(q)
        /\ fs'[p] = [fs[p] EXCEPT ![l] = disk]
        /\ libFilesBuffer'[p] = files /\ hashCache'[p] = hashes
        /\ libLoaders'[p] = [libLoaders[p] EXCEPT ![l] = IF @ = NoFile THEN disk ELSE @]
    BY <1>1 DEF RegistryTypes, SameRegistry
  <1>5. ASSUME NEW q \in Process
        PROVE  /\ IsCache(libFilesBuffer'[q], FilesCap)
               /\ IsCache(hashCache'[q], HashCap)
               /\ ~useInMemoryCache'[q] => libFilesBuffer'[q] = << >>
    <2>1. CASE q = p
      BY <2>1, <1>1, <1>4
    <2>2. CASE q # p
      BY <2>2, <1>1, <1>4 DEF SameRegistry, Caches
    <2>. QED  BY <2>1, <2>2
  <1>6. Caches'
    BY <1>5 DEF Caches
  <1>. QED  BY <1>3, <1>4, <1>6

LEMMA DeleteFacts ==
    ASSUME RegistryTypes, Caches, NEW p \in Process, NEW l \in Libs,
           NEW files, IsCache(files, FilesCap),
           ~useInMemoryCache[p] => files = << >>,
           NEW hashes, IsCache(hashes, HashCap),
           UnloadAndDelete(p, l, files, hashes)
    PROVE  /\ RegistryTypes' /\ Caches'
           /\ \A q \in Process \ {p} : SameRegistry(q)
           /\ fs'[p] = [fs[p] EXCEPT ![l] = NoFile]
           /\ Within(libFilesBuffer'[p], files) /\ ~contains(libFilesBuffer'[p], l)
           /\ Within(hashCache'[p], hashes) /\ ~contains(hashCache'[p], l)
           /\ libLoaders'[p] = [libLoaders[p] EXCEPT ![l] = NoFile]
  <1> USE VersionFacts
  <1> DEFINE f == BufferErased(p, files, l)
             h == erase(hashes, l)
  <1>1. /\ libFilesBuffer' = [libFilesBuffer EXCEPT ![p] = f]
        /\ hashCache' = [hashCache EXCEPT ![p] = h]
        /\ fs' = [fs EXCEPT ![p][l] = NoFile]
        /\ libLoaders' = [libLoaders EXCEPT ![p][l] = NoFile]
        /\ useInMemoryCache' = useInMemoryCache
    BY DEF UnloadAndDelete
  <1>2. /\ IsCache(f, FilesCap) /\ ~contains(f, l) /\ Within(f, files)
        /\ ~useInMemoryCache[p] => f = << >>
    BY Erased
  <1>3. IsCache(h, HashCap) /\ ~contains(h, l) /\ Within(h, hashes)
    BY EraseFacts
  <1> HIDE DEF f, h
  <1>4. f \in Seq(Entry) /\ h \in Seq(Entry)
    BY <1>2, <1>3 DEF IsCache
  <1>5. RegistryTypes'
    BY <1>1, <1>4 DEF RegistryTypes
  <1>6. /\ \A q \in Process \ {p} : SameRegistry(q)
        /\ fs'[p] = [fs[p] EXCEPT ![l] = NoFile]
        /\ libFilesBuffer'[p] = f /\ hashCache'[p] = h
        /\ libLoaders'[p] = [libLoaders[p] EXCEPT ![l] = NoFile]
    BY <1>1 DEF RegistryTypes, SameRegistry
  <1>7. ASSUME NEW q \in Process
        PROVE  /\ IsCache(libFilesBuffer'[q], FilesCap)
               /\ IsCache(hashCache'[q], HashCap)
               /\ ~useInMemoryCache'[q] => libFilesBuffer'[q] = << >>
    <2>1. CASE q = p
      BY <2>1, <1>1, <1>2, <1>3, <1>6
    <2>2. CASE q # p
      BY <2>2, <1>1, <1>6 DEF SameRegistry, Caches
    <2>. QED  BY <2>1, <2>2
  <1>8. Caches'
    BY <1>7 DEF Caches
  <1>. QED  BY <1>2, <1>3, <1>5, <1>6, <1>8

\* The worker compares the file it has read or got with the hash of the work:
\* the library is loaded from the very file that matches, or nothing is left of
\* it.
LEMMA CompareFacts ==
    ASSUME RegistryTypes, Caches, NEW l \in Libs, work[l].hash \in Versions,
           NEW content \in Content,
           NEW F, F = [fs["worker"] EXCEPT ![l] = content],
           NEW files, IsCache(files, FilesCap), Agree(files, F),
           ~useInMemoryCache["worker"] => files = << >>,
           Agree(hashCache["worker"], F),
           \A k \in Libs : libLoaders["worker"][k] \in {F[k], NoFile} \ {Broken},
           CompareAndLoad(l, files, content, content)
    PROVE  /\ RegistryTypes' /\ Caches' /\ WorkerFiles'
           /\ SameRegistry("controller")
           /\ \/ /\ thread' = At("run", l, NoFile)
                 /\ libLoaders'["worker"][l] = fs'["worker"][l]
                 /\ fs'["worker"][l] = work[l].hash
              \/ /\ thread' = At("fetch", l, NoFile)
                 /\ fs'["worker"][l] = NoFile
  <1> USE VersionFacts
  <1> DEFINE hashes == HashCached("worker", l, content)
  <1>1. "worker" \in Process /\ "controller" \in Process \ {"worker"}
    BY DEF Process
  <1>2. F[l] = content /\ \A k \in Libs \ {l} : F[k] = fs["worker"][k]
    BY <1>1 DEF RegistryTypes
  <1>3. FileHash("worker", l, content) = content
    <2>1. contains(hashCache["worker"], l) => ValueOf(hashCache["worker"], l) = F[l]
      BY ValueFacts DEF Agree
    <2>. QED  BY <2>1, <1>2 DEF FileHash
  <1>4. IsCache(hashes, HashCap) /\ Agree(hashes, F)
    <2>1. /\ IsCache(hashes, HashCap)
          /\ WithinOr(hashes, hashCache["worker"], Item(l, content))
      BY <1>1, Hashed
    <2>2. Item(l, content).value = F[Item(l, content).key]
      BY <1>2 DEF Item
    <2>. QED  BY <2>1, <2>2, AgreeWithinOr
  <1> HIDE DEF hashes
  <1>5. CASE content = work[l].hash
    <2>1. /\ KeepAndLoad("worker", l, files, hashes, content)
          /\ thread' = At("run", l, NoFile)
      BY <1>3, <1>5 DEF CompareAndLoad, Matches, hashes
    <2>2. /\ RegistryTypes' /\ Caches'
          /\ \A q \in Process \ {"worker"} : SameRegistry(q)
          /\ fs'["worker"] = F
          /\ libFilesBuffer'["worker"] = files /\ hashCache'["worker"] = hashes
          /\ libLoaders'["worker"] = [libLoaders["worker"] EXCEPT ![l] = IF @ = NoFile THEN content ELSE @]
      BY <2>1, <1>1, <1>4, KeepFacts
    <2>3. content \in Versions
      BY <1>5
    <2>4. \A k \in Libs : libLoaders'["worker"][k] \in {F[k], NoFile} \ {Broken}
      BY <2>2, <2>3, <1>1, <1>2 DEF RegistryTypes
    <2>5. libLoaders'["worker"][l] = F[l]
      BY <2>2, <1>1, <1>2 DEF RegistryTypes
    <2>6. WorkerFiles'
      BY <2>2, <2>4, <1>4 DEF WorkerFiles
    <2>. QED  BY <2>1, <2>2, <2>5, <2>6, <1>1, <1>2, <1>5
  <1>6. CASE content # work[l].hash
    <2>1. /\ UnloadAndDelete("worker", l, files, hashes)
          /\ thread' = At("fetch", l, NoFile)
      BY <1>3, <1>6 DEF CompareAndLoad, Matches, hashes
    <2>2. /\ RegistryTypes' /\ Caches'
          /\ \A q \in Process \ {"worker"} : SameRegistry(q)
          /\ fs'["worker"] = [fs["worker"] EXCEPT ![l] = NoFile]
          /\ Within(libFilesBuffer'["worker"], files)
          /\ ~contains(libFilesBuffer'["worker"], l)
          /\ Within(hashCache'["worker"], hashes) /\ ~contains(hashCache'["worker"], l)
          /\ libLoaders'["worker"] = [libLoaders["worker"] EXCEPT ![l] = NoFile]
      BY <2>1, <1>1, <1>4, DeleteFacts
    <2>3. /\ fs'["worker"][l] = NoFile
          /\ \A k \in Libs \ {l} : F[k] = fs'["worker"][k]
      BY <2>2, <1>1, <1>2 DEF RegistryTypes
    <2>4. /\ Agree(libFilesBuffer'["worker"], F) /\ Agree(hashCache'["worker"], F)
      BY <2>2, <1>4, AgreeWithin
    <2>5. IsCache(libFilesBuffer'["worker"], FilesCap) /\ IsCache(hashCache'["worker"], HashCap)
      BY <2>2, <1>1 DEF Caches
    <2>6. Agree(libFilesBuffer'["worker"], fs'["worker"])
      <3>1. \A n \in 1..Len(libFilesBuffer'["worker"]) :
              libFilesBuffer'["worker"][n].key \in Libs \ {l}
        BY <2>2, <2>5, KeysElsewhere
      <3>. QED  BY <3>1, <2>3, <2>4 DEF Agree
    <2>7. Agree(hashCache'["worker"], fs'["worker"])
      <3>1. \A n \in 1..Len(hashCache'["worker"]) :
              hashCache'["worker"][n].key \in Libs \ {l}
        BY <2>2, <2>5, KeysElsewhere
      <3>. QED  BY <3>1, <2>3, <2>4 DEF Agree
    <2>8. \A k \in Libs : libLoaders'["worker"][k] \in {fs'["worker"][k], NoFile} \ {Broken}
      BY <2>2, <2>3, <1>1 DEF RegistryTypes
    <2>9. WorkerFiles'
      BY <2>6, <2>7, <2>8 DEF WorkerFiles
    <2>. QED  BY <2>1, <2>2, <2>3, <2>9, <1>1
  <1>. QED  BY <1>5, <1>6

-----------------------------------------------------------------------------
(***************************************************************************)
(* Every step keeps the invariant.  First the controller's steps.          *)
(***************************************************************************)
LEMMA ProcessFacts ==
    /\ "worker" \in Process /\ "controller" \in Process
    /\ "worker" # "controller"
    /\ \A p \in Process : p = "worker" \/ p = "controller"
    /\ "controller" \in Process \ {"worker"} /\ "worker" \in Process \ {"controller"}
  BY DEF Process

\* Loading and WorkerFiles only speak of the worker's registry, its thread and
\* what it was sent.
LEMMA WorkerUntouched ==
    ASSUME RegistryInv, SameRegistry("worker"), thread' = thread,
           replaced \subseteq replaced',
           thread.step # "idle" => work'[thread.lib] = work[thread.lib]
    PROVE  WorkerFiles' /\ Loading'
  <1>1. WorkerFiles'
    BY DEF RegistryInv, WorkerFiles, SameRegistry
  <1>2. Loading'
    <2>1. CASE thread.step # "idle"
      BY <2>1 DEF RegistryInv, Loading, SameRegistry
    <2>2. CASE thread.step = "idle"
      BY <2>2 DEF Loading
    <2>. QED  BY <2>1, <2>2
  <1>. QED  BY <1>1, <1>2

\* The controller has read a library and its hash: its caches stay fresh.
LEMMA ControllerCaches ==
    ASSUME Caches, ControllerFiles, NEW l \in Libs, fs["controller"][l] \in Versions
    PROVE  LET files  == FileBuffered("controller", l)
               hashes == HashCached("controller", l, FileContent("controller", l))
           IN /\ IsCache(files, FilesCap)
              /\ ~useInMemoryCache["controller"] => files = << >>
              /\ Fresh(files, fs["controller"], replaced)
              /\ IsCache(hashes, HashCap)
              /\ Fresh(hashes, fs["controller"], replaced)
  <1> USE VersionFacts, ProcessFacts
  <1> DEFINE file == FileContent("controller", l)
             files == FileBuffered("controller", l)
             hashes == HashCached("controller", l, file)
  <1>1. /\ file \in Versions
        /\ l \notin replaced => file = fs["controller"][l]
    BY ControllerReads
  <1>2. /\ IsCache(files, FilesCap)
        /\ ~useInMemoryCache["controller"] => files = << >>
        /\ Fresh(files, fs["controller"], replaced)
    <2>1. /\ IsCache(files, FilesCap)
          /\ ~useInMemoryCache["controller"] => files = << >>
          /\ WithinOr(files, libFilesBuffer["controller"], Item(l, fs["controller"][l]))
      BY Buffered
    <2>2. /\ Item(l, fs["controller"][l]).key = l
          /\ Item(l, fs["controller"][l]).value = fs["controller"][l]
      BY DEF Item
    <2>. QED  BY <2>1, <2>2, FreshWithinOr DEF ControllerFiles
  <1>3. IsCache(hashes, HashCap) /\ Fresh(hashes, fs["controller"], replaced)
    <2>1. /\ IsCache(hashes, HashCap)
          /\ WithinOr(hashes, hashCache["controller"], Item(l, file))
      BY <1>1, Hashed
    <2>2. Item(l, file).key = l /\ Item(l, file).value = file
      BY DEF Item
    <2>. QED  BY <2>1, <2>2, <1>1, FreshWithinOr DEF ControllerFiles
  <1>. QED  BY <1>2, <1>3

\* Work that is not with the worker is not what its thread is busy with.
LEMMA ThreadElsewhere ==
    ASSUME RegistryInv, NEW l \in Libs, work[l].at # "worker", thread.step # "idle"
    PROVE  thread.lib \in Libs \ {l}
  <1>1. thread.lib \in Libs
    BY DEF RegistryInv, WorkTypes, IdleThread
  <1>. QED  BY <1>1 DEF RegistryInv, Loading

LEMMA ConstructKeeps ==
    ASSUME RegistryInv, NEW l \in Libs, construct_udp(l)
    PROVE  RegistryInv'
  <1> USE VersionFacts, ProcessFacts
  <1>1. /\ controllerUp
        /\ libLoaders' = [libLoaders EXCEPT !["controller"][l] = fs["controller"][l]]
        /\ UNCHANGED <<fs, useInMemoryCache, libFilesBuffer, hashCache, controllerUp,
                       work, thread, replaced, crashes>>
    BY DEF construct_udp
  <1>2. fs["controller"][l] \in Versions
    BY <1>1 DEF RegistryInv, ControllerFiles
  <1>3. RegistryTypes' /\ WorkTypes'
    BY <1>1 DEF RegistryInv, RegistryTypes, WorkTypes
  <1>4. Caches' /\ SentHashes'
    BY <1>1 DEF RegistryInv, Caches, SentHashes
  <1>5. SameRegistry("worker")
    BY <1>1 DEF RegistryInv, RegistryTypes, SameRegistry
  <1>6. WorkerFiles' /\ Loading'
    BY <1>1, <1>5, WorkerUntouched
  <1>7. ControllerFiles'
    <2>1. \A k \in Libs : libLoaders'["controller"][k] \in Versions \cup {NoFile}
      BY <1>1, <1>2 DEF RegistryInv, RegistryTypes, ControllerFiles
    <2>. QED  BY <1>1, <2>1 DEF RegistryInv, ControllerFiles
  <1>. QED  BY <1>3, <1>4, <1>6, <1>7 DEF RegistryInv

LEMMA SaveWorkKeeps ==
    ASSUME RegistryInv, NEW l \in Libs, SaveWork(l)
    PROVE  RegistryInv'
  <1> USE VersionFacts, ProcessFacts
  <1> DEFINE file == FileContent("controller", l)
             files == FileBuffered("controller", l)
             hash == FileHash("controller", l, file)
             hashes == HashCached("controller", l, file)
  <1>1. /\ controllerUp /\ work[l] = NoWork
        /\ work' = [work EXCEPT ![l] = [at |-> "toWorker", hash |-> hash]]
        /\ hashCache' = [hashCache EXCEPT !["controller"] = hashes]
        /\ libFilesBuffer' = [libFilesBuffer EXCEPT !["controller"] = files]
        /\ UNCHANGED <<fs, useInMemoryCache, libLoaders, controllerUp, thread,
                       replaced, crashes>>
    BY DEF SaveWork
  <1>2. Caches /\ ControllerFiles /\ fs["controller"][l] \in Versions
    BY <1>1 DEF RegistryInv, ControllerFiles
  <1>3. /\ file \in Versions /\ hash \in Versions
        /\ l \notin replaced => file = fs["controller"][l] /\ hash = fs["controller"][l]
    BY <1>2, ControllerReads
  <1>4. /\ IsCache(files, FilesCap)
        /\ ~useInMemoryCache["controller"] => files = << >>
        /\ Fresh(files, fs["controller"], replaced)
        /\ IsCache(hashes, HashCap)
        /\ Fresh(hashes, fs["controller"], replaced)
    BY <1>2, ControllerCaches
  <1> HIDE DEF file, files, hash, hashes
  <1>6. files \in Seq(Entry) /\ hashes \in Seq(Entry)
    BY <1>4 DEF IsCache
  <1>7. RegistryTypes'
    BY <1>1, <1>6 DEF RegistryInv, RegistryTypes
  <1>8. WorkTypes'
    <2>1. [at |-> "toWorker", hash |-> hash] \in
            [at : {"toWorker", "worker", "toController"}, hash : Content]
      BY <1>3
    <2>. QED  BY <1>1, <2>1 DEF RegistryInv, WorkTypes
  <1>9. /\ libFilesBuffer'["controller"] = files /\ hashCache'["controller"] = hashes
        /\ libFilesBuffer'["worker"] = libFilesBuffer["worker"]
        /\ hashCache'["worker"] = hashCache["worker"]
    BY <1>1 DEF RegistryInv, RegistryTypes
  <1>10. Caches'
    BY <1>1, <1>2, <1>4, <1>9 DEF Caches
  <1>11. WorkerFiles' /\ Loading'
    <2>1. SameRegistry("worker")
      BY <1>1, <1>9 DEF SameRegistry
    <2>2. thread.step # "idle" => work'[thread.lib] = work[thread.lib]
      BY <1>1, ThreadElsewhere DEF RegistryInv, WorkTypes, NoWork
    <2>. QED  BY <1>1, <2>1, <2>2, WorkerUntouched
  <1>12. ControllerFiles'
    BY <1>1, <1>2, <1>4, <1>9 DEF ControllerFiles
  <1>13. SentHashes'
    <2>1. work'[l].hash = hash /\ \A k \in Libs \ {l} : work'[k] = work[k]
      BY <1>1 DEF RegistryInv, WorkTypes
    <2>. QED  BY <1>1, <1>3, <2>1 DEF RegistryInv, SentHashes
  <1>. QED  BY <1>7, <1>8, <1>10, <1>11, <1>12, <1>13 DEF RegistryInv

LEMMA LoadResultsKeeps ==
    ASSUME RegistryInv, NEW l \in Libs, LoadResults(l)
    PROVE  RegistryInv'
  <1> USE VersionFacts, ProcessFacts
  <1> DEFINE file == FileContent("controller", l)
             files == FileBuffered("controller", l)
             hash == FileHash("controller", l, file)
             hashes == HashCached("controller", l, file)
  <1>1. /\ controllerUp /\ work[l].at = "toController"
        /\ IF hash = work[l].hash
           THEN /\ KeepAndLoad("controller", l, files, hashes, fs["controller"][l])
                /\ controllerUp' = controllerUp
           ELSE /\ UnloadAndDelete("controller", l, files, hashes)
                /\ controllerUp' = FALSE
        /\ work' = [work EXCEPT ![l] = NoWork]
        /\ UNCHANGED <<thread, replaced, crashes>>
    BY DEF LoadResults
  <1>2. Caches /\ ControllerFiles /\ fs["controller"][l] \in Versions
    BY <1>1 DEF RegistryInv, ControllerFiles
  <1>3. /\ file \in Versions /\ hash \in Versions
        /\ l \notin replaced => hash = fs["controller"][l]
    BY <1>2, ControllerReads
  <1>4. /\ IsCache(files, FilesCap)
        /\ ~useInMemoryCache["controller"] => files = << >>
        /\ Fresh(files, fs["controller"], replaced)
        /\ IsCache(hashes, HashCap)
        /\ Fresh(hashes, fs["controller"], replaced)
    BY <1>2, ControllerCaches
  <1>5. work[l] # NoWork
    BY <1>1 DEF NoWork
  <1>6. l \notin replaced => hash = work[l].hash
    BY <1>3, <1>5 DEF RegistryInv, SentHashes
  <1>7. RegistryTypes
    BY DEF RegistryInv
  <1>8. WorkTypes'
    BY <1>1 DEF RegistryInv, WorkTypes
  <1>9. /\ work'[l] = NoWork
        /\ \A k \in Libs \ {l} : work'[k] = work[k]
    BY <1>1 DEF RegistryInv, WorkTypes
  <1>10. thread.step # "idle" => work'[thread.lib] = work[thread.lib]
    <2>1. thread.step # "idle" => thread.lib \in Libs \ {l}
      BY <1>1, ThreadElsewhere
    <2>. QED  BY <1>9, <2>1
  <1> HIDE DEF file, files, hash, hashes
  <1>11. CASE hash = work[l].hash
    <2>1. /\ KeepAndLoad("controller", l, files, hashes, fs["controller"][l])
          /\ controllerUp'
      BY <1>1, <1>11
    <2>2. /\ RegistryTypes' /\ Caches'
          /\ \A q \in Process \ {"controller"} : SameRegistry(q)
          /\ fs'["controller"] = [fs["controller"] EXCEPT ![l] = fs["controller"][l]]
          /\ libFilesBuffer'["controller"] = files /\ hashCache'["controller"] = hashes
          /\ libLoaders'["controller"] =
               [libLoaders["controller"] EXCEPT ![l] =
                  IF @ = NoFile THEN fs["controller"][l] ELSE @]
      BY <2>1, <1>2, <1>4, <1>7, KeepFacts
    <2>3. fs'["controller"] = fs["controller"]
      BY <2>2, <1>7 DEF RegistryTypes
    <2>4. \A k \in Libs : libLoaders'["controller"][k] \in Versions \cup {NoFile}
      BY <2>2, <1>2, <1>7 DEF RegistryTypes, ControllerFiles
    <2>5. ControllerFiles'
      BY <2>1, <2>2, <2>3, <2>4, <1>1, <1>2, <1>4 DEF ControllerFiles
    <2>6. SentHashes'
      BY <2>3, <1>1, <1>9 DEF RegistryInv, SentHashes
    <2>7. WorkerFiles' /\ Loading'
      BY <2>2, <1>1, <1>10, WorkerUntouched
    <2>. QED  BY <2>2, <2>5, <2>6, <2>7, <1>8 DEF RegistryInv
  <1>12. CASE hash # work[l].hash
    <2>1. /\ UnloadAndDelete("controller", l, files, hashes)
          /\ ~controllerUp' /\ l \in replaced
      BY <1>1, <1>6, <1>12
    <2>2. /\ RegistryTypes' /\ Caches'
          /\ \A q \in Process \ {"controller"} : SameRegistry(q)
          /\ fs'["controller"] = [fs["controller"] EXCEPT ![l] = NoFile]
          /\ Within(libFilesBuffer'["controller"], files)
          /\ Within(hashCache'["controller"], hashes)
          /\ libLoaders'["controller"] = [libLoaders["controller"] EXCEPT ![l] = NoFile]
      BY <2>1, <1>2, <1>4, <1>7, DeleteFacts
    <2>3. /\ fs'["controller"][l] = NoFile
          /\ \A k \in Libs \ {l} : fs'["controller"][k] = fs["controller"][k]
      BY <2>2, <1>7 DEF RegistryTypes
    <2>4. /\ Fresh(libFilesBuffer'["controller"], fs["controller"], replaced)
          /\ Fresh(hashCache'["controller"], fs["controller"], replaced)
      BY <2>2, <1>4, FreshWithin
    <2>5. /\ Fresh(libFilesBuffer'["controller"], fs'["controller"], replaced)
          /\ Fresh(hashCache'["controller"], fs'["controller"], replaced)
      <3>1. /\ \A n \in 1..Len(libFilesBuffer'["controller"]) :
                  libFilesBuffer'["controller"][n].key \in Libs
            /\ \A n \in 1..Len(hashCache'["controller"]) :
                  hashCache'["controller"][n].key \in Libs
        BY <2>2, CacheKeys DEF RegistryTypes
      <3>. QED  BY <3>1, <2>1, <2>3, <2>4 DEF Fresh
    <2>6. \A k \in Libs : /\ libLoaders'["controller"][k] \in Versions \cup {NoFile}
                           /\ fs'["controller"][k] \in Versions \cup {NoFile}
      BY <2>2, <2>3, <1>2, <1>7 DEF RegistryTypes, ControllerFiles
    <2>7. ControllerFiles'
      BY <2>1, <2>5, <2>6, <1>1 DEF ControllerFiles
    <2>8. SentHashes'
      BY <2>3, <1>1, <1>9 DEF RegistryInv, SentHashes
    <2>9. WorkerFiles' /\ Loading'
      BY <2>2, <1>1, <1>10, WorkerUntouched
    <2>. QED  BY <2>2, <2>7, <2>8, <2>9, <1>8 DEF RegistryInv
  <1>. QED  BY <1>11, <1>12

LEMMA ReplaceFileKeeps ==
    ASSUME RegistryInv, NEW l \in Libs, ReplaceFile(l)
    PROVE  RegistryInv'
  <1> USE VersionFacts, ProcessFacts
  <1>1. /\ controllerUp
        /\ fs["controller"][l] < MaxVersion
        /\ fs' = [fs EXCEPT !["controller"][l] = @ + 1]
        /\ replaced' = replaced \cup {l}
        /\ UNCHANGED <<useInMemoryCache, libFilesBuffer, hashCache, libLoaders,
                       controllerUp, work, thread, crashes>>
    BY DEF ReplaceFile
  <1>2. fs["controller"][l] \in Versions
    BY <1>1 DEF RegistryInv, ControllerFiles
  <1>3. fs["controller"][l] + 1 \in Versions
    BY <1>1, <1>2, RegistryAssumption DEF Versions
  <1>4. /\ RegistryTypes' /\ fs'["worker"] = fs["worker"]
        /\ fs'["controller"][l] \in Versions
        /\ \A k \in Libs \ {l} : fs'["controller"][k] = fs["controller"][k]
    BY <1>1, <1>3 DEF RegistryInv, RegistryTypes
  <1>5. WorkTypes' /\ Caches'
    BY <1>1 DEF RegistryInv, WorkTypes, Caches
  <1>6. WorkerFiles' /\ Loading'
    <2>1. SameRegistry("worker")
      BY <1>1, <1>4 DEF SameRegistry
    <2>. QED  BY <1>1, <2>1, WorkerUntouched
  <1>7. /\ Fresh(libFilesBuffer["controller"], fs'["controller"], replaced')
        /\ Fresh(hashCache["controller"], fs'["controller"], replaced')
    <2>1. /\ \A n \in 1..Len(libFilesBuffer["controller"]) :
                libFilesBuffer["controller"][n].key \in Libs
          /\ \A n \in 1..Len(hashCache["controller"]) :
                hashCache["controller"][n].key \in Libs
      BY CacheKeys DEF RegistryInv, RegistryTypes
    <2>. QED  BY <2>1, <1>1, <1>4 DEF RegistryInv, ControllerFiles, Fresh
  <1>8. ControllerFiles'
    BY <1>1, <1>4, <1>7 DEF RegistryInv, ControllerFiles
  <1>9. SentHashes'
    BY <1>1, <1>4 DEF RegistryInv, SentHashes
  <1>. QED  BY <1>4, <1>5, <1>6, <1>8, <1>9 DEF RegistryInv

LEMMA RestartControllerKeeps ==
    ASSUME RegistryInv, RestartController
    PROVE  RegistryInv'
  <1> USE VersionFacts, ProcessFacts
  <1>1. /\ controllerUp /\ work = [l \in Libs |-> NoWork]
        /\ \E v \in [Libs -> 1..MaxVersion] : fs' = [fs EXCEPT !["controller"] = v]
        /\ useInMemoryCache' = [useInMemoryCache EXCEPT !["controller"] = TRUE]
        /\ libFilesBuffer' = [libFilesBuffer EXCEPT !["controller"] = << >>]
        /\ hashCache' = [hashCache EXCEPT !["controller"] = << >>]
        /\ libLoaders' = [libLoaders EXCEPT !["controller"] = [l \in Libs |-> NoFile]]
        /\ replaced' = {}
        /\ UNCHANGED <<controllerUp, work, thread, crashes>>
    BY DEF RestartController
  <1>2. PICK v \in [Libs -> Versions] : fs' = [fs EXCEPT !["controller"] = v]
    BY <1>1 DEF Versions
  <1>3. /\ fs'["worker"] = fs["worker"] /\ fs'["controller"] = v
        /\ libFilesBuffer'["worker"] = libFilesBuffer["worker"]
        /\ hashCache'["worker"] = hashCache["worker"]
        /\ libLoaders'["worker"] = libLoaders["worker"]
        /\ useInMemoryCache'["worker"] = useInMemoryCache["worker"]
        /\ libFilesBuffer'["controller"] = << >> /\ hashCache'["controller"] = << >>
        /\ libLoaders'["controller"] = [l \in Libs |-> NoFile]
    BY <1>1, <1>2 DEF RegistryInv, RegistryTypes
  <1>4. << >> \in Seq(Entry) /\ v \in [Libs -> Content \cup {NoFile}]
    BY DEF Versions
  <1>5. RegistryTypes'
    BY <1>1, <1>2, <1>4 DEF RegistryInv, RegistryTypes
  <1>6. WorkTypes'
    BY <1>1 DEF RegistryInv, WorkTypes
  <1>7. \A cap \in Nat : IsCache(<< >>, cap)
    BY DEF IsCache
  <1>8. Caches'
    BY <1>3, <1>7 DEF RegistryInv, Caches
  <1>9. thread.step = "idle"
    <2>1. ASSUME thread.step # "idle"  PROVE  FALSE
      <3>1. thread.lib \in Libs
        BY <2>1 DEF RegistryInv, WorkTypes, IdleThread
      <3>2. work[thread.lib].at = "worker"
        BY <2>1 DEF RegistryInv, Loading
      <3>. QED  BY <3>1, <3>2, <1>1 DEF NoWork
    <2>. QED  BY <2>1
  <1>10. WorkerFiles' /\ Loading'
    BY <1>1, <1>3, <1>9 DEF RegistryInv, WorkerFiles, Loading
  <1>11. ControllerFiles'
    <2>1. \A f, r : Fresh(<< >>, f, r)
      BY DEF Fresh
    <2>. QED  BY <2>1, <1>1, <1>3 DEF ControllerFiles
  <1>12. SentHashes'
    BY <1>1 DEF SentHashes
  <1>. QED  BY <1>5, <1>6, <1>8, <1>10, <1>11, <1>12 DEF RegistryInv

LEMMA UseInMemoryCacheKeeps ==
    ASSUME RegistryInv, NEW p \in Process, NEW value \in BOOLEAN,
           use_in_memory_cache(p, value)
    PROVE  RegistryInv'
  <1> USE VersionFacts, ProcessFacts
  <1>1. /\ p = "worker" => thread.step \in {"idle", "run"}
        /\ useInMemoryCache' = [useInMemoryCache EXCEPT ![p] = value]
        /\ libFilesBuffer' = [libFilesBuffer EXCEPT ![p] = IF value THEN @ ELSE << >>]
        /\ UNCHANGED <<fs, hashCache, libLoaders, controllerUp, work, thread,
                       replaced, crashes>>
    BY DEF use_in_memory_cache
  <1>2. << >> \in Seq(Entry)
    OBVIOUS
  <1>3. RegistryTypes' /\ WorkTypes'
    BY <1>1, <1>2 DEF RegistryInv, RegistryTypes, WorkTypes
  <1>4. \A q \in Process :
          \/ libFilesBuffer'[q] = << >>
          \/ /\ libFilesBuffer'[q] = libFilesBuffer[q]
             /\ useInMemoryCache'[q] \/ ~useInMemoryCache[q]
    BY <1>1 DEF RegistryInv, RegistryTypes
  <1>5. \A cap \in Nat : IsCache(<< >>, cap)
    BY DEF IsCache
  <1>6. Caches'
    BY <1>1, <1>4, <1>5 DEF RegistryInv, Caches
  <1>7. /\ \A f : Agree(<< >>, f)
        /\ \A f, r : Fresh(<< >>, f, r)
        /\ \A l : ~contains(<< >>, l)
    BY DEF Agree, Fresh, contains, Keys
  <1>8. WorkerFiles' /\ ControllerFiles'
    BY <1>1, <1>4, <1>7 DEF RegistryInv, WorkerFiles, ControllerFiles
  <1>9. Loading'
    BY <1>1, <1>4, <1>7 DEF RegistryInv, Loading
  <1>10. SentHashes'
    BY <1>1 DEF RegistryInv, SentHashes
  <1>. QED  BY <1>3, <1>6, <1>8, <1>9, <1>10 DEF RegistryInv

-----------------------------------------------------------------------------
(***************************************************************************)
(* The worker's steps.                                                     *)
(***************************************************************************)
LEMMA ControllerUntouched ==
    ASSUME ControllerFiles, SameRegistry("controller"),
           controllerUp' = controllerUp, replaced' = replaced
    PROVE  ControllerFiles'
  BY DEF ControllerFiles, SameRegistry

\* What the thread is busy with has a name and is work of the worker's.
LEMMA BusyThread ==
    ASSUME RegistryInv, thread.step # "idle"
    PROVE  /\ thread.lib \in Libs /\ work[thread.lib].at = "worker"
           /\ work[thread.lib] # NoWork /\ work[thread.lib].hash \in Versions
  <1>1. thread.lib \in Libs
    BY DEF RegistryInv, WorkTypes, IdleThread
  <1>2. work[thread.lib].at = "worker"
    BY DEF RegistryInv, Loading
  <1>3. work[thread.lib] # NoWork
    BY <1>2 DEF NoWork
  <1>. QED  BY <1>1, <1>2, <1>3 DEF RegistryInv, SentHashes

\* Work that is under way to the worker and is now its own.
LEMMA ArrivedWork ==
    ASSUME RegistryInv, NEW l \in Libs, work[l].at = "toWorker",
           work' = [work EXCEPT ![l].at = "worker"],
           UNCHANGED <<controllerUp, replaced, crashes>>,
           fs'["controller"] = fs["controller"],
           thread' \in [step : Steps, lib : Libs, file : Content \cup {NoFile}]
    PROVE  /\ WorkTypes' /\ SentHashes'
           /\ work'[l].at = "worker" /\ work'[l].hash = work[l].hash
           /\ work[l].hash \in Versions
  <1>1. work[l] # NoWork
    BY DEF NoWork
  <1>2. /\ work[l] \in [at : {"toWorker", "worker", "toController"}, hash : Content]
        /\ work[l].hash \in Versions
    BY <1>1 DEF RegistryInv, WorkTypes, SentHashes
  <1>3. /\ work'[l] \in [at : {"toWorker", "worker", "toController"}, hash : Content]
        /\ work'[l].at = "worker" /\ work'[l].hash = work[l].hash
        /\ \A k \in Libs \ {l} : work'[k] = work[k]
    BY <1>2 DEF RegistryInv, WorkTypes
  <1>4. WorkTypes'
    BY <1>3 DEF RegistryInv, WorkTypes
  <1>5. SentHashes'
    BY <1>1, <1>3 DEF RegistryInv, SentHashes
  <1>. QED  BY <1>2, <1>3, <1>4, <1>5

LEMMA InitializeFromFileKeeps ==
    ASSUME RegistryInv, NEW l \in Libs, InitializeFromFile(l)
    PROVE  RegistryInv'
  <1> USE VersionFacts, ProcessFacts
  <1> DEFINE file == fs["worker"][l]
             files == FileBuffered("worker", l)
  <1>1. /\ RegistryTypes /\ Caches /\ WorkerFiles
        /\ work[l].at = "toWorker" /\ fs["worker"][l] # NoFile
        /\ work' = [work EXCEPT ![l].at = "worker"]
        /\ CompareAndLoad(l, files, FileContent("worker", l), file)
        /\ UNCHANGED <<controllerUp, replaced, crashes>>
    BY DEF InitializeFromFile, is_lib_in_cache, RegistryInv
  <1>2. file \in Content
    BY <1>1 DEF RegistryTypes
  <1>3. CompareAndLoad(l, files, file, file)
    BY <1>1, WorkerReads
  <1>4. fs["worker"] = [fs["worker"] EXCEPT ![l] = file]
    BY <1>1 DEF RegistryTypes
  <1>5. /\ IsCache(files, FilesCap) /\ Agree(files, fs["worker"])
        /\ ~useInMemoryCache["worker"] => files = << >>
    <2>1. /\ IsCache(files, FilesCap)
          /\ ~useInMemoryCache["worker"] => files = << >>
          /\ WithinOr(files, libFilesBuffer["worker"], Item(l, file))
      BY <1>1, <1>2, Buffered
    <2>2. Item(l, file).value = fs["worker"][Item(l, file).key]
      BY DEF Item
    <2>. QED  BY <2>1, <2>2, <1>1, AgreeWithinOr DEF WorkerFiles
  <1>6. work[l].hash \in Versions
    <2>1. work[l] # NoWork
      BY <1>1 DEF NoWork
    <2>. QED  BY <2>1 DEF RegistryInv, SentHashes
  <1>7. /\ Agree(hashCache["worker"], fs["worker"])
        /\ \A k \in Libs : libLoaders["worker"][k] \in {fs["worker"][k], NoFile} \ {Broken}
    BY <1>1 DEF WorkerFiles
  <1> HIDE DEF file, files
  <1>8. /\ RegistryTypes' /\ Caches' /\ WorkerFiles'
        /\ SameRegistry("controller")
        /\ \/ /\ thread' = At("run", l, NoFile)
              /\ libLoaders'["worker"][l] = fs'["worker"][l]
              /\ fs'["worker"][l] = work[l].hash
           \/ /\ thread' = At("fetch", l, NoFile)
              /\ fs'["worker"][l] = NoFile
    BY <1>1, <1>2, <1>3, <1>4, <1>5, <1>6, <1>7, CompareFacts
  <1>9. thread' \in [step : Steps, lib : Libs, file : Content \cup {NoFile}]
    BY <1>8 DEF At, Steps
  <1>10. /\ WorkTypes' /\ SentHashes'
         /\ work'[l].at = "worker" /\ work'[l].hash = work[l].hash
    BY <1>1, <1>8, <1>9, ArrivedWork DEF SameRegistry
  <1>11. Loading'
    BY <1>6, <1>8, <1>10 DEF Loading, At
  <1>12. ControllerFiles'
    BY <1>1, <1>8, ControllerUntouched DEF RegistryInv
  <1>. QED  BY <1>8, <1>10, <1>11, <1>12 DEF RegistryInv

LEMMA InitializeFromProviderKeeps ==
    ASSUME RegistryInv, NEW l \in Libs, InitializeFromProvider(l)
    PROVE  RegistryInv'
  <1> USE VersionFacts, ProcessFacts
  <1>1. /\ work[l].at = "toWorker" /\ fs["worker"][l] = NoFile
        /\ work' = [work EXCEPT ![l].at = "worker"]
        /\ thread' = At("hash", l, NoFile)
        /\ UNCHANGED <<fs, useInMemoryCache, libFilesBuffer, hashCache, libLoaders>>
        /\ UNCHANGED <<controllerUp, replaced, crashes>>
    BY DEF InitializeFromProvider, is_lib_in_cache, registryVars
  <1>2. RegistryTypes' /\ Caches' /\ WorkerFiles' /\ ControllerFiles'
    BY <1>1 DEF RegistryInv, RegistryTypes, Caches, WorkerFiles, ControllerFiles
  <1>3. thread' \in [step : Steps, lib : Libs, file : Content \cup {NoFile}]
    BY <1>1 DEF At, Steps
  <1>4. /\ WorkTypes' /\ SentHashes' /\ work'[l].at = "worker"
    BY <1>1, <1>3, ArrivedWork
  <1>5. Loading'
    BY <1>1, <1>4 DEF Loading, At
  <1>. QED  BY <1>2, <1>4, <1>5 DEF RegistryInv

LEMMA ProvideFileKeeps ==
    ASSUME RegistryInv, ProvideFile
    PROVE  RegistryInv'
  <1> USE VersionFacts, ProcessFacts
  <1> DEFINE l == thread.lib
             file == FileContent("controller", l)
             files == FileBuffered("controller", l)
             step == IF thread.step = "hash" THEN "saveHash" ELSE "saveLoad"
  <1>1. /\ controllerUp /\ thread.step \in {"hash", "fetch"}
        /\ libFilesBuffer' = [libFilesBuffer EXCEPT !["controller"] = files]
        /\ thread' = At(step, l, file)
        /\ fs' = [fs EXCEPT !["worker"][l] = Broken]
        /\ UNCHANGED <<useInMemoryCache, hashCache, libLoaders, controllerUp, work,
                       replaced, crashes>>
    BY DEF ProvideFile, save_lib_into_fs
  <1>2. l \in Libs /\ work[l].at = "worker" /\ work[l] # NoWork
    BY <1>1, BusyThread
  <1>3. /\ RegistryTypes /\ Caches /\ WorkerFiles /\ ControllerFiles
        /\ fs["controller"][l] \in Versions /\ fs["worker"][l] = NoFile
    BY <1>1, <1>2 DEF RegistryInv, ControllerFiles, Loading
  <1>4. /\ file \in Versions
        /\ l \notin replaced => file = fs["controller"][l]
    BY <1>2, <1>3, ControllerReads
  <1>5. l \notin replaced => file = work[l].hash
    BY <1>2, <1>4 DEF RegistryInv, SentHashes
  <1>6. /\ IsCache(files, FilesCap)
        /\ ~useInMemoryCache["controller"] => files = << >>
        /\ Fresh(files, fs["controller"], replaced)
    BY <1>2, <1>3, ControllerCaches
  <1>7. files \in Seq(Entry)
    BY <1>6 DEF IsCache
  <1>8. step \in {"saveHash", "saveLoad"}
    OBVIOUS
  <1> HIDE DEF l, file, files, step
  <1>9. RegistryTypes'
    BY <1>1, <1>2, <1>3, <1>7 DEF RegistryTypes
  <1>10. WorkTypes'
    <2>1. thread' \in [step : Steps, lib : Libs, file : Content \cup {NoFile}]
      BY <1>1, <1>2, <1>4, <1>8 DEF At, Steps
    <2>. QED  BY <1>1, <2>1 DEF RegistryInv, WorkTypes
  <1>11. /\ libFilesBuffer'["controller"] = files
         /\ libFilesBuffer'["worker"] = libFilesBuffer["worker"]
         /\ fs'["controller"] = fs["controller"]
         /\ \A k \in Libs \ {l} : fs'["worker"][k] = fs["worker"][k]
    BY <1>1, <1>2, <1>3 DEF RegistryTypes
  <1>12. Caches'
    BY <1>1, <1>3, <1>6, <1>11 DEF Caches
  <1>13. /\ ~contains(libFilesBuffer["worker"], l) /\ ~contains(hashCache["worker"], l)
         /\ libLoaders["worker"][l] = NoFile
    <2>1. ASSUME NEW items \in Seq(Entry), Agree(items, fs["worker"])
          PROVE  ~contains(items, l)
      <3>1. \A n \in 1..Len(items) : items[n].value \in Content
        <4>1. \A n \in 1..Len(items) : items[n] \in Entry
          OBVIOUS
        <4>. QED  BY <4>1 DEF Entry
      <3>. QED  BY <3>1, <2>1, <1>3 DEF Agree, contains, Keys
    <2>2. /\ libFilesBuffer["worker"] \in Seq(Entry) /\ hashCache["worker"] \in Seq(Entry)
      BY <1>3 DEF RegistryTypes
    <2>3. libLoaders["worker"][l] = NoFile
      BY <1>2, <1>3 DEF WorkerFiles
    <2>. QED  BY <2>1, <2>2, <2>3, <1>3 DEF WorkerFiles
  <1>14. WorkerFiles'
    <2>1. /\ \A n \in 1..Len(libFilesBuffer["worker"]) :
                libFilesBuffer["worker"][n].key \in Libs \ {l}
          /\ \A n \in 1..Len(hashCache["worker"]) :
                hashCache["worker"][n].key \in Libs \ {l}
      BY <1>3, <1>13, KeysElsewhere DEF Caches
    <2>2. /\ Agree(libFilesBuffer["worker"], fs'["worker"])
          /\ Agree(hashCache["worker"], fs'["worker"])
      BY <2>1, <1>3, <1>11 DEF WorkerFiles, Agree
    <2>3. \A k \in Libs : libLoaders["worker"][k] \in {fs'["worker"][k], NoFile} \ {Broken}
      BY <1>3, <1>11, <1>13 DEF WorkerFiles
    <2>. QED  BY <2>2, <2>3, <1>1, <1>11 DEF WorkerFiles
  <1>15. Loading'
    <2>1. thread'.step = step /\ thread'.lib = l /\ thread'.file = file
      BY <1>1 DEF At
    <2>. QED  BY <2>1, <1>1, <1>2, <1>4, <1>5, <1>8, <1>11, <1>13 DEF Loading
  <1>16. ControllerFiles'
    BY <1>1, <1>3, <1>6, <1>11 DEF ControllerFiles
  <1>17. SentHashes'
    BY <1>1, <1>11 DEF RegistryInv, SentHashes
  <1>. QED  BY <1>9, <1>10, <1>12, <1>14, <1>15, <1>16, <1>17 DEF RegistryInv

LEMMA SavedForHashKeeps ==
    ASSUME RegistryInv, SavedForHash
    PROVE  RegistryInv'
  <1> USE VersionFacts, ProcessFacts
  <1> DEFINE l == thread.lib
             file == thread.file
             files == libFilesBuffer["worker"]
             F == [fs["worker"] EXCEPT ![l] = file]
  <1>1. /\ RegistryTypes /\ Caches /\ WorkerFiles /\ thread.step = "saveHash"
        /\ CompareAndLoad(l, files, file, file)
        /\ UNCHANGED <<controllerUp, work, replaced, crashes>>
    BY DEF SavedForHash, RegistryInv
  <1>2. /\ l \in Libs /\ work[l].at = "worker" /\ work[l].hash \in Versions
    BY <1>1, BusyThread
  <1>3. /\ file \in Versions /\ ~contains(files, l)
        /\ ~contains(hashCache["worker"], l) /\ libLoaders["worker"][l] = NoFile
    BY <1>1 DEF RegistryInv, Loading
  <1>4. F[l] = file /\ \A k \in Libs \ {l} : F[k] = fs["worker"][k]
    BY <1>1, <1>2 DEF RegistryTypes
  <1>5. /\ IsCache(files, FilesCap) /\ IsCache(hashCache["worker"], HashCap)
        /\ ~useInMemoryCache["worker"] => files = << >>
    BY <1>1 DEF Caches
  <1> HIDE DEF F
  <1>6. Agree(files, F) /\ Agree(hashCache["worker"], F)
    <2>1. /\ \A n \in 1..Len(libFilesBuffer["worker"]) :
                libFilesBuffer["worker"][n].key \in Libs \ {l}
          /\ \A n \in 1..Len(hashCache["worker"]) :
                hashCache["worker"][n].key \in Libs \ {l}
      BY <1>3, <1>5, KeysElsewhere
    <2>. QED  BY <2>1, <1>1, <1>4 DEF WorkerFiles, Agree
  <1>7. \A k \in Libs : libLoaders["worker"][k] \in {F[k], NoFile} \ {Broken}
    BY <1>1, <1>3, <1>4 DEF WorkerFiles
  <1>8. F = [fs["worker"] EXCEPT ![l] = file]
    BY DEF F
  <1> HIDE DEF l, file, files
  <1>9. /\ RegistryTypes' /\ Caches' /\ WorkerFiles'
        /\ SameRegistry("controller")
        /\ \/ /\ thread' = At("run", l, NoFile)
              /\ libLoaders'["worker"][l] = fs'["worker"][l]
              /\ fs'["worker"][l] = work[l].hash
           \/ /\ thread' = At("fetch", l, NoFile)
              /\ fs'["worker"][l] = NoFile
    BY <1>1, <1>2, <1>3, <1>5, <1>6, <1>7, <1>8, CompareFacts
  <1>10. thread' \in [step : Steps, lib : Libs, file : Content \cup {NoFile}]
    BY <1>2, <1>9 DEF At, Steps
  <1>11. WorkTypes'
    BY <1>1, <1>10 DEF RegistryInv, WorkTypes
  <1>12. Loading'
    BY <1>1, <1>2, <1>9 DEF Loading, At
  <1>13. ControllerFiles'
    BY <1>1, <1>9, ControllerUntouched DEF RegistryInv
  <1>14. SentHashes'
    BY <1>1, <1>9 DEF RegistryInv, SentHashes, SameRegistry
  <1>. QED  BY <1>9, <1>11, <1>12, <1>13, <1>14 DEF RegistryInv

LEMMA SavedForLoadKeeps ==
    ASSUME RegistryInv, SavedForLoad
    PROVE  RegistryInv'
  <1> USE VersionFacts, ProcessFacts
  <1> DEFINE l == thread.lib
             file == thread.file
  <1>1. /\ RegistryTypes /\ Caches /\ WorkerFiles /\ thread.step = "saveLoad"
        /\ fs' = [fs EXCEPT !["worker"][l] = file]
        /\ libLoaders' = [libLoaders EXCEPT !["worker"][l] = IF @ = NoFile THEN file ELSE @]
        /\ thread' = At("run", l, NoFile)
        /\ UNCHANGED <<useInMemoryCache, libFilesBuffer, hashCache, controllerUp,
                       work, replaced, crashes>>
    BY DEF SavedForLoad, RegistryInv
  <1>2. /\ l \in Libs /\ work[l].at = "worker"
    BY <1>1, BusyThread
  <1>3. /\ file \in Versions /\ ~contains(libFilesBuffer["worker"], l)
        /\ ~contains(hashCache["worker"], l) /\ libLoaders["worker"][l] = NoFile
        /\ l \notin replaced => file = work[l].hash
    BY <1>1 DEF RegistryInv, Loading
  <1> HIDE DEF l, file
  <1>4. RegistryTypes'
    BY <1>1, <1>2, <1>3 DEF RegistryTypes
  <1>5. /\ fs'["worker"][l] = file /\ libLoaders'["worker"][l] = file
        /\ \A k \in Libs \ {l} : /\ fs'["worker"][k] = fs["worker"][k]
                                  /\ libLoaders'["worker"][k] = libLoaders["worker"][k]
        /\ SameRegistry("controller")
    BY <1>1, <1>2, <1>3 DEF RegistryTypes, SameRegistry
  <1>6. Caches'
    BY <1>1 DEF Caches
  <1>7. WorkTypes'
    <2>1. thread' \in [step : Steps, lib : Libs, file : Content \cup {NoFile}]
      BY <1>1, <1>2 DEF At, Steps
    <2>. QED  BY <1>1, <2>1 DEF RegistryInv, WorkTypes
  <1>8. WorkerFiles'
    <2>1. /\ \A n \in 1..Len(libFilesBuffer["worker"]) :
                libFilesBuffer["worker"][n].key \in Libs \ {l}
          /\ \A n \in 1..Len(hashCache["worker"]) :
                hashCache["worker"][n].key \in Libs \ {l}
      BY <1>1, <1>3, KeysElsewhere DEF Caches
    <2>2. /\ Agree(libFilesBuffer["worker"], fs'["worker"])
          /\ Agree(hashCache["worker"], fs'["worker"])
      BY <2>1, <1>1, <1>5 DEF WorkerFiles, Agree
    <2>3. \A k \in Libs : libLoaders'["worker"][k] \in {fs'["worker"][k], NoFile} \ {Broken}
      BY <1>1, <1>3, <1>5 DEF WorkerFiles
    <2>. QED  BY <2>2, <2>3, <1>1 DEF WorkerFiles
  <1>9. Loading'
    BY <1>1, <1>2, <1>3, <1>5 DEF Loading, At
  <1>10. ControllerFiles'
    BY <1>1, <1>5, ControllerUntouched DEF RegistryInv
  <1>11. SentHashes'
    BY <1>1, <1>5 DEF RegistryInv, SentHashes, SameRegistry
  <1>. QED  BY <1>4, <1>6, <1>7, <1>8, <1>9, <1>10, <1>11 DEF RegistryInv

LEMMA SaveResultsKeeps ==
    ASSUME RegistryInv, SaveResults
    PROVE  RegistryInv'
  <1> USE VersionFacts, ProcessFacts
  <1> DEFINE l == thread.lib
             file == fs["worker"][l]
             files == FileBuffered("worker", l)
             hashes == HashCached("worker", l, file)
  <1>1. /\ RegistryTypes /\ Caches /\ WorkerFiles /\ thread.step = "run"
        /\ thread' = IdleThread
        /\ UNCHANGED <<fs, useInMemoryCache, libLoaders, controllerUp, replaced,
                       crashes>>
    BY DEF SaveResults, RegistryInv
  <1>2. /\ l \in Libs /\ work[l] # NoWork
    BY <1>1, BusyThread
  <1>3. /\ file \in Versions
        /\ l \notin replaced => file = work[l].hash
    BY <1>1 DEF RegistryInv, Loading
  <1>4. /\ FileContent("worker", l) = file
        /\ FileHash("worker", l, file) = file
    BY <1>1, <1>2, WorkerReads
  <1>5. /\ work' = [work EXCEPT ![l] = [at |-> "toController", hash |-> file]]
        /\ hashCache' = [hashCache EXCEPT !["worker"] = hashes]
        /\ libFilesBuffer' = [libFilesBuffer EXCEPT !["worker"] = files]
    BY <1>4 DEF SaveResults
  <1>6. /\ IsCache(files, FilesCap) /\ Agree(files, fs["worker"])
        /\ ~useInMemoryCache["worker"] => files = << >>
        /\ IsCache(hashes, HashCap) /\ Agree(hashes, fs["worker"])
    <2>1. /\ IsCache(files, FilesCap)
          /\ ~useInMemoryCache["worker"] => files = << >>
          /\ WithinOr(files, libFilesBuffer["worker"], Item(l, file))
      BY <1>1, <1>2, <1>3, Buffered
    <2>2. /\ IsCache(hashes, HashCap)
          /\ WithinOr(hashes, hashCache["worker"], Item(l, file))
      BY <1>1, <1>2, <1>3, Hashed
    <2>3. Item(l, file).value = fs["worker"][Item(l, file).key]
      BY DEF Item
    <2>. QED  BY <2>1, <2>2, <2>3, <1>1, AgreeWithinOr DEF WorkerFiles
  <1>7. files \in Seq(Entry) /\ hashes \in Seq(Entry)
    BY <1>6 DEF IsCache
  <1>8. l \notin replaced => file = fs["controller"][l]
    BY <1>2, <1>3 DEF RegistryInv, SentHashes
  <1> HIDE DEF l, file, files, hashes
  <1>9. RegistryTypes'
    BY <1>1, <1>5, <1>7 DEF RegistryTypes
  <1>10. /\ libFilesBuffer'["worker"] = files /\ hashCache'["worker"] = hashes
         /\ libFilesBuffer'["controller"] = libFilesBuffer["controller"]
         /\ hashCache'["controller"] = hashCache["controller"]
    BY <1>1, <1>5 DEF RegistryTypes
  <1>11. Caches'
    BY <1>1, <1>6, <1>10 DEF Caches
  <1>12. WorkTypes'
    <2>1. [at |-> "toController", hash |-> file] \in
            [at : {"toWorker", "worker", "toController"}, hash : Content]
      BY <1>3
    <2>. QED  BY <1>1, <1>2, <1>5, <2>1 DEF RegistryInv, WorkTypes
  <1>13. WorkerFiles'
    BY <1>1, <1>6, <1>10 DEF WorkerFiles
  <1>14. Loading'
    BY <1>1 DEF Loading, IdleThread
  <1>15. ControllerFiles'
    <2>1. SameRegistry("controller")
      BY <1>1, <1>10 DEF SameRegistry
    <2>. QED  BY <2>1, <1>1, ControllerUntouched DEF RegistryInv
  <1>16. SentHashes'
    <2>1. work'[l].hash = file /\ \A k \in Libs \ {l} : work'[k] = work[k]
      BY <1>2, <1>5 DEF RegistryInv, WorkTypes
    <2>. QED  BY <2>1, <1>1, <1>3, <1>8 DEF RegistryInv, SentHashes
  <1>. QED  BY <1>9, <1>11, <1>12, <1>13, <1>14, <1>15, <1>16 DEF RegistryInv

LEMMA RestartWorkerKeeps ==
    ASSUME RegistryInv, RestartWorker
    PROVE  RegistryInv'
  <1> USE VersionFacts, ProcessFacts
  <1>1. /\ RegistryTypes /\ Caches /\ crashes < MaxCrashes /\ crashes' = crashes + 1
        /\ useInMemoryCache' = [useInMemoryCache EXCEPT !["worker"] = TRUE]
        /\ libFilesBuffer' = [libFilesBuffer EXCEPT !["worker"] = << >>]
        /\ hashCache' = [hashCache EXCEPT !["worker"] = << >>]
        /\ libLoaders' = [libLoaders EXCEPT !["worker"] = [l \in Libs |-> NoFile]]
        /\ thread' = IdleThread
        /\ UNCHANGED <<fs, controllerUp, replaced>>
    BY DEF RestartWorker, RegistryInv
  <1>2. /\ libFilesBuffer'["worker"] = << >> /\ hashCache'["worker"] = << >>
        /\ libLoaders'["worker"] = [l \in Libs |-> NoFile]
        /\ useInMemoryCache'["controller"] = useInMemoryCache["controller"]
        /\ useInMemoryCache'["worker"]
        /\ SameRegistry("controller")
    BY <1>1 DEF RegistryTypes, SameRegistry
  <1>3. << >> \in Seq(Entry)
    OBVIOUS
  <1>4. RegistryTypes'
    BY <1>1, <1>3 DEF RegistryTypes
  <1>5. \A cap \in Nat : IsCache(<< >>, cap)
    BY DEF IsCache
  <1>6. Caches'
    BY <1>1, <1>2, <1>5 DEF Caches, SameRegistry
  <1>7. WorkerFiles'
    <2>1. \A f : Agree(<< >>, f)
      BY DEF Agree
    <2>2. NoFile # Broken
      OBVIOUS
    <2>. QED  BY <1>2, <2>1, <2>2 DEF WorkerFiles
  <1>8. ASSUME NEW l \in Libs
        PROVE  /\ work'[l] \in [at : {"toWorker", "worker", "toController"},
                                 hash : Content] \cup {NoWork}
               /\ work'[l] # NoWork => work[l] # NoWork /\ work'[l].hash = work[l].hash
    <2>1. work'[l] = IF work[l].at = "worker" THEN [work[l] EXCEPT !.at = "toWorker"]
                                              ELSE work[l]
      BY DEF RestartWorker
    <2>2. work[l].at = "worker" => work[l] # NoWork
      BY DEF NoWork
    <2>. QED  BY <2>1, <2>2 DEF RegistryInv, WorkTypes
  <1>9. WorkTypes'
    <2>1. work' = [l \in Libs |-> work'[l]]
      BY DEF RestartWorker
    <2>2. crashes' \in 0..MaxCrashes
      BY <1>1, RegistryAssumption DEF RegistryInv, WorkTypes
    <2>. QED  BY <1>1, <1>8, <2>1, <2>2 DEF RegistryInv, WorkTypes
  <1>10. Loading'
    BY <1>1 DEF Loading, IdleThread
  <1>11. ControllerFiles'
    BY <1>1, <1>2, ControllerUntouched DEF RegistryInv
  <1>12. SentHashes'
    BY <1>1, <1>8 DEF RegistryInv, SentHashes
  <1>. QED  BY <1>4, <1>6, <1>7, <1>9, <1>10, <1>11, <1>12 DEF RegistryInv

LEMMA RegistryInit == Init => RegistryInv
  <1> USE VersionFacts, ProcessFacts
  <1> SUFFICES ASSUME Init  PROVE  RegistryInv
    OBVIOUS
  <1>1. PICK v \in [Libs -> (1..MaxVersion)], old \in [Libs -> Content \cup {NoFile}] :
          fs = [p \in Process |-> IF p = "controller" THEN v ELSE old]
    BY DEF Init
  <1>2. /\ useInMemoryCache = [p \in Process |-> TRUE]
        /\ libFilesBuffer = [p \in Process |-> << >>]
        /\ hashCache = [p \in Process |-> << >>]
        /\ libLoaders = [p \in Process |-> [l \in Libs |-> NoFile]]
        /\ controllerUp = TRUE /\ work = [l \in Libs |-> NoWork]
        /\ thread = IdleThread /\ replaced = {} /\ crashes = 0
    BY DEF Init
  <1>3. v \in [Libs -> Versions] /\ v \in [Libs -> Content \cup {NoFile}]
    BY DEF Versions
  <1>4. fs["controller"] = v /\ fs["worker"] = old
    BY <1>1
  <1>5. << >> \in Seq(Entry)
    OBVIOUS
  <1>6. RegistryTypes
    BY <1>1, <1>2, <1>3, <1>5 DEF RegistryTypes
  <1>7. WorkTypes
    BY <1>2, RegistryAssumption DEF WorkTypes
  <1>8. /\ \A cap \in Nat : IsCache(<< >>, cap)
        /\ \A f : Agree(<< >>, f)
        /\ \A f, r : Fresh(<< >>, f, r)
    BY DEF IsCache, Agree, Fresh
  <1>9. Caches
    BY <1>2, <1>8 DEF Caches
  <1>10. NoFile # Broken
    OBVIOUS
  <1>11. WorkerFiles
    BY <1>2, <1>8, <1>10 DEF WorkerFiles
  <1>12. Loading
    BY <1>2 DEF Loading, IdleThread
  <1>13. ControllerFiles
    BY <1>2, <1>3, <1>4, <1>8 DEF ControllerFiles
  <1>14. SentHashes
    BY <1>2 DEF SentHashes
  <1>. QED  BY <1>6, <1>7, <1>9, <1>11, <1>12, <1>13, <1>14 DEF RegistryInv

LEMMA RegistryNext == RegistryInv /\ [Next]_vars => RegistryInv'
  <1> SUFFICES ASSUME RegistryInv, [Next]_vars  PROVE  RegistryInv'
    OBVIOUS
  <1>1. CASE UNCHANGED vars
    <2>1. UNCHANGED <<fs, useInMemoryCache, libFilesBuffer, hashCache, libLoaders,
                      controllerUp, work, thread, replaced, crashes>>
      BY <1>1 DEF vars, registryVars
    <2>. QED
      BY <2>1 DEF RegistryInv, RegistryTypes, WorkTypes, Caches, WorkerFiles,
                  Loading, ControllerFiles, SentHashes
  <1>2. ASSUME NEW l \in Libs, construct_udp(l)  PROVE  RegistryInv'
    BY <1>2, ConstructKeeps
  <1>3. ASSUME NEW l \in Libs, SaveWork(l)  PROVE  RegistryInv'
    BY <1>3, SaveWorkKeeps
  <1>4. ASSUME NEW l \in Libs, LoadResults(l)  PROVE  RegistryInv'
    BY <1>4, LoadResultsKeeps
  <1>5. ASSUME NEW l \in Libs, ReplaceFile(l)  PROVE  RegistryInv'
    BY <1>5, ReplaceFileKeeps
  <1>6. ASSUME NEW l \in Libs, InitializeFromFile(l)  PROVE  RegistryInv'
    BY <1>6, InitializeFromFileKeeps
  <1>7. ASSUME NEW l \in Libs, InitializeFromProvider(l)  PROVE  RegistryInv'
    BY <1>7, InitializeFromProviderKeeps
  <1>8. ASSUME NEW p \in Process, NEW value \in BOOLEAN, use_in_memory_cache(p, value)
        PROVE  RegistryInv'
    BY <1>8, UseInMemoryCacheKeeps
  <1>9. CASE RestartController
    BY <1>9, RestartControllerKeeps
  <1>10. CASE ProvideFile
    BY <1>10, ProvideFileKeeps
  <1>11. CASE SavedForHash
    BY <1>11, SavedForHashKeeps
  <1>12. CASE SavedForLoad
    BY <1>12, SavedForLoadKeeps
  <1>13. CASE SaveResults
    BY <1>13, SaveResultsKeeps
  <1>14. CASE RestartWorker
    BY <1>14, RestartWorkerKeeps
  <1>. QED
    BY <1>1, <1>2, <1>3, <1>4, <1>5, <1>6, <1>7, <1>8, <1>9, <1>10, <1>11, <1>12,
       <1>13, <1>14 DEF Next

-----------------------------------------------------------------------------
\* The inductive invariant of the two registries holds in every state.
THEOREM RegistryHolds == Spec => []RegistryInv
  BY RegistryInit, RegistryNext, PTL DEF Spec

\* Every variable keeps its type; in particular no cache outgrows the capacity
\* it was made with, whatever is put, moved and erased.
THEOREM RegistryTypeCorrect == Spec => []TypeOK
  <1>1. ASSUME NEW cap \in Nat, NEW items, IsCache(items, cap)
        PROVE  items \in CacheType(cap)
    <2>1. /\ items \in [1..Len(items) -> Entry] /\ Len(items) \in 0..cap
      BY <1>1 DEF IsCache
    <2>. QED  BY <2>1 DEF CacheType, Entry
  <1>2. RegistryInv => TypeOK
    <2> SUFFICES ASSUME RegistryInv  PROVE  TypeOK
      OBVIOUS
    <2>1. \A p \in Process : /\ libFilesBuffer[p] \in CacheType(FilesCap)
                             /\ hashCache[p] \in CacheType(HashCap)
      BY <1>1, VersionFacts DEF RegistryInv, Caches
    <2>2. /\ libFilesBuffer \in [Process -> CacheType(FilesCap)]
          /\ hashCache \in [Process -> CacheType(HashCap)]
      BY <2>1 DEF RegistryInv, RegistryTypes
    <2>. QED  BY <2>2 DEF RegistryInv, RegistryTypes, WorkTypes, TypeOK
  <1>. QED  BY <1>2, RegistryHolds, PTL

\* A file that a process left half-written is never loaded, by the worker or the
\* controller, whatever was cached, restarted or replaced.
THEOREM BrokenStaysUnloaded == Spec => []BrokenIsNeverLoaded
  <1>1. RegistryInv => BrokenIsNeverLoaded
    BY VersionFacts, ProcessFacts
    DEF RegistryInv, WorkerFiles, ControllerFiles, BrokenIsNeverLoaded
  <1>. QED  BY <1>1, RegistryHolds, PTL

\* A worker evolves with the version of the library the work was made with,
\* unless the controller's file was replaced under it.
THEOREM WorkersRunSentVersions == Spec => []WorkerRunsSentVersion
  <1>1. RegistryInv => WorkerRunsSentVersion
    BY DEF RegistryInv, Loading, WorkerRunsSentVersion
  <1>. QED  BY <1>1, RegistryHolds, PTL

\* Results never make the controller unload a library under its own objects and
\* delete the file, unless a file was replaced.
THEOREM LibrariesAreKept == Spec => []ControllerKeepsLibraries
  <1>1. RegistryInv => ControllerKeepsLibraries
    BY DEF RegistryInv, ControllerFiles, ControllerKeepsLibraries
  <1>. QED  BY <1>1, RegistryHolds, PTL

\* The buffer, the hash cache, the loader and the file of a worker speak of the
\* same version, although the caches evict at different times.
THEOREM CachesAlwaysAgree == Spec => []WorkerCachesAgree
  <1>1. RegistryInv => WorkerCachesAgree
    <2> SUFFICES ASSUME RegistryInv, NEW l \in Libs
                 PROVE  LET file == fs["worker"][l] IN
                        /\ contains(libFilesBuffer["worker"], l) =>
                              ValueOf(libFilesBuffer["worker"], l) = file
                        /\ contains(hashCache["worker"], l) =>
                              ValueOf(hashCache["worker"], l) = file
                        /\ libLoaders["worker"][l] \in {file, NoFile}
      BY DEF WorkerCachesAgree
    <2>1. contains(libFilesBuffer["worker"], l) =>
            ValueOf(libFilesBuffer["worker"], l) = fs["worker"][l]
      BY ValueFacts DEF RegistryInv, WorkerFiles, Agree
    <2>2. contains(hashCache["worker"], l) =>
            ValueOf(hashCache["worker"], l) = fs["worker"][l]
      BY ValueFacts DEF RegistryInv, WorkerFiles, Agree
    <2>. QED  BY <2>1, <2>2 DEF RegistryInv, WorkerFiles
  <1>. QED  BY <1>1, RegistryHolds, PTL
=============================================================================
