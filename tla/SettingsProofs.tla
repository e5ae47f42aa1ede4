--------------------------- MODULE SettingsProofs ---------------------------
(***************************************************************************)
(* What a settings file keeps, for any number of threads, blocks, changes  *)
(* and crashes.                                                            *)
(***************************************************************************)
EXTENDS Settings, TLAPS

-----------------------------------------------------------------------------
(***************************************************************************)
(* The file under a block that is written.                                 *)
(***************************************************************************)
Block == Version \cup {Hole}

LEMMA WriteAtFile ==
    ASSUME NEW f \in Seq(Block), NEW k \in Nat \ {0}, NEW v \in Version
    PROVE  /\ WriteAt(f, k, v) \in Seq(Block)
           /\ Len(WriteAt(f, k, v)) = IF Len(f) < k THEN k ELSE Len(f)
           /\ WriteAt(f, k, v)[k] = v
           /\ k \in 1..Len(WriteAt(f, k, v))
           /\ \A n \in 1..Len(f) : n # k => WriteAt(f, k, v)[n] = f[n]
<1> DEFINE m == IF Len(f) < k THEN k ELSE Len(f)
           g == [n \in 1..m |-> IF n = k THEN v
                                ELSE IF n <= Len(f) THEN f[n] ELSE Hole]
<1>1. m \in Nat /\ Len(f) \in Nat /\ k \in 1..m /\ \A n \in 1..Len(f) : n \in 1..m
  OBVIOUS
<1>2. ASSUME NEW n \in 1..m
      PROVE  (IF n = k THEN v ELSE IF n <= Len(f) THEN f[n] ELSE Hole) \in Block
  BY <1>1 DEF Block
<1> HIDE DEF m
<1>3. g \in [1..m -> Block]
  BY <1>2
<1>4. g \in Seq(Block) /\ Len(g) = m
  BY <1>1, <1>3
<1>5. g[k] = v /\ \A n \in 1..Len(f) : n # k => g[n] = f[n]
  BY <1>1
<1> QED
  BY <1>1, <1>4, <1>5 DEF WriteAt, m

-----------------------------------------------------------------------------
(***************************************************************************)
(* The inductive invariant, in four parts.                                 *)
(***************************************************************************)
Running == process \in {"up", "closing"}

\* Without a process there is no save and no caller; without a file there never
\* was one.  The destructor's save has begun when the process is closing.
Lifecycle ==
    /\ ~Running => Quiet /\ holds = {}
    /\ file = Absent => Quiet /\ holds = {} /\ settings = 0
    /\ process \in {"closing", "stopped"} => file # Absent
    /\ \A t \in Threads : saving[t] # 0 => since[t] <= settings
    /\ process = "closing" => since[Owner] <= settings
    /\ \A t \in holds : saving[t] = 0

\* The first n blocks of the file are there.
Written(n) == n <= Len(file) /\ \A k \in 1..n : file[k] # Hole

\* The thread that truncated the file last has written all blocks before the one
\* it is at; when it is done, nobody can make a hole again.
NoPartMissing ==
    file # Absent =>
        /\ Len(file) <= Blocks
        /\ Running => \/ Written(Blocks)
                      \/ \E t \in Threads : saving[t] # 0 /\ Written(saving[t] - 1)

\* All blocks of the file have the version of the first one.
OneVersion == \A n \in 1..Len(file) : file[n] \in Version /\ file[n] = file[1]

\* The file after, or in, a save that neither another save nor a change has met.
LoneSave ==
    ~disturbed /\ file # Absent =>
        /\ OneVersion
        /\ \A t, u \in Threads : saving[t] # 0 /\ saving[u] # 0 => t = u
        /\ \A t \in Threads : saving[t] # 0 =>
              /\ since[t] = settings
              /\ Len(file) = saving[t] - 1
              /\ \A n \in 1..Len(file) : file[n] = settings
        /\ Running /\ Quiet => Len(file) = Blocks
        /\ process = "stopped" => Len(file) = Blocks
        /\ Len(file) = Blocks =>
              /\ file[1] + 1 >= settings
              /\ \A t \in Changers : t \in holds => file[1] = settings
        /\ process \in {"closing", "stopped"} =>
              \A n \in 1..Len(file) : file[n] >= since[Owner]

SettingsInv ==
    /\ TypeOK
    /\ Lifecycle
    /\ NoPartMissing
    /\ LoneSave

\* What the steps use of the types.
LEMMA SettingsTypes ==
    ASSUME TypeOK
    PROVE  /\ settings \in Nat /\ settings \in Version
           /\ Blocks \in Nat \ {0} /\ MaxChanges \in Nat
           /\ file # Absent => file \in Seq(Block) /\ Len(file) \in Nat
           /\ \A t \in Threads : saving[t] \in Nat /\ saving[t] <= Blocks
           /\ \A t \in Threads : since[t] \in Nat /\ since[t] \in Version
           /\ Version \subseteq Nat
<1>1. Version \subseteq Nat
  BY SettingsAssumption DEF Version
<1>2. file # Absent => file \in Seq(Block) /\ Len(file) \in Nat
  BY DEF TypeOK, Block
<1>3. ASSUME NEW t \in Threads
      PROVE  saving[t] \in Nat /\ saving[t] <= Blocks /\ since[t] \in Version
  BY SettingsAssumption DEF TypeOK
<1>4. settings \in Version
  BY DEF TypeOK
<1> QED
  BY <1>1, <1>2, <1>3, <1>4, SettingsAssumption

\* A sequence of blocks is not Absent.
LEMMA FileIsThere ==
    ASSUME NEW f \in Seq(Block)
    PROVE  f # Absent
<1>1. Block \subseteq Nat \cup {Hole}
  BY SettingsAssumption DEF Block, Version
<1> DEFINE B == Nat \cup {Hole}
<1>2. Len(f) \in Nat /\ f = [n \in 1..Len(f) |-> f[n]]
      /\ \A n \in 1..Len(f) : f[n] \in Block
  OBVIOUS
<1>3. f \in [1..Len(f) -> B]
  BY <1>1, <1>2
<1>4. f \in Seq(B)
  <2> HIDE DEF B
  <2>1. \A m \in Nat : \A g \in [1..m -> B] : g \in Seq(B)
    OBVIOUS
  <2> QED
    BY <1>2, <1>3, <2>1
<1> QED
  BY <1>4, SettingsAssumption

\* _save_to_file() truncates: operator() and the owner's destructor.
LEMMA SaveBeginsInv ==
    ASSUME SettingsInv, NEW t \in Threads, SaveBegins(t), UNCHANGED settings,
           \/ Running /\ process' = process /\ ~(process = "closing" /\ t = Owner)
           \/ process = "up" /\ process' = "closing" /\ t = Owner,
           UNCHANGED crashes, t \notin holds
    PROVE  SettingsInv'
<1>0. /\ file' = << >> /\ saving' = [saving EXCEPT ![t] = 1]
      /\ since' = [since EXCEPT ![t] = settings]
      /\ disturbed' = ~Quiet /\ holds' = holds
  BY DEF SaveBegins
<1>1. /\ saving \in [Threads -> 0..Blocks] /\ since \in [Threads -> Version]
      /\ settings \in Version /\ settings \in Nat /\ Blocks \in Nat \ {0}
  BY SettingsTypes DEF SettingsInv, TypeOK
<1>2. /\ saving'[t] = 1 /\ since'[t] = settings
      /\ \A u \in Threads : u # t => saving'[u] = saving[u] /\ since'[u] = since[u]
  BY <1>0, <1>1
<1>3. file' \in Seq(Block) /\ Len(file') = 0 /\ file' # Absent
  <2>1. << >> \in Seq(Block) /\ Len(<< >>) = 0
    OBVIOUS
  <2>2. << >> # Absent
    BY <2>1, FileIsThere
  <2> QED
    BY <1>0, <2>1, <2>2
<1>4. TypeOK'
  <2>1. /\ saving' \in [Threads -> 0..Blocks] /\ since' \in [Threads -> Version]
        /\ disturbed' \in BOOLEAN
    BY <1>0, <1>1
  <2>2. process' \in {"down", "up", "closing", "stopped", "failed"}
    BY DEF SettingsInv, TypeOK
  <2> QED
    BY <1>0, <1>3, <2>1, <2>2 DEF SettingsInv, TypeOK, Block
<1>5. Running' /\ ~Quiet'
  BY <1>2 DEF Running, Quiet
<1>6. Lifecycle'
  <2>1. \A u \in Threads : saving'[u] # 0 => since'[u] <= settings
    BY <1>1, <1>2 DEF SettingsInv, Lifecycle
  <2>2. process' = "closing" => since'[Owner] <= settings
    BY <1>1, <1>2, SettingsAssumption DEF SettingsInv, Lifecycle
  <2>3. \A u \in holds' : saving'[u] = 0
    BY <1>0, <1>2 DEF SettingsInv, Lifecycle, TypeOK
  <2> QED
    BY <1>3, <1>5, <2>1, <2>2, <2>3 DEF Lifecycle
<1>7. NoPartMissing'
  <2>1. Written(saving[t] - 1)'
    BY <1>2, <1>3 DEF Written
  <2> QED
    BY <1>1, <1>2, <1>3, <2>1 DEF NoPartMissing
<1>8. LoneSave'
  <2> SUFFICES ASSUME Quiet PROVE LoneSave'
    BY <1>0 DEF LoneSave
  <2>1. \A u \in Threads : saving'[u] # 0 => u = t
    BY <1>2 DEF Quiet
  <2> QED
    BY <1>1, <1>2, <1>3, <1>5, <2>1 DEF LoneSave, OneVersion, Running
<1> QED
  BY <1>4, <1>6, <1>7, <1>8 DEF SettingsInv

\* A block goes out.
LEMMA WriteBlockInv ==
    ASSUME SettingsInv, NEW t \in Threads, WriteBlock(t)
    PROVE  SettingsInv'
<1>0. PICK v \in since[t]..settings : file' = WriteAt(file, saving[t], v)
  BY DEF WriteBlock
<1> DEFINE k == saving[t]
<1>1. /\ k # 0 /\ UNCHANGED <<process, settings, since, disturbed, crashes>>
      /\ IF k < Blocks
         THEN saving' = [saving EXCEPT ![t] = k + 1] /\ UNCHANGED holds
         ELSE saving' = [saving EXCEPT ![t] = 0] /\ holds' = holds \cup {t}
  BY DEF WriteBlock
<1>2. /\ saving \in [Threads -> 0..Blocks] /\ since \in [Threads -> Version]
      /\ settings \in Version /\ settings \in Nat /\ Blocks \in Nat \ {0}
      /\ since[t] \in Nat /\ MaxChanges \in Nat /\ Version \subseteq Nat
      /\ k \in 1..Blocks /\ k \in Nat \ {0}
  BY <1>1, SettingsTypes DEF SettingsInv, TypeOK
<1>3. /\ file # Absent /\ file \in Seq(Block) /\ Len(file) \in Nat /\ Running
  <2>1. file # Absent /\ Running
    BY <1>1 DEF SettingsInv, Lifecycle, Quiet
  <2> QED
    BY <2>1, SettingsTypes DEF SettingsInv
<1>4. v \in Version /\ v # Hole /\ v <= settings /\ v >= since[t]
  <2>1. v \in Nat /\ v <= settings /\ v >= since[t] /\ settings <= MaxChanges
    BY <1>0, <1>2 DEF Version
  <2>2. v \in Version
    BY <1>2, <2>1 DEF Version
  <2> QED
    BY <2>1, <2>2, SettingsAssumption
<1> HIDE DEF k
<1>5. /\ file' \in Seq(Block) /\ file' # Absent /\ file'[k] = v /\ k \in 1..Len(file')
      /\ Len(file') = IF Len(file) < k THEN k ELSE Len(file)
      /\ \A n \in 1..Len(file) : n # k => file'[n] = file[n]
  <2>1. file' = WriteAt(file, k, v)
    BY <1>0 DEF k
  <2>2. /\ WriteAt(file, k, v) \in Seq(Block)
        /\ Len(WriteAt(file, k, v)) = IF Len(file) < k THEN k ELSE Len(file)
        /\ WriteAt(file, k, v)[k] = v
        /\ k \in 1..Len(WriteAt(file, k, v))
        /\ \A n \in 1..Len(file) : n # k => WriteAt(file, k, v)[n] = file[n]
    BY <1>2, <1>3, <1>4, WriteAtFile, Zenon
  <2>3. WriteAt(file, k, v) # Absent
    BY <2>2, FileIsThere, Zenon
  <2> QED
    BY <2>1, <2>2, <2>3, Zenon
<1>6. /\ saving'[t] = IF k < Blocks THEN k + 1 ELSE 0
      /\ \A u \in Threads : u # t => saving'[u] = saving[u]
      /\ saving' \in [Threads -> 0..Blocks]
  BY <1>1, <1>2
<1>7. TypeOK'
  <2>1. holds' \subseteq Threads
    BY <1>1 DEF SettingsInv, TypeOK
  <2> QED
    BY <1>1, <1>5, <1>6, <2>1 DEF SettingsInv, TypeOK, Block
<1>8. Lifecycle'
  <2>1. saving[t] # 0 /\ since[t] <= settings
    BY <1>1 DEF SettingsInv, Lifecycle, k
  <2>2. \A u \in Threads : saving'[u] # 0 => since'[u] <= settings'
    BY <1>1, <1>6, <2>1 DEF SettingsInv, Lifecycle
  <2>3. \A u \in holds' : saving'[u] = 0
    <3>1. CASE k < Blocks
      BY <1>1, <1>6, <2>1, <3>1 DEF SettingsInv, Lifecycle, TypeOK
    <3>2. CASE ~(k < Blocks)
      BY <1>1, <1>6, <3>2 DEF SettingsInv, Lifecycle, TypeOK
    <3> QED
      BY <3>1, <3>2
  <2> QED
    BY <1>1, <1>3, <1>5, <2>2, <2>3 DEF SettingsInv, Lifecycle, Running
<1>9. NoPartMissing'
  <2>1. Len(file') <= Blocks
    BY <1>2, <1>3, <1>5 DEF SettingsInv, NoPartMissing
  <2>2. ASSUME NEW n \in Nat, Written(n) PROVE Written(n)'
    <3>1. n <= Len(file') /\ \A j \in 1..n : j \in 1..Len(file)
      BY <1>2, <1>3, <1>5, <2>2 DEF Written
    <3>2. ASSUME NEW j \in 1..n PROVE file'[j] # Hole
      BY <1>4, <1>5, <2>2, <3>1 DEF Written
    <3> QED
      BY <3>1, <3>2 DEF Written
  <2>3. CASE Written(Blocks)
    BY <1>2, <2>1, <2>2, <2>3 DEF NoPartMissing
  <2>4. CASE \E u \in Threads : saving[u] # 0 /\ Written(saving[u] - 1)
    <3>1. PICK u \in Threads : saving[u] # 0 /\ Written(saving[u] - 1)
      BY <2>4
    <3>2. CASE u # t
      <4>1. saving'[u] # 0 /\ saving[u] - 1 \in Nat /\ saving'[u] = saving[u]
        BY <1>2, <1>6, <3>1, <3>2
      <4>2. Written(saving[u] - 1)'
        BY <2>2, <3>1, <4>1 DEF Written
      <4> QED
        BY <2>1, <4>1, <4>2 DEF NoPartMissing
    <3>3. CASE u = t
      <4>1. k - 1 \in Nat /\ Written(k - 1)
        BY <1>2, <3>1, <3>3 DEF k
      <4>2. k - 1 <= Len(file') /\ \A j \in 1..(k - 1) : file'[j] # Hole
        BY <2>2, <4>1 DEF Written
      <4>3. k <= Len(file') /\ \A j \in 1..k : file'[j] # Hole
        BY <1>2, <1>4, <1>5, <4>2
      <4>4. CASE k < Blocks
        <5>1. saving'[t] # 0 /\ saving'[t] - 1 = k
          BY <1>2, <1>6, <4>4
        <5>2. Written(saving[t] - 1)'
          BY <4>3, <5>1 DEF Written
        <5> QED
          BY <2>1, <5>1, <5>2 DEF NoPartMissing
      <4>5. CASE ~(k < Blocks)
        <5>1. k = Blocks
          BY <1>2, <4>5
        <5>2. Written(Blocks)'
          BY <4>3, <5>1 DEF Written
        <5> QED
          BY <2>1, <5>2 DEF NoPartMissing
      <4> QED
        BY <4>4, <4>5
    <3> QED
      BY <3>2, <3>3
  <2> QED
    BY <1>3, <2>3, <2>4 DEF SettingsInv, NoPartMissing
<1>10. LoneSave'
  <2> SUFFICES ASSUME ~disturbed PROVE LoneSave'
    BY <1>1 DEF LoneSave
  <2>1. /\ since[t] = settings /\ Len(file) = k - 1
        /\ \A n \in 1..Len(file) : file[n] = settings
        /\ \A u \in Threads : saving[u] # 0 => u = t
    BY <1>1, <1>3 DEF SettingsInv, LoneSave, k
  <2>2. v = settings
    BY <1>2, <1>4, <2>1
  <2>3. Len(file') = k /\ \A n \in 1..Len(file') : file'[n] = settings
    BY <1>2, <1>3, <1>5, <2>1, <2>2
  <2>4. OneVersion'
    BY <1>2, <2>3 DEF OneVersion
  <2>5. \A u \in Threads : saving'[u] # 0 =>
           u = t /\ Len(file') = saving'[u] - 1
    BY <1>2, <1>6, <2>1, <2>3
  <2>6. ASSUME Quiet' PROVE Len(file') = Blocks
    BY <1>2, <1>6, <2>3, <2>6 DEF Quiet
  <2>7. Len(file') = Blocks => file'[1] = settings
    BY <1>2, <2>3
  <2>8. process = "closing" => settings >= since[Owner]
    BY <1>2, SettingsAssumption DEF SettingsInv, Lifecycle
  <2>9. process # "stopped"
    BY <1>3 DEF Running
  <2> QED
    BY <1>1, <1>2, <2>1, <2>3, <2>4, <2>5, <2>6, <2>7, <2>8, <2>9 DEF LoneSave
<1> QED
  BY <1>7, <1>8, <1>9, <1>10 DEF SettingsInv

\* What a complete file gives: the part of _initialize_settings() that parses.
LEMMA CompleteFile ==
    ASSUME TypeOK, file # Absent, Complete(file)
    PROVE  /\ Len(file) = Blocks /\ Written(Blocks)
           /\ \A n \in 1..Len(file) : file[n] \in Version
<1>1. file \in Seq(Block) /\ Len(file) \in Nat /\ Blocks \in Nat
  BY SettingsTypes
<1>2. Len(file) = Blocks /\ \A n \in 1..Len(file) : file[n] # Hole
  BY DEF Complete
<1>3. ASSUME NEW n \in 1..Len(file) PROVE file[n] \in Block
  BY <1>1
<1> QED
  BY <1>1, <1>2, <1>3 DEF Written, Block

\* The constructor.
LEMMA StartInv ==
    ASSUME SettingsInv, Start
    PROVE  SettingsInv'
<1>1. /\ process \in {"down", "stopped"} /\ process' = "up"
      /\ settings' \in Readable(file)
      /\ UNCHANGED <<file, saving, since, holds, disturbed, crashes>>
  BY DEF Start
<1>2. Quiet /\ holds = {} /\ Quiet' /\ holds' = {} /\ Running'
  BY <1>1 DEF SettingsInv, Lifecycle, Running, Quiet
<1>3. CASE file = Absent
  <2>1. settings' = 0 /\ settings' \in Version
    BY <1>1, <1>3, SettingsAssumption DEF Readable, Version
  <2>2. TypeOK'
    BY <1>1, <2>1 DEF SettingsInv, TypeOK
  <2>3. Lifecycle'
    BY <1>1, <1>2, <2>1 DEF Lifecycle, Quiet
  <2> QED
    BY <1>1, <1>3, <2>2, <2>3 DEF SettingsInv, NoPartMissing, LoneSave
<1>4. CASE file # Absent
  <2>1. Complete(file) /\ settings' \in {file[n] : n \in 1..Len(file)}
    BY <1>1, <1>4 DEF Readable
  <2>2. /\ Len(file) = Blocks /\ Written(Blocks)
        /\ \A n \in 1..Len(file) : file[n] \in Version
    BY <1>4, <2>1, CompleteFile DEF SettingsInv
  <2>3. Blocks \in Nat \ {0} /\ Version \subseteq Nat
    BY SettingsTypes DEF SettingsInv
  <2>4. settings' \in Version /\ settings' \in Nat
    BY <2>1, <2>2, <2>3
  <2>5. TypeOK'
    BY <1>1, <2>4 DEF SettingsInv, TypeOK
  <2>6. Lifecycle'
    BY <1>1, <1>2, <1>4 DEF Lifecycle, Quiet
  <2>7. NoPartMissing'
    BY <1>1, <2>2 DEF SettingsInv, NoPartMissing, Written
  <2>8. LoneSave'
    <3> SUFFICES ASSUME ~disturbed PROVE LoneSave'
      BY <1>1 DEF LoneSave
    <3>1. OneVersion /\ OneVersion'
      BY <1>1, <1>4 DEF SettingsInv, LoneSave, OneVersion
    <3>2. file[1] = settings'
      BY <2>1, <3>1 DEF OneVersion
    <3>3. file'[1] + 1 >= settings'
      <4>1. file'[1] = settings'
        BY <1>1, <3>2
      <4>2. \A n \in Nat : n + 1 >= n
        OBVIOUS
      <4> QED
        BY <2>4, <4>1, <4>2
    <3> QED
      BY <1>1, <1>2, <2>2, <3>1, <3>3 DEF LoneSave, Quiet
  <2> QED
    BY <2>5, <2>6, <2>7, <2>8 DEF SettingsInv
<1> QED
  BY <1>3, <1>4

\* The caller changes the value, or only reads it.
LEMMA UseInv ==
    ASSUME SettingsInv, NEW t \in Threads, Use(t)
    PROVE  SettingsInv'
<1>1. /\ t \in holds /\ holds' = holds \ {t}
      /\ UNCHANGED <<process, file, saving, since, crashes>>
  BY DEF Use
<1>2. Running /\ file # Absent
  BY <1>1 DEF SettingsInv, Lifecycle
<1>3. CASE UNCHANGED <<settings, disturbed>>
  <2>1. TypeOK'
    BY <1>1, <1>3 DEF SettingsInv, TypeOK
  <2>2. Lifecycle'
    BY <1>1, <1>2, <1>3 DEF SettingsInv, Lifecycle, Running, Quiet
  <2>3. NoPartMissing'
    BY <1>1, <1>3 DEF SettingsInv, NoPartMissing, Written, Running
  <2>4. LoneSave'
    BY <1>1, <1>3 DEF SettingsInv, LoneSave, OneVersion, Running, Quiet
  <2> QED
    BY <2>1, <2>2, <2>3, <2>4 DEF SettingsInv
<1>4. CASE /\ t \in Changers /\ settings < MaxChanges /\ settings' = settings + 1
           /\ disturbed' = (disturbed \/ ~Quiet)
  <2>1. settings \in Nat /\ settings' \in Version /\ settings' \in Nat
    BY <1>4, SettingsTypes DEF SettingsInv, Version
  <2>2. TypeOK'
    BY <1>1, <1>4, <2>1 DEF SettingsInv, TypeOK
  <2>3. Lifecycle'
    <3>1. \A u \in Threads : since[u] \in Nat
      BY SettingsTypes DEF SettingsInv
    <3>2. \A u \in Threads : saving'[u] # 0 => since'[u] <= settings'
      BY <1>1, <1>4, <2>1, <3>1 DEF SettingsInv, Lifecycle
    <3>3. process' = "closing" => since'[Owner] <= settings'
      BY <1>1, <1>4, <2>1, <3>1, SettingsAssumption DEF SettingsInv, Lifecycle
    <3> QED
      BY <1>1, <1>2, <3>2, <3>3 DEF SettingsInv, Lifecycle, Running
  <2>4. NoPartMissing'
    BY <1>1 DEF SettingsInv, NoPartMissing, Written, Running
  <2>5. LoneSave'
    <3> SUFFICES ASSUME ~disturbed, Quiet PROVE LoneSave'
      BY <1>4 DEF LoneSave
    <3>1. /\ OneVersion /\ OneVersion' /\ Len(file) = Blocks /\ file[1] = settings
          /\ process # "stopped"
          /\ process = "closing" => \A n \in 1..Len(file) : file[n] >= since[Owner]
      BY <1>1, <1>2, <1>4 DEF SettingsInv, LoneSave, OneVersion, Running
    <3>2. \A u \in Changers : u \notin holds'
      BY <1>1, <1>4, ChangersAssumption
    <3>3. file'[1] + 1 >= settings'
      BY <1>1, <1>4, <2>1, <3>1
    <3>4. \A u \in Threads : saving'[u] = 0
      BY <1>1 DEF Quiet
    <3> QED
      BY <1>1, <3>1, <3>2, <3>3, <3>4 DEF LoneSave
  <2> QED
    BY <2>2, <2>3, <2>4, <2>5 DEF SettingsInv
<1> QED
  BY <1>3, <1>4 DEF Use

\* The process ends: its destructor has returned, it dies, or its constructor
\* has thrown.
LEMMA EndInv ==
    ASSUME SettingsInv, Stop \/ Crash \/ StartFails
    PROVE  SettingsInv'
<1>1. /\ UNCHANGED <<settings, file, since, disturbed>>
      /\ process' \in {"stopped", "down", "failed"} /\ holds' = {}
      /\ saving' \in [Threads -> 0..Blocks] /\ Quiet'
      /\ process' = "stopped" => process = "closing" /\ Quiet
  <2>1. CASE Stop
    <3>1. Quiet
      BY <2>1 DEF Stop, Idle, SettingsInv, Lifecycle, Quiet
    <3> QED
      BY <2>1, <3>1 DEF Stop, SettingsInv, TypeOK, Quiet
  <2>2. CASE Crash
    BY <2>2, SettingsAssumption DEF Crash, Quiet
  <2>3. CASE StartFails
    BY <2>3 DEF StartFails, SettingsInv, TypeOK, Lifecycle, Running, Quiet
  <2> QED
    BY <2>1, <2>2, <2>3
<1>2. crashes' \in 0..MaxCrashes
  BY SettingsAssumption DEF Stop, Crash, StartFails, SettingsInv, TypeOK
<1>3. TypeOK'
  BY <1>1, <1>2 DEF SettingsInv, TypeOK
<1>4. Lifecycle'
  BY <1>1 DEF SettingsInv, Lifecycle, Running, Quiet
<1>5. NoPartMissing'
  BY <1>1 DEF SettingsInv, NoPartMissing, Running
<1>6. LoneSave'
  <2> SUFFICES ASSUME ~disturbed, file # Absent PROVE LoneSave'
    BY <1>1 DEF LoneSave
  <2>1. OneVersion' /\ ~Running'
    BY <1>1 DEF SettingsInv, LoneSave, OneVersion, Running
  <2>2. process' = "stopped" => /\ Len(file') = Blocks
                               /\ \A n \in 1..Len(file') : file'[n] >= since'[Owner]
    BY <1>1 DEF SettingsInv, LoneSave, Running
  <2>3. Len(file') = Blocks => file'[1] + 1 >= settings'
    BY <1>1 DEF SettingsInv, LoneSave
  <2> QED
    BY <1>1, <2>1, <2>2, <2>3 DEF LoneSave, Quiet
<1> QED
  BY <1>3, <1>4, <1>5, <1>6 DEF SettingsInv

-----------------------------------------------------------------------------
(***************************************************************************)
(* The theorems.                                                           *)
(***************************************************************************)
\* The parts of the invariant hold of every settings object, whatever its
\* threads, its changes and its crashes.
THEOREM SettingsHold == Spec => []SettingsInv
<1>1. Init => SettingsInv
  <2> SUFFICES ASSUME Init PROVE SettingsInv
    OBVIOUS
  <2>1. TypeOK
    <3>1. 0 \in Version /\ 0 \in 0..Blocks /\ 0 \in 0..MaxCrashes
      BY SettingsAssumption DEF Version
    <3> QED
      BY <3>1 DEF Init, TypeOK
  <2>2. Lifecycle
    BY DEF Init, Lifecycle, Running, Quiet
  <2> QED
    BY <2>1, <2>2 DEF Init, SettingsInv, NoPartMissing, LoneSave
<1>2. SettingsInv /\ [Next]_vars => SettingsInv'
  <2> SUFFICES ASSUME SettingsInv, [Next]_vars PROVE SettingsInv'
    OBVIOUS
  <2>1. CASE Start
    BY <2>1, StartInv
  <2>2. CASE StartFails \/ Stop \/ Crash
    BY <2>2, EndInv
  <2>3. CASE Close
    BY <2>3, SaveBeginsInv, SettingsAssumption DEF Close, Idle
  <2>4. ASSUME NEW t \in Threads, Call(t) PROVE SettingsInv'
    BY <2>4, SaveBeginsInv DEF Call, Idle, Running
  <2>5. ASSUME NEW t \in Threads, WriteBlock(t) PROVE SettingsInv'
    BY <2>5, WriteBlockInv
  <2>6. ASSUME NEW t \in Threads, Use(t) PROVE SettingsInv'
    BY <2>6, UseInv
  <2>7. CASE UNCHANGED vars
    BY <2>7 DEF vars, SettingsInv, TypeOK, Lifecycle, NoPartMissing, Written,
                LoneSave, OneVersion, Running, Quiet
  <2> QED
    BY <2>1, <2>2, <2>3, <2>4, <2>5, <2>6, <2>7 DEF Next
<1> QED
  BY <1>1, <1>2, PTL DEF Spec

\* Every variable of the settings object and of its file keeps its type.
THEOREM SettingsTypeCorrect == Spec => []TypeOK
<1>1. SettingsInv => TypeOK
  BY DEF SettingsInv
<1> QED
  BY <1>1, SettingsHold, PTL

\* A file of one version that is complete is what the constructor reads.
LEMMA LoneFileIsWhole ==
    ASSUME SettingsInv, ~disturbed, file # Absent, Len(file) = Blocks
    PROVE  /\ Whole(file) /\ Readable(file) = {file[1]}
           /\ file[1] \in Nat /\ 1 \in 1..Len(file)
<1>1. Blocks \in Nat \ {0} /\ Version \subseteq Nat
  BY SettingsTypes DEF SettingsInv
<1>2. \A n \in 1..Len(file) : file[n] \in Version /\ file[n] = file[1]
  BY DEF SettingsInv, LoneSave, OneVersion
<1>3. 1 \in 1..Len(file) /\ file[1] \in Nat
  <2>1. 1 \in 1..Blocks
    BY <1>1
  <2> QED
    BY <1>1, <1>2, <2>1
<1>4. Complete(file) /\ Whole(file)
  BY <1>1, <1>2, SettingsAssumption DEF Complete, Whole
<1> QED
  BY <1>2, <1>3, <1>4 DEF Readable

\* Whenever no save is under way, and the last one met neither another save nor
\* a change, the file of a running process (settings.h: _save_to_file()) is whole
\* and at most one change behind.
THEOREM LoneSaveKeeps == Spec => []LoneSaveKeepsPreviousVersion
<1>1. SettingsInv => LoneSaveKeepsPreviousVersion
  <2> SUFFICES ASSUME SettingsInv, process = "up", Quiet, ~disturbed
               PROVE  HoldsPreviousVersion
    BY DEF LoneSaveKeepsPreviousVersion
  <2>1. CASE file = Absent
    BY <2>1 DEF SettingsInv, Lifecycle, HoldsPreviousVersion, Readable
  <2>2. CASE file # Absent
    <3>1. Len(file) = Blocks /\ file[1] + 1 >= settings
      BY <2>2 DEF SettingsInv, LoneSave, Running
    <3> QED
      BY <2>2, <3>1, LoneFileIsWhole DEF HoldsPreviousVersion
  <2> QED
    BY <2>1, <2>2
<1> QED
  BY <1>1, SettingsHold, PTL

\* When the owner's destructor and the server thread have ended, the file has all
\* that was changed before the destructor, unless two saves met.
THEOREM CleanStopSaves == Spec => []CleanStopSavesAll
<1>1. SettingsInv => CleanStopSavesAll
  <2> SUFFICES ASSUME SettingsInv, process = "stopped", ~disturbed
               PROVE  /\ file # Absent /\ Whole(file)
                      /\ \A v \in Readable(file) : v >= since[Owner]
    BY DEF CleanStopSavesAll
  <2>1. file # Absent
    BY DEF SettingsInv, Lifecycle
  <2>2. Len(file) = Blocks /\ \A n \in 1..Len(file) : file[n] >= since[Owner]
    BY <2>1 DEF SettingsInv, LoneSave
  <2> QED
    BY <2>1, <2>2, LoneFileIsWhole
<1> QED
  BY <1>1, SettingsHold, PTL

\* Saves that overlap, without a lock, in any number of threads and at any
\* offsets: once all have returned, no part of the file is missing.
THEOREM OverlappingSavesComplete == Spec => []QuietFileIsComplete
<1>1. SettingsInv => QuietFileIsComplete
  <2> SUFFICES ASSUME SettingsInv, process = "up", Quiet, file # Absent
               PROVE  Complete(file)
    BY DEF QuietFileIsComplete
  <2>1. Len(file) <= Blocks /\ Written(Blocks)
    BY DEF SettingsInv, NoPartMissing, Running, Quiet
  <2>2. Blocks \in Nat /\ Len(file) \in Nat
    BY SettingsTypes DEF SettingsInv
  <2> QED
    BY <2>1, <2>2 DEF Complete, Written
<1> QED
  BY <1>1, SettingsHold, PTL

\* A process that starts again after a crash reads a file that misses the last
\* change at most, unless saves had met: the constructor never brings back
\* older contents.
THEOREM RestartLosesLittle == Spec => RestartLosesAtMostOneChange
<1>1. SettingsInv /\ [Next]_vars =>
        [process = "down" /\ process' = "up" /\ ~disturbed
           => settings' + 1 >= settings]_vars
  <2> SUFFICES ASSUME SettingsInv, [Next]_vars, process = "down", process' = "up",
                      ~disturbed
               PROVE  settings' + 1 >= settings
    OBVIOUS
  <2>1. Start
    BY DEF Next, vars, StartFails, Close, Stop, Crash, Call, WriteBlock, Use,
           SettingsInv, Lifecycle, Running
  <2>2. settings' \in Readable(file) /\ settings \in Nat
    BY <2>1, SettingsTypes DEF Start, SettingsInv
  <2>3. CASE file = Absent
    BY <2>2, <2>3 DEF Readable, SettingsInv, Lifecycle
  <2>4. CASE file # Absent
    <3>1. Complete(file) /\ Len(file) = Blocks
      BY <2>2, <2>4 DEF Readable, Complete
    <3>2. settings' = file[1]
      BY <2>2, <2>4, <3>1, LoneFileIsWhole
    <3> QED
      BY <2>4, <3>1, <3>2 DEF SettingsInv, LoneSave
  <2> QED
    BY <2>3, <2>4
<1> QED
  BY <1>1, SettingsHold, PTL DEF Spec, RestartLosesAtMostOneChange
=============================================================================
