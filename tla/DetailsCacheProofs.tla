------------------------- MODULE DetailsCacheProofs -------------------------
(***************************************************************************)
(* What holds of the details cache for any number of workers and keys, any *)
(* entries and any lengths of them: the type invariant, the two safety     *)
(* invariants of the concurrent cache, and that it is a ReadThroughStore;  *)
(* and with one worker, that nothing saved is lost and that it is a        *)
(* DurableStore.                                                           *)
(***************************************************************************)
EXTENDS DetailsCache, TLAPS

-----------------------------------------------------------------------------
(* The operators the model is built from.                                  *)

\* A level is one of three numbers.
LEMMA LevelType ==
  ASSUME NEW m, NEW k
  PROVE  Level(m, k) \in 0 .. 2
BY DEF Level

\* Being below is reflexive, and an empty map is below every map.
LEMMA BelowLeast ==
  ASSUME NEW m
  PROVE  Below(m, m) /\ Below(EmptyMap, m)
<1>1. \A k \in Keys : Level(m, k) <= Level(m, k)
  BY LevelType
<1>2. \A k \in Keys : Level(EmptyMap, k) <= Level(m, k)
  <2>1. \A k \in Keys : Level(EmptyMap, k) = 0
    BY DEF Level, EmptyMap
  <2> QED BY <2>1, LevelType
<1> QED BY <1>1, <1>2 DEF Below

\* Being below is transitive.
LEMMA BelowTransitive ==
  ASSUME NEW m, NEW n, NEW p, Below(m, n), Below(n, p)
  PROVE  Below(m, p)
<1> SUFFICES ASSUME NEW k \in Keys PROVE Level(m, k) <= Level(p, k)
  BY DEF Below
<1>1. Level(m, k) <= Level(n, k) /\ Level(n, k) <= Level(p, k)
  BY DEF Below
<1> QED BY <1>1, LevelType

\* Storing a fetched entry raises its key to current and lowers no other key.
LEMMA FillRaises ==
  ASSUME NEW m \in Snapshots, NEW j \in Keys, NEW d \in Fetched
  PROVE  LET n == [m EXCEPT ![j] = d]
         IN  /\ n \in Snapshots
             /\ Below(m, n)
             /\ HasCurrent(n, j)
             /\ \A k \in Keys : HasCurrent(m, k) => HasCurrent(n, k)
             /\ Levels(n) = [Levels(m) EXCEPT ![j] = 2]
<1> DEFINE n == [m EXCEPT ![j] = d]
<1>1. d \in Details /\ d # None /\ IsCurrent(d)
  BY EntriesAssumption
<1>2. n \in Snapshots
  BY <1>1 DEF Snapshots
<1>3. n[j] = d /\ \A k \in Keys \ {j} : n[k] = m[k]
  BY DEF Snapshots
<1>4. Level(n, j) = 2 /\ \A k \in Keys \ {j} : Level(n, k) = Level(m, k)
  BY <1>1, <1>3 DEF Level
<1>5. Below(m, n)
  <2> SUFFICES ASSUME NEW k \in Keys PROVE Level(m, k) <= Level(n, k)
    BY DEF Below
  <2>1. Level(m, k) \in 0 .. 2
    BY LevelType
  <2>2. Level(n, k) \in {2, Level(m, k)}
    BY <1>4
  <2> HIDE DEF n
  <2> QED BY <2>1, <2>2
<1>6. HasCurrent(n, j) /\ \A k \in Keys : HasCurrent(m, k) => HasCurrent(n, k)
  BY <1>1, <1>3 DEF HasCurrent
<1>7. Levels(n) = [Levels(m) EXCEPT ![j] = 2]
  BY <1>4 DEF Levels
<1> QED BY <1>2, <1>5, <1>6, <1>7

\* The text of a map is a file that loads as that map.
LEMMA FileOfLoads ==
  ASSUME NEW s \in Snapshots
  PROVE  FileOf(s) \in Files /\ FileOf(s) # None /\ Load(FileOf(s)) = s
<1>1. s # Undecodable /\ Size(s) \in Nat
  BY FilesAssumption
<1>2. FileOf(s) \in [data : Contents, len : Nat]
  BY <1>1 DEF FileOf, Contents
<1>3. FileOf(s) # None
  BY <1>2, FilesAssumption
<1>4. FileOf(s).data = s
  BY DEF FileOf
<1> QED BY <1>1, <1>2, <1>3, <1>4 DEF Files, Load, Decodes

\* A file that does not decode loads as the empty map.
LEMMA BrokenLoads ==
  ASSUME NEW n \in Nat
  PROVE  LET f == [data |-> Undecodable, len |-> n]
         IN  f \in Files /\ f # None /\ Load(f) = EmptyMap
<1> DEFINE f == [data |-> Undecodable, len |-> n]
<1>1. f \in [data : Contents, len : Nat]
  BY DEF Contents
<1>2. f # None
  BY <1>1, FilesAssumption
<1> QED BY <1>1, <1>2 DEF Files, Load, Decodes

\* What load() puts in the map is a map.
LEMMA LoadType ==
  ASSUME NEW f \in Files
  PROVE  Load(f) \in Snapshots
<1>1. EmptyMap \in Snapshots
  BY DEF EmptyMap, Snapshots
<1>2. CASE Decodes(f)
  BY <1>2 DEF Decodes, Files, Contents, Load
<1> QED BY <1>1, <1>2 DEF Load

\* Writing a map over a file leaves that map, or a file that does not decode.
LEMMA OverwriteLoads ==
  ASSUME NEW f \in Files, f # None, NEW s \in Snapshots
  PROVE  LET g == Overwrite(f, s)
         IN  g \in Files /\ g # None /\ Load(g) \in {s, EmptyMap}
<1>1. f.len \in Nat
  BY DEF Files
<1>2. CASE f.len <= Size(s)
  BY <1>2, FileOfLoads DEF Overwrite
<1>3. CASE ~(f.len <= Size(s))
  BY <1>1, <1>3, BrokenLoads DEF Overwrite
<1> QED BY <1>2, <1>3

\* A short write of a map over a file leaves a file, and each key in it as it
\* is in one of the two, or not at all.
LEMMA PartlyWrittenLoads ==
  ASSUME NEW f \in Files, f # None, NEW s \in Snapshots, NEW n \in Nat,
         NEW g \in PartlyWritten(f, s, n)
  PROVE  /\ g \in Files /\ g # None
         /\ \A k \in Keys : Level(Load(g), k) \in {0, Level(s, k), Level(Load(f), k)}
<1>1. f.len \in Nat
  BY DEF Files
<1>2. \A k \in Keys : Level(EmptyMap, k) = 0
  BY DEF Level, EmptyMap
<1>3. CASE n = 0
  BY <1>3 DEF PartlyWritten
<1>4. CASE n # 0 /\ n < f.len
  <2>1. g \in [data : {Undecodable} \union Patched(f, s), len : {f.len}]
    BY <1>4 DEF PartlyWritten
  <2>2. CASE g.data = Undecodable
    <3>1. g = [data |-> Undecodable, len |-> f.len]
      BY <2>1, <2>2
    <3> QED BY <3>1, <1>1, <1>2, BrokenLoads
  <2>3. CASE g.data # Undecodable
    <3>1. g.data \in Patched(f, s) /\ g.len = f.len /\ g = [data |-> g.data, len |-> g.len]
      BY <2>1, <2>3
    <3>2. f.data # Undecodable /\ g.data \in Snapshots
          /\ \A k \in Keys : g.data[k] \in {s[k], f.data[k]}
      BY <3>1 DEF Patched
    <3>3. g \in [data : Contents, len : Nat]
      BY <3>1, <3>2, <1>1 DEF Contents
    <3>4. g \in Files /\ g # None
      BY <3>3, FilesAssumption DEF Files
    <3>5. Load(g) = g.data /\ Load(f) = f.data
      BY <3>2, <3>4, <2>3 DEF Load, Decodes
    <3>6. ASSUME NEW k \in Keys PROVE Level(Load(g), k) \in {Level(s, k), Level(Load(f), k)}
      <4>1. CASE g.data[k] = s[k]
        BY <4>1, <3>5 DEF Level
      <4>2. CASE g.data[k] = f.data[k]
        BY <4>2, <3>5 DEF Level
      <4> QED BY <4>1, <4>2, <3>2
    <3> QED BY <3>4, <3>6
  <2> QED BY <2>2, <2>3
<1>5. CASE n # 0 /\ ~(n < f.len)
  <2>1. g = [data |-> Undecodable, len |-> n]
    BY <1>5 DEF PartlyWritten
  <2> QED BY <2>1, <1>2, BrokenLoads
<1> QED BY <1>3, <1>4, <1>5

-----------------------------------------------------------------------------
(* Types.                                                                  *)

\* A handle refers to a directory entry that is there.
HandlesOpen ==
  \A w \in Workers : /\ fd[w] = "tmp"  => tmp # None
                     /\ fd[w] = "path" => path # None

TypeInv == TypeOK /\ HandlesOpen

LEMMA TypeInit == Init => TypeInv
<1> SUFFICES ASSUME Init PROVE TypeInv
  OBVIOUS
<1>1. path \in Files
  BY FileOfLoads DEF Init, Files
<1>2. mem \in Snapshots
  BY <1>1, LoadType DEF Init
<1>3. EmptyMap \in Snapshots
  BY DEF EmptyMap, Snapshots
<1> QED BY <1>1, <1>2, <1>3, FilesAssumption DEF Init, TypeInv, TypeOK, HandlesOpen, Files

\* The file a handle refers to is a file, and so is what a write makes of it.
LEMMA SetFileType ==
  ASSUME TypeInv, NEW w \in Workers, NEW g \in Files, g # None, SetFile(fd[w], g)
  PROVE  /\ path' \in Files /\ (path # None => path' # None)
         /\ tmp' \in Files /\ (tmp # None => tmp' # None)
BY DEF TypeInv, TypeOK, SetFile

LEMMA FileAtType ==
  ASSUME TypeInv, NEW w \in Workers
  PROVE  FileAt(fd[w]) \in Files /\ FileAt(fd[w]) # None
<1>1. EmptyFile \in Files /\ EmptyFile # None
  BY BrokenLoads DEF EmptyFile
<1>2. path \in Files /\ tmp \in Files
      /\ (fd[w] = "tmp" => tmp # None) /\ (fd[w] = "path" => path # None)
  BY DEF TypeInv, TypeOK, HandlesOpen
<1> QED BY <1>1, <1>2 DEF FileAt

LEMMA TypeStep == TypeInv /\ [Next]_vars => TypeInv'
<1> SUFFICES ASSUME TypeInv, [Next]_vars PROVE TypeInv'
  OBVIOUS
<1> USE DEF TypeInv
<1>0. EmptyMap \in Snapshots
  BY DEF EmptyMap, Snapshots
<1>1. CASE UNCHANGED vars
  BY <1>1 DEF vars, worker, history, TypeOK, HandlesOpen
<1>2. ASSUME NEW w \in Workers, NEW k \in Keys, Hit(w, k) PROVE TypeInv'
  BY <1>2 DEF Hit, worker, TypeOK, HandlesOpen
<1>3. ASSUME NEW w \in Workers, NEW k \in Keys, Miss(w, k) PROVE TypeInv'
  BY <1>3 DEF Miss, Goto, history, TypeOK, HandlesOpen
<1>4. ASSUME NEW w \in Workers, FetchFails(w) PROVE TypeInv'
  BY <1>0, <1>4 DEF FetchFails, Return, Goto, history, TypeOK, HandlesOpen
<1>5. ASSUME NEW w \in Workers, FetchSucceeds(w) PROVE TypeInv'
  <2>1. PICK d \in Fetched : mem' = [mem EXCEPT ![key[w]] = d]
    BY <1>5 DEF FetchSucceeds
  <2>2. mem \in Snapshots /\ key[w] \in Keys
    BY <1>5 DEF FetchSucceeds, TypeOK
  <2>3. mem' \in Snapshots
    BY <2>1, <2>2, FillRaises
  <2> QED BY <2>3, <1>5 DEF FetchSucceeds, Goto, history, TypeOK, HandlesOpen
<1>6. ASSUME NEW w \in Workers, TakeSnapshot(w) PROVE TypeInv'
  BY <1>6 DEF TakeSnapshot, Goto, history, TypeOK, HandlesOpen
<1>7. ASSUME NEW w \in Workers, OpenTmp(w) PROVE TypeInv'
  <2>1. EmptyFile \in Files /\ EmptyFile # None
    BY BrokenLoads DEF EmptyFile
  <2> QED BY <2>1, <1>7 DEF OpenTmp, Goto, history, TypeOK, HandlesOpen
<1>8. ASSUME NEW w \in Workers, WriteTmp(w) PROVE TypeInv'
  <2>1. snap[w] \in Snapshots
    BY DEF TypeOK
  <2>2. Overwrite(FileAt(fd[w]), snap[w]) \in Files
        /\ Overwrite(FileAt(fd[w]), snap[w]) # None
    BY <2>1, FileAtType, OverwriteLoads
  <2>3. SetFile(fd[w], Overwrite(FileAt(fd[w]), snap[w]))
    BY <1>8 DEF WriteTmp
  <2>4. /\ path' \in Files /\ (path # None => path' # None)
        /\ tmp' \in Files /\ (tmp # None => tmp' # None)
    BY <2>2, <2>3, SetFileType
  <2> QED BY <2>4, <1>8, FilesAssumption DEF WriteTmp, Goto, history, TypeOK, HandlesOpen
<1>9. ASSUME NEW w \in Workers, WriteFails(w) PROVE TypeInv'
  <2>1. PICK n \in 0 .. Size(snap[w]) - 1 :
          \E f \in PartlyWritten(FileAt(fd[w]), snap[w], n) : SetFile(fd[w], f)
    BY <1>9 DEF WriteFails
  <2>2. PICK f \in PartlyWritten(FileAt(fd[w]), snap[w], n) : SetFile(fd[w], f)
    BY <2>1
  <2>3. snap[w] \in Snapshots /\ n \in Nat
    BY FilesAssumption DEF TypeOK
  <2>4. f \in Files /\ f # None
    BY <2>3, FileAtType, PartlyWrittenLoads
  <2>5. /\ path' \in Files /\ (path # None => path' # None)
        /\ tmp' \in Files /\ (tmp # None => tmp' # None)
    BY <2>2, <2>4, SetFileType
  <2> QED BY <2>5, <1>0, <1>9, FilesAssumption
          DEF WriteFails, ReturnFetched, Return, Goto, TypeOK, HandlesOpen
<1>10. ASSUME NEW w \in Workers, RenameTmp(w) PROVE TypeInv'
  <2>1. \A h : Renamed(h) \in {"path", "unlinked", h} /\ Renamed(h) # "tmp"
    BY DEF Renamed
  <2>2. fd' \in [Workers -> {None, "tmp", "path", "unlinked"}] /\ HandlesOpen'
    BY <2>1, <1>10 DEF RenameTmp, TypeOK, HandlesOpen
  <2> QED BY <2>2, <1>0, <1>10 DEF RenameTmp, ReturnFetched, Return, Goto, TypeOK, Files
<1>11. ASSUME NEW w \in Workers, RenameFindsNothing(w) \/ SaveRefused(w) PROVE TypeInv'
  BY <1>0, <1>11 DEF RenameFindsNothing, SaveRefused, ReturnFetched, Return, Goto,
                     TypeOK, HandlesOpen
<1>12. CASE Restart
  BY <1>0, <1>12, LoadType, FilesAssumption DEF Restart, Stop, TypeOK, HandlesOpen
<1>13. CASE RestartUnreadable
  BY <1>0, <1>13, FilesAssumption DEF RestartUnreadable, Stop, TypeOK, HandlesOpen
<1> QED BY <1>1, <1>2, <1>3, <1>4, <1>5, <1>6, <1>7, <1>8, <1>9, <1>10, <1>11,
           <1>12, <1>13 DEF Next, Ask, Work

\* Every variable keeps its type, and a handle refers to a file, in every
\* reachable state: type correctness of the cache.
THEOREM TypeCorrect == Spec => []TypeOK
<1>1. Spec => []TypeInv
  BY TypeInit, TypeStep, PTL DEF Spec
<1> QED BY <1>1, PTL DEF TypeInv

-----------------------------------------------------------------------------
(* No save is ahead of the map.                                            *)

\* A file left in path.tmp by an earlier process may be ahead of the map, so
\* the invariant speaks of path.tmp only while a worker is about to write or
\* to rename it: that worker has truncated it in this life of the process.
SavesBelow ==
  \A w \in Workers :
    /\ pc[w] \in {"open", "write", "rename"} => Below(snap[w], mem)
    /\ pc[w] \in {"write", "rename"} => Below(Load(tmp), mem)
    /\ fd[w] = "path" => known

DiskInv == TypeInv /\ SavesBelow /\ NothingUnknownOnDisk

LEMMA DiskInit == Init => SavesBelow /\ NothingUnknownOnDisk
BY BelowLeast, FilesAssumption DEF Init, SavesBelow, NothingUnknownOnDisk

\* A write through the handle of w leaves both files below the map.
LEMMA WriteBelow ==
  ASSUME DiskInv, NEW w \in Workers, pc[w] = "write",
         NEW g, Below(Load(FileAt(fd[w])), mem) => Below(Load(g), mem),
         SetFile(fd[w], g), UNCHANGED <<mem, known>>
  PROVE  Below(Load(tmp'), mem) /\ (known => Below(Load(path'), mem))
<1>1. Below(Load(tmp), mem) /\ (known => Below(Load(path), mem))
  BY DEF DiskInv, SavesBelow, NothingUnknownOnDisk
<1>2. CASE fd[w] = "tmp"
  BY <1>1, <1>2 DEF SetFile, FileAt
<1>3. CASE fd[w] = "path"
  BY <1>1, <1>3 DEF SetFile, FileAt
<1>4. CASE fd[w] \notin {"tmp", "path"}
  BY <1>1, <1>4 DEF SetFile
<1> QED BY <1>2, <1>3, <1>4

LEMMA DiskStep ==
  DiskInv /\ [Next]_vars => SavesBelow' /\ NothingUnknownOnDisk'
<1> SUFFICES ASSUME DiskInv, [Next]_vars PROVE SavesBelow' /\ NothingUnknownOnDisk'
  OBVIOUS
<1> USE DEF DiskInv
<1>0. TypeOK
  BY DEF TypeInv
<1>1. CASE UNCHANGED vars
  BY <1>1 DEF vars, worker, history, SavesBelow, NothingUnknownOnDisk
<1>2. ASSUME NEW w \in Workers, NEW k \in Keys, Hit(w, k)
      PROVE SavesBelow' /\ NothingUnknownOnDisk'
  BY <1>2 DEF Hit, worker, SavesBelow, NothingUnknownOnDisk
<1>3. ASSUME NEW w \in Workers, NEW k \in Keys, Miss(w, k)
      PROVE SavesBelow' /\ NothingUnknownOnDisk'
  BY <1>0, <1>3 DEF Miss, Goto, history, SavesBelow, NothingUnknownOnDisk, TypeOK
<1>4. ASSUME NEW w \in Workers, FetchFails(w)
      PROVE SavesBelow' /\ NothingUnknownOnDisk'
  BY <1>0, <1>4 DEF FetchFails, Return, Goto, history, SavesBelow, NothingUnknownOnDisk, TypeOK
<1>5. ASSUME NEW w \in Workers, FetchSucceeds(w)
      PROVE SavesBelow' /\ NothingUnknownOnDisk'
  <2>1. PICK d \in Fetched : mem' = [mem EXCEPT ![key[w]] = d]
    BY <1>5 DEF FetchSucceeds
  <2>2. mem \in Snapshots /\ key[w] \in Keys
    BY <1>0, <1>5 DEF FetchSucceeds, TypeOK
  <2>3. Below(mem, mem')
    BY <2>1, <2>2, FillRaises
  <2>4. \A m : Below(m, mem) => Below(m, mem')
    BY <2>3, BelowTransitive
  <2> QED BY <2>4, <1>0, <1>5 DEF FetchSucceeds, Goto, history, SavesBelow,
                                  NothingUnknownOnDisk, TypeOK
<1>6. ASSUME NEW w \in Workers, TakeSnapshot(w)
      PROVE SavesBelow' /\ NothingUnknownOnDisk'
  <2>1. Below(mem, mem)
    BY BelowLeast
  <2> QED BY <2>1, <1>0, <1>6 DEF TakeSnapshot, Goto, history, SavesBelow,
                                  NothingUnknownOnDisk, TypeOK
<1>7. ASSUME NEW w \in Workers, OpenTmp(w)
      PROVE SavesBelow' /\ NothingUnknownOnDisk'
  <2>1. Below(Load(EmptyFile), mem)
    BY BrokenLoads, BelowLeast DEF EmptyFile
  <2> QED BY <2>1, <1>0, <1>7 DEF OpenTmp, Goto, history, SavesBelow,
                                  NothingUnknownOnDisk, TypeOK
<1>8. ASSUME NEW w \in Workers, WriteTmp(w)
      PROVE SavesBelow' /\ NothingUnknownOnDisk'
  <2> DEFINE g == Overwrite(FileAt(fd[w]), snap[w])
  <2>1. snap[w] \in Snapshots /\ Below(snap[w], mem)
    BY <1>0, <1>8 DEF WriteTmp, SavesBelow, TypeOK
  <2>2. Below(Load(g), mem)
    BY <2>1, FileAtType, OverwriteLoads, BelowLeast
  <2>3. pc[w] = "write" /\ SetFile(fd[w], g) /\ UNCHANGED <<mem, known>>
    BY <1>8 DEF WriteTmp, history
  <2>4. Below(Load(tmp'), mem) /\ (known => Below(Load(path'), mem))
    <3> HIDE DEF g
    <3> QED BY <2>2, <2>3, WriteBelow
  <2> QED BY <2>3, <2>4, <1>0, <1>8, FilesAssumption
          DEF WriteTmp, Goto, SavesBelow,
                                        NothingUnknownOnDisk, TypeOK
<1>9. ASSUME NEW w \in Workers, WriteFails(w)
      PROVE SavesBelow' /\ NothingUnknownOnDisk'
  <2>1. PICK n \in 0 .. Size(snap[w]) - 1 :
          \E f \in PartlyWritten(FileAt(fd[w]), snap[w], n) : SetFile(fd[w], f)
    BY <1>9 DEF WriteFails
  <2>2. PICK g \in PartlyWritten(FileAt(fd[w]), snap[w], n) : SetFile(fd[w], g)
    BY <2>1
  <2>3. snap[w] \in Snapshots /\ n \in Nat /\ Below(snap[w], mem)
    BY <1>0, <1>9, FilesAssumption DEF WriteFails, SavesBelow, TypeOK
  <2>4. \A k \in Keys : Level(Load(g), k)
                          \in {0, Level(snap[w], k), Level(Load(FileAt(fd[w])), k)}
    BY <2>3, FileAtType, PartlyWrittenLoads
  <2>5. Below(Load(FileAt(fd[w])), mem) => Below(Load(g), mem)
    BY <2>3, <2>4, LevelType DEF Below
  <2>6. pc[w] = "write" /\ UNCHANGED <<mem, known>>
    BY <1>9 DEF WriteFails
  <2>7. Below(Load(tmp'), mem) /\ (known => Below(Load(path'), mem))
    BY <2>2, <2>5, <2>6, WriteBelow
  <2> QED BY <2>6, <2>7, <1>0, <1>9, FilesAssumption
          DEF WriteFails, ReturnFetched, Return, Goto,
                                        SavesBelow, NothingUnknownOnDisk, TypeOK
<1>10. ASSUME NEW w \in Workers, RenameTmp(w)
       PROVE SavesBelow' /\ NothingUnknownOnDisk'
  <2>1. Below(Load(tmp), mem)
    BY <1>10 DEF RenameTmp, SavesBelow
  <2>2. Below(Load(None), mem)
    BY BelowLeast DEF Load, Decodes
  <2>3. fd' \in [Workers -> {None, "path", "unlinked"}] /\ known'
    BY <1>0, <1>10 DEF RenameTmp, Renamed, TypeOK
  <2> QED BY <2>1, <2>2, <2>3, <1>0, <1>10
          DEF RenameTmp, ReturnFetched, Return, Goto, SavesBelow,
              NothingUnknownOnDisk, TypeOK
<1>11. ASSUME NEW w \in Workers, RenameFindsNothing(w) \/ SaveRefused(w)
       PROVE SavesBelow' /\ NothingUnknownOnDisk'
  BY <1>0, <1>11 DEF RenameFindsNothing, SaveRefused, ReturnFetched, Return, Goto,
                     SavesBelow, NothingUnknownOnDisk, TypeOK
<1>12. CASE Restart
  BY <1>12, BelowLeast DEF Restart, Stop, SavesBelow, NothingUnknownOnDisk
<1>13. CASE RestartUnreadable
  BY <1>13, FilesAssumption DEF RestartUnreadable, Stop, SavesBelow, NothingUnknownOnDisk
<1> QED BY <1>1, <1>2, <1>3, <1>4, <1>5, <1>6, <1>7, <1>8, <1>9, <1>10, <1>11,
           <1>12, <1>13 DEF Next, Ask, Work

LEMMA DiskInvariant == Spec => []DiskInv
<1>1. Init => DiskInv
  BY TypeInit, DiskInit DEF DiskInv
<1>2. DiskInv /\ [Next]_vars => DiskInv'
  BY TypeStep, DiskStep DEF DiskInv
<1> QED BY <1>1, <1>2, PTL DEF Spec

\* However many requests save at once, and wherever a process is stopped, the
\* file is never ahead of the map of the process that loaded or wrote it.
THEOREM DiskNeverAhead == Spec => []NothingUnknownOnDisk
BY DiskInvariant, PTL DEF DiskInv

-----------------------------------------------------------------------------
(* What was answered as current stays current.                             *)

\* A worker that saves what it fetched will answer with it.
SavedIsCached ==
  \A w \in Workers :
    pc[w] \in {"snapshot", "open", "write", "rename"} => HasCurrent(mem, key[w])

AnswerInv == TypeOK /\ SavedIsCached /\ DeliveredIsCached

LEMMA AnswerInit == Init => SavedIsCached /\ DeliveredIsCached
BY DEF Init, SavedIsCached, DeliveredIsCached

LEMMA AnswerStep ==
  AnswerInv /\ [Next]_vars => SavedIsCached' /\ DeliveredIsCached'
<1> SUFFICES ASSUME AnswerInv, [Next]_vars PROVE SavedIsCached' /\ DeliveredIsCached'
  OBVIOUS
<1> USE DEF AnswerInv, SavedIsCached, DeliveredIsCached
<1>1. CASE UNCHANGED vars
  BY <1>1 DEF vars, worker, history, HasCurrent
<1>2. ASSUME NEW w \in Workers, NEW k \in Keys, Hit(w, k)
      PROVE SavedIsCached' /\ DeliveredIsCached'
  BY <1>2 DEF Hit, worker, HasCurrent
<1>3. ASSUME NEW w \in Workers, NEW k \in Keys, Miss(w, k)
      PROVE SavedIsCached' /\ DeliveredIsCached'
  BY <1>3 DEF Miss, Goto, history, HasCurrent, TypeOK
<1>4. ASSUME NEW w \in Workers, FetchSucceeds(w)
      PROVE SavedIsCached' /\ DeliveredIsCached'
  <2>1. PICK d \in Fetched : mem' = [mem EXCEPT ![key[w]] = d]
    BY <1>4 DEF FetchSucceeds
  <2>2. mem \in Snapshots /\ key[w] \in Keys
    BY <1>4 DEF FetchSucceeds, TypeOK
  <2>3. /\ HasCurrent(mem', key[w])
        /\ \A k \in Keys : HasCurrent(mem, k) => HasCurrent(mem', k)
    BY <2>1, <2>2, FillRaises
  <2>4. \A v \in Workers : pc[v] # "idle" => key[v] \in Keys
    BY DEF TypeOK
  <2>5. delivered \subseteq Keys /\ delivered' = delivered /\ key' = key
    BY <1>4 DEF FetchSucceeds, history, TypeOK
  <2>6. DeliveredIsCached'
    BY <2>3, <2>5 DEF HasCurrent
  <2>7. ASSUME NEW v \in Workers, pc'[v] \in {"snapshot", "open", "write", "rename"}
        PROVE HasCurrent(mem', key[v])
    <3>1. CASE v = w
      BY <3>1, <2>3
    <3>2. CASE v # w
      BY <3>2, <2>3, <2>4, <2>7, <1>4 DEF FetchSucceeds, Goto, TypeOK
    <3> QED BY <3>1, <3>2
  <2> QED BY <2>5, <2>6, <2>7 DEF HasCurrent
<1>5. ASSUME NEW w \in Workers, TakeSnapshot(w) \/ OpenTmp(w) \/ WriteTmp(w)
      PROVE SavedIsCached' /\ DeliveredIsCached'
  BY <1>5 DEF TakeSnapshot, OpenTmp, WriteTmp, Goto, history, HasCurrent, TypeOK
<1>6. ASSUME NEW w \in Workers,
             \/ WriteFails(w) \/ RenameTmp(w) \/ RenameFindsNothing(w) \/ SaveRefused(w)
      PROVE SavedIsCached' /\ DeliveredIsCached'
  <2>1. pc[w] \in {"open", "write", "rename"} /\ ReturnFetched(w) /\ mem' = mem
    BY <1>6 DEF WriteFails, RenameTmp, RenameFindsNothing, SaveRefused
  <2>2. HasCurrent(mem, key[w])
    BY <2>1
  <2> QED BY <2>1, <2>2 DEF ReturnFetched, Return, Goto, HasCurrent, TypeOK
<1>7. ASSUME NEW w \in Workers, FetchFails(w)
      PROVE SavedIsCached' /\ DeliveredIsCached'
  BY <1>7 DEF FetchFails, Return, Goto, history, HasCurrent, TypeOK
<1>8. CASE Restart \/ RestartUnreadable
  BY <1>8 DEF Restart, RestartUnreadable, Stop
<1> QED BY <1>1, <1>2, <1>3, <1>4, <1>5, <1>6, <1>7, <1>8 DEF Next, Ask, Work

\* A key answered with a current entry stays current as long as the process
\* lives: it asks the wiki for it no more, whatever other requests do.
THEOREM AnswersStayCached == Spec => []DeliveredIsCached
<1>1. Init => AnswerInv
  BY TypeInit, AnswerInit DEF AnswerInv, TypeInv
<1>2. AnswerInv /\ TypeOK' /\ [Next]_vars => AnswerInv'
  BY AnswerStep DEF AnswerInv
<1>3. Spec => []TypeOK
  BY TypeCorrect
<1> QED BY <1>1, <1>2, <1>3, PTL DEF Spec, AnswerInv

-----------------------------------------------------------------------------
(* The cache is a ReadThroughStore.                                        *)

LEMMA StoreInit == Init => Store!Init
<1> SUFFICES ASSUME Init PROVE Store!Init
  OBVIOUS
<1>1. Levels(Load(path)) \in [Keys -> 0 .. 2]
  BY LevelType DEF Levels
<1> QED BY <1>1 DEF Init, Store!Init

\* A step that leaves the map alone and the file below it is a save, or nothing.
LEMMA BelowIsSave ==
  ASSUME mem' = mem, Below(Load(path'), mem)
  PROVE  Store!Save
<1>1. Levels(Load(path')) \in [Keys -> 0 .. 2]
  BY LevelType DEF Levels
<1>2. \A k \in Keys : Levels(Load(path'))[k] <= Levels(mem)[k]
  BY DEF Levels, Below
<1>3. Levels(Load(path))' = Levels(Load(path'))
  OBVIOUS
<1>4. Levels(mem)' = Levels(mem)
  OBVIOUS
<1> QED BY <1>1, <1>2, <1>3, <1>4 DEF Store!Save

\* A write through the handle of w is a save, or leaves the copy on disk alone.
LEMMA WriteIsSave ==
  ASSUME DiskInv, NothingUnknownOnDisk', NEW w \in Workers, NEW g,
         SetFile(fd[w], g), UNCHANGED <<mem, known>>
  PROVE  Store!Save \/ UNCHANGED <<Levels(mem), Levels(Load(path))>>
<1>1. CASE fd[w] = "path"
  <2>1. Below(Load(path'), mem)
    BY <1>1 DEF DiskInv, SavesBelow, NothingUnknownOnDisk
  <2> QED BY <2>1, BelowIsSave
<1>2. CASE fd[w] # "path"
  BY <1>2 DEF SetFile
<1> QED BY <1>1, <1>2

LEMMA StoreStep ==
  DiskInv /\ DiskInv' /\ [Next]_vars
    => [Store!Next]_<<Levels(mem), Levels(Load(path))>>
<1> SUFFICES ASSUME DiskInv, DiskInv', [Next]_vars
             PROVE  Store!Next \/ UNCHANGED <<Levels(mem), Levels(Load(path))>>
  OBVIOUS
<1>0. TypeOK /\ NothingUnknownOnDisk'
  BY DEF DiskInv, TypeInv
<1>1. CASE UNCHANGED <<mem, path>>
  BY <1>1
<1>2. ASSUME NEW w \in Workers, FetchSucceeds(w) PROVE Store!Next
  <2>1. PICK d \in Fetched : mem' = [mem EXCEPT ![key[w]] = d]
    BY <1>2 DEF FetchSucceeds
  <2>2. mem \in Snapshots /\ key[w] \in Keys /\ path' = path
    BY <1>0, <1>2 DEF FetchSucceeds, TypeOK
  <2>3. Levels(mem') = [Levels(mem) EXCEPT ![key[w]] = 2]
    BY <2>1, <2>2, FillRaises
  <2>4. Store!Fill(key[w])
    BY <2>2, <2>3 DEF Store!Fill
  <2> QED BY <2>2, <2>4 DEF Store!Next
<1>3. ASSUME NEW w \in Workers, WriteTmp(w)
      PROVE  Store!Next \/ UNCHANGED <<Levels(mem), Levels(Load(path))>>
  <2>1. SetFile(fd[w], Overwrite(FileAt(fd[w]), snap[w])) /\ UNCHANGED <<mem, known>>
    BY <1>3 DEF WriteTmp, history
  <2> QED BY <1>0, <2>1, WriteIsSave DEF Store!Next
<1>4. ASSUME NEW w \in Workers, WriteFails(w)
      PROVE  Store!Next \/ UNCHANGED <<Levels(mem), Levels(Load(path))>>
  <2>1. (\E g : SetFile(fd[w], g)) /\ UNCHANGED <<mem, known>>
    BY <1>4 DEF WriteFails
  <2> QED BY <1>0, <2>1, WriteIsSave DEF Store!Next
<1>5. ASSUME NEW w \in Workers, RenameTmp(w) PROVE Store!Next
  <2>1. mem' = mem /\ Below(Load(path'), mem)
    BY <1>0, <1>5 DEF RenameTmp, NothingUnknownOnDisk
  <2> QED BY <2>1, BelowIsSave DEF Store!Next
<1>6. CASE Restart
  BY <1>6 DEF Restart, Store!Next, Store!Restart
<1>7. CASE RestartUnreadable
  <2>1. Levels(EmptyMap) = Store!Absent
    BY DEF Levels, Level, EmptyMap, Store!Absent
  <2> QED BY <1>7, <2>1 DEF RestartUnreadable, Store!Next, Store!Restart
<1> QED
  BY <1>1, <1>2, <1>3, <1>4, <1>5, <1>6, <1>7
  DEF Next, Ask, Work, vars, Hit, Miss, FetchFails, TakeSnapshot, OpenTmp,
      RenameFindsNothing, SaveRefused

\* The concurrent cache implements the store that only improves until it is
\* restarted, and is restarted with what it once had or with nothing.
THEOREM CacheImplementsStore == Spec => StoreSpec
<1>1. Spec => []DiskInv
  BY DiskInvariant
<1> QED BY <1>1, StoreInit, StoreStep, PTL DEF Spec, StoreSpec, Store!Spec

-----------------------------------------------------------------------------
(* One save at a time.                                                     *)

\* Requests come one at a time, which the code does not ensure: with two at once
\* the properties below fail, as the runs with two workers show.
OneAtATime == \A v, w \in Workers : v = w

\* What the only worker writes is the whole map: it has not changed since it
\* was copied, and path.tmp is nobody else's.
SavesWhole ==
  \A w \in Workers :
    /\ pc[w] \in {"open", "write"} => snap[w] = mem
    /\ pc[w] = "write" => fd[w] = "tmp" /\ tmp = EmptyFile
    /\ pc[w] # "write" => fd[w] = None
    /\ pc[w] = "rename" => tmp = FileOf(mem)

\* PersistedSurvives is not inductive: a rename replaces the file by the map, so
\* the map must have kept what was acknowledged too.
AckedIsCached == \A k \in acked : HasCurrent(mem, k)

AloneInv == AnswerInv /\ SavesWhole /\ AckedIsCached /\ PersistedSurvives /\ PublishedFileDecodes

\* The text of a map is a whole file, as is a file cut to nothing and written once.
LEMMA WholeFile ==
  ASSUME NEW s \in Snapshots
  PROVE  Decodes(FileOf(s)) /\ Overwrite(EmptyFile, s) = FileOf(s)
<1>1. s # Undecodable /\ Size(s) \in Nat /\ FileOf(s) # None
  BY FilesAssumption, FileOfLoads
<1> QED BY <1>1 DEF Decodes, FileOf, Overwrite, EmptyFile

LEMMA AloneInit == Init => SavesWhole /\ AckedIsCached /\ PersistedSurvives /\ PublishedFileDecodes
<1> SUFFICES ASSUME Init PROVE SavesWhole /\ AckedIsCached /\ PersistedSurvives /\ PublishedFileDecodes
  OBVIOUS
<1>1. PublishedFileDecodes
  BY WholeFile DEF Init, PublishedFileDecodes
<1> QED BY <1>1 DEF Init, SavesWhole, AckedIsCached, PersistedSurvives

LEMMA AloneStep ==
  ASSUME OneAtATime, AloneInv, [Next]_vars
  PROVE  SavesWhole' /\ AckedIsCached' /\ PersistedSurvives' /\ PublishedFileDecodes'
<1> DEFINE Kept == AckedIsCached' /\ PersistedSurvives' /\ PublishedFileDecodes'
<1> USE DEF AloneInv
<1>0. TypeOK /\ SavedIsCached /\ acked \subseteq Keys
  BY DEF AnswerInv, TypeOK
<1>1. CASE UNCHANGED vars
  BY <1>1 DEF vars, worker, history, SavesWhole, AckedIsCached, PersistedSurvives,
              PublishedFileDecodes, HasCurrent
<1>2. ASSUME NEW w \in Workers,
             \/ \E k \in Keys : Hit(w, k) \/ Miss(w, k)
             \/ FetchFails(w) \/ TakeSnapshot(w) \/ OpenTmp(w)
             \/ RenameFindsNothing(w) \/ SaveRefused(w)
      PROVE  SavesWhole' /\ Kept
  <2>1. UNCHANGED <<mem, path, acked>>
    BY <1>2 DEF Hit, Miss, FetchFails, TakeSnapshot, OpenTmp, RenameFindsNothing,
                SaveRefused, history
  <2>2. Kept
    BY <2>1 DEF AckedIsCached, PersistedSurvives, PublishedFileDecodes, HasCurrent
  <2>3. SavesWhole'
    <3>1. CASE \E k \in Keys : Hit(w, k) \/ Miss(w, k)
      BY <3>1, <1>0 DEF Hit, Miss, Goto, worker, TypeOK, SavesWhole
    <3>2. CASE FetchFails(w) \/ RenameFindsNothing(w) \/ SaveRefused(w)
      BY <3>2, <1>0 DEF FetchFails, RenameFindsNothing, SaveRefused, ReturnFetched,
                        Return, Goto, TypeOK, SavesWhole
    <3>3. CASE TakeSnapshot(w)
      BY <3>3, <1>0 DEF TakeSnapshot, Goto, TypeOK, SavesWhole
    <3>4. CASE OpenTmp(w)
      BY <3>4, <1>0 DEF OneAtATime, OpenTmp, Goto, TypeOK, SavesWhole
    <3> QED BY <3>1, <3>2, <3>3, <3>4, <1>2
  <2> QED BY <2>2, <2>3
<1>3. ASSUME NEW w \in Workers, FetchSucceeds(w) PROVE SavesWhole' /\ Kept
  <2>1. PICK d \in Fetched : mem' = [mem EXCEPT ![key[w]] = d]
    BY <1>3 DEF FetchSucceeds
  <2>2. mem \in Snapshots /\ key[w] \in Keys
    BY <1>0, <1>3 DEF FetchSucceeds, TypeOK
  <2>3. \A k \in Keys : HasCurrent(mem, k) => HasCurrent(mem', k)
    BY <2>1, <2>2, FillRaises
  <2>4. UNCHANGED <<path, acked>>
    BY <1>3 DEF FetchSucceeds, history
  <2>5. Kept
    BY <1>0, <2>3, <2>4 DEF AckedIsCached, PersistedSurvives, PublishedFileDecodes, HasCurrent
  <2>6. SavesWhole'
    BY <1>0, <1>3 DEF OneAtATime, FetchSucceeds, Goto, TypeOK, SavesWhole
  <2> QED BY <2>5, <2>6
<1>4. ASSUME NEW w \in Workers, WriteTmp(w) PROVE SavesWhole' /\ Kept
  <2>1. fd[w] = "tmp" /\ tmp = EmptyFile /\ snap[w] = mem /\ mem \in Snapshots
    BY <1>0, <1>4 DEF WriteTmp, SavesWhole, TypeOK
  <2>2. tmp' = FileOf(mem) /\ path' = path
    BY <1>4, <2>1, WholeFile DEF WriteTmp, SetFile, FileAt
  <2>3. UNCHANGED <<mem, acked>>
    BY <1>4 DEF WriteTmp, history
  <2>4. Kept
    BY <2>2, <2>3 DEF AckedIsCached, PersistedSurvives, PublishedFileDecodes, HasCurrent
  <2>5. SavesWhole'
    BY <1>0, <1>4, <2>2, <2>3 DEF OneAtATime, WriteTmp, Goto, TypeOK, SavesWhole
  <2> QED BY <2>4, <2>5
<1>5. ASSUME NEW w \in Workers, WriteFails(w) PROVE SavesWhole' /\ Kept
  <2>1. path' = path
    BY <1>5 DEF WriteFails, SetFile, SavesWhole
  <2>2. UNCHANGED <<mem, acked>>
    BY <1>5 DEF WriteFails
  <2>3. Kept
    BY <2>1, <2>2 DEF AckedIsCached, PersistedSurvives, PublishedFileDecodes, HasCurrent
  <2>4. SavesWhole'
    BY <1>0, <1>5 DEF OneAtATime, WriteFails, ReturnFetched, Return, Goto, TypeOK, SavesWhole
  <2> QED BY <2>3, <2>4
<1>6. ASSUME NEW w \in Workers, RenameTmp(w) PROVE SavesWhole' /\ Kept
  <2>1. tmp = FileOf(mem) /\ mem \in Snapshots
    BY <1>0, <1>6 DEF RenameTmp, SavesWhole, TypeOK
  <2>2. path' = FileOf(mem) /\ mem' = mem
    BY <1>6, <2>1 DEF RenameTmp
  <2>3. Load(path') = mem /\ Decodes(path')
    BY <2>1, <2>2, FileOfLoads, WholeFile
  <2>4. \A k \in acked' : HasCurrent(mem, k)
    BY <1>0, <1>6 DEF RenameTmp, SavedIsCached, AckedIsCached
  <2>5. Kept
    BY <2>2, <2>3, <2>4 DEF AckedIsCached, PersistedSurvives, PublishedFileDecodes, HasCurrent
  <2>6. SavesWhole'
    BY <1>0, <1>6, FilesAssumption
       DEF OneAtATime, RenameTmp, Renamed, ReturnFetched, Return, Goto, TypeOK, SavesWhole
  <2> QED BY <2>5, <2>6
<1>7. CASE Restart \/ RestartUnreadable
  <2>1. SavesWhole'
    BY <1>7 DEF Restart, RestartUnreadable, Stop, SavesWhole
  <2>2. Kept
    BY <1>7 DEF Restart, RestartUnreadable, AckedIsCached, PersistedSurvives,
                PublishedFileDecodes, HasCurrent
  <2> QED BY <2>1, <2>2
<1> QED BY <1>1, <1>2, <1>3, <1>4, <1>5, <1>6, <1>7 DEF Next, Ask, Work

LEMMA AloneInvariant ==
  ASSUME OneAtATime
  PROVE  Spec => []AloneInv
<1>1. Init => AloneInv
  BY TypeInit, AnswerInit, AloneInit DEF AloneInv, AnswerInv, TypeInv
<1>2. AloneInv /\ TypeOK' /\ [Next]_vars => AloneInv'
  BY AnswerStep, AloneStep DEF AloneInv, AnswerInv
<1>3. Spec => []TypeOK
  BY TypeCorrect
<1> QED BY <1>1, <1>2, <1>3, PTL DEF Spec

\* When requests come one at a time, an entry whose save was reported done is in
\* the file from then on, wherever the process is stopped.
THEOREM SavedOnceSurvives ==
  ASSUME OneAtATime
  PROVE  Spec => []PersistedSurvives
BY AloneInvariant, PTL DEF AloneInv

\* When requests come one at a time, no process finds half a file.
THEOREM PublishedWhole ==
  ASSUME OneAtATime
  PROVE  Spec => []PublishedFileDecodes
BY AloneInvariant, PTL DEF AloneInv

LEMMA DurableInit == Init => Durable!Init
<1> SUFFICES ASSUME Init PROVE Durable!Init
  OBVIOUS
<1>1. Levels(Load(path)) \in [Keys -> 0 .. 2]
  BY LevelType DEF Levels
<1> QED BY <1>1 DEF Init, Durable!Init

LEMMA DurableStep ==
  ASSUME OneAtATime, AloneInv, [Next]_vars
  PROVE  [Durable!Next]_<<Levels(mem), Levels(Load(path))>>
<1> SUFFICES Durable!Next \/ UNCHANGED <<Levels(mem), Levels(Load(path))>>
  OBVIOUS
<1>0. TypeOK /\ SavesWhole
  BY DEF AloneInv, AnswerInv
<1>1. CASE UNCHANGED <<mem, path>>
  BY <1>1
<1>2. ASSUME NEW w \in Workers, FetchSucceeds(w) PROVE Durable!Next
  <2>1. PICK d \in Fetched : mem' = [mem EXCEPT ![key[w]] = d]
    BY <1>2 DEF FetchSucceeds
  <2>2. mem \in Snapshots /\ key[w] \in Keys /\ path' = path
    BY <1>0, <1>2 DEF FetchSucceeds, TypeOK
  <2>3. Levels(mem') = [Levels(mem) EXCEPT ![key[w]] = 2]
    BY <2>1, <2>2, FillRaises
  <2>4. Durable!Fill(key[w])
    BY <2>2, <2>3 DEF Durable!Fill
  <2> QED BY <2>2, <2>4 DEF Durable!Next
<1>3. ASSUME NEW w \in Workers, WriteTmp(w) \/ WriteFails(w) PROVE UNCHANGED <<mem, path>>
  BY <1>0, <1>3 DEF WriteTmp, WriteFails, SetFile, SavesWhole
<1>4. ASSUME NEW w \in Workers, RenameTmp(w) PROVE Durable!Next
  <2>1. path' = FileOf(mem) /\ mem \in Snapshots /\ mem' = mem
    BY <1>0, <1>4 DEF RenameTmp, SavesWhole, TypeOK
  <2>2. Load(path') = mem
    BY <2>1, FileOfLoads
  <2> QED BY <2>1, <2>2 DEF Durable!Next, Durable!Save
<1>5. CASE Restart
  BY <1>5 DEF Restart, Durable!Next, Durable!Restart
<1>6. CASE RestartUnreadable
  <2>1. Levels(EmptyMap) = Durable!Absent
    BY DEF Levels, Level, EmptyMap, Durable!Absent
  <2> QED BY <1>6, <2>1 DEF RestartUnreadable, Durable!Next, Durable!Restart
<1> QED
  BY <1>1, <1>2, <1>3, <1>4, <1>5, <1>6
  DEF Next, Ask, Work, vars, Hit, Miss, FetchFails, TakeSnapshot, OpenTmp,
      RenameFindsNothing, SaveRefused

\* With requests one at a time the cache implements the store whose every save
\* puts all that the process holds on disk in one step, or does nothing.
THEOREM CacheImplementsDurableStore ==
  ASSUME OneAtATime
  PROVE  Spec => DurableSpec
<1>1. Spec => []AloneInv
  BY AloneInvariant
<1>2. AloneInv /\ [Next]_vars => [Durable!Next]_<<Levels(mem), Levels(Load(path))>>
  BY DurableStep
<1> QED BY <1>1, <1>2, DurableInit, PTL DEF Spec, DurableSpec, Durable!Spec
=============================================================================
