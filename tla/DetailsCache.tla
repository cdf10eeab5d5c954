---------------------------- MODULE DetailsCache ----------------------------
(***************************************************************************)
(* The read-through cache of wiki data: cmd/web/machine_cache.go, and      *)
(* cmd/web/wiki_cache.go, which is the same program with another record    *)
(* type and another test for "this entry needs no refresh".                *)
(*                                                                         *)
(* A worker is the goroutine of one HTTP request inside GetOrFetch.  The   *)
(* steps of a worker are the places where other goroutines can get in      *)
(* between: every critical section of the RWMutex is one step (nothing     *)
(* blocks inside one), and so is every system call on the two files.       *)
(*                                                                         *)
(* The map is held in memory and saved as a whole: a snapshot is written   *)
(* to path.tmp and renamed over path.  Nothing serialises two saves.       *)
(***************************************************************************)
EXTENDS Integers

CONSTANTS
    Workers,      \* request goroutines
    Keys,         \* normalised, non-empty item or machine names
    Details,      \* every value an entry can have, older releases' included
    Fetched,      \* the values a successful wiki fetch builds
    None,         \* no entry, no key, no file, no handle
    Undecodable,  \* content json.Unmarshal rejects
    IsCurrent(_), \* the entry needs no refresh
    Size(_)       \* length of the JSON text of a map

Snapshots == [Keys -> Details \union {None}]

\* A file has a length apart from its content: writing over a longer one is not
\* the same as replacing it.
Contents == Snapshots \union {Undecodable}

ASSUME EntriesAssumption ==
    /\ None \notin Details
    /\ None \notin Keys
    /\ Fetched \subseteq Details
    /\ \A d \in Details : IsCurrent(d) \in BOOLEAN
    /\ \A d \in Fetched : IsCurrent(d)

ASSUME FilesAssumption ==
    /\ Undecodable \notin Snapshots
    /\ None \notin [data : Contents, len : Nat]
    /\ None \notin {"tmp", "path", "unlinked"}
    /\ \A s \in Snapshots : Size(s) \in Nat \ {0}

VARIABLES
    mem,        \* c.entries
    path,       \* the file c.path
    tmp,        \* the file c.path + ".tmp"
    pc,         \* pc[w]: where worker w is in GetOrFetch
    key,        \* key[w]: what it was asked for
    snap,       \* snap[w]: the copy persist took of the map
    fd,         \* fd[w]: which file the handle of WriteFile refers to by now
    \* History variables, of no effect on the others:
    delivered,  \* keys answered with a current entry since the start
    acked,      \* keys whose Set returned nil, and nothing unread since
    known       \* this process read path when it started, or has replaced it

worker  == <<pc, key, snap, fd>>
history == <<delivered, acked, known>>
vars    == <<mem, path, tmp, worker, history>>

-----------------------------------------------------------------------------
EmptyMap == [k \in Keys |-> None]

Files == {None} \union [data : Contents, len : Nat]

EmptyFile == [data |-> Undecodable, len |-> 0]

FileOf(s) == [data |-> s, len |-> Size(s)]

Decodes(f) == f # None /\ f.data # Undecodable

HasCurrent(m, k) == m[k] # None /\ IsCurrent(m[k])

\* What load() puts in the map.  No file is no error; a file that does not
\* decode is reported to the caller, who logs it and goes on with the empty map.
Load(f) == IF Decodes(f) THEN f.data ELSE EmptyMap

\* write(2) of the whole text of s at offset 0 of a file that holds f.  A longer
\* text of another writer keeps its tail, and JSON followed by that tail does
\* not decode.
Overwrite(f, s) ==
    IF f.len <= Size(s) THEN FileOf(s) ELSE [data |-> Undecodable, len |-> f.len]

\* The texts that start as s and go on as f, where both have the same layout.
Patched(f, s) ==
    IF f.data = Undecodable THEN {}
    ELSE {m \in Snapshots : /\ \A k \in Keys : m[k] \in {s[k], f.data[k]}
                            /\ Size(m) = f.len}

\* What can be left when only n bytes of s were written over f.
PartlyWritten(f, s, n) ==
    IF n = 0 THEN {f}
    ELSE IF n < f.len THEN [data : {Undecodable} \union Patched(f, s), len : {f.len}]
    ELSE {[data |-> Undecodable, len |-> n]}

TypeOK ==
    /\ mem \in Snapshots
    /\ path \in Files
    /\ tmp \in Files
    /\ pc \in [Workers -> {"idle", "fetch", "snapshot", "open", "write", "rename"}]
    /\ key \in [Workers -> Keys \union {None}]
    /\ \A w \in Workers : pc[w] # "idle" => key[w] \in Keys
    /\ snap \in [Workers -> Snapshots]
    /\ fd \in [Workers -> {None, "tmp", "path", "unlinked"}]
    /\ delivered \subseteq Keys
    /\ acked \subseteq Keys
    /\ known \in BOOLEAN

\* A process starts with a file some earlier release left, or with none.
Init ==
    /\ path \in {None} \union {FileOf(s) : s \in Snapshots}
    /\ mem = Load(path)
    /\ tmp = None
    /\ pc = [w \in Workers |-> "idle"]
    /\ key = [w \in Workers |-> None]
    /\ snap = [w \in Workers |-> EmptyMap]
    /\ fd = [w \in Workers |-> None]
    /\ delivered = {}
    /\ acked = {}
    /\ known = TRUE

-----------------------------------------------------------------------------
Goto(w, l) == pc' = [pc EXCEPT ![w] = l]

\* The handler gets its answer and the worker's locals are gone.
Return(w) ==
    /\ Goto(w, "idle")
    /\ key' = [key EXCEPT ![w] = None]
    /\ snap' = [snap EXCEPT ![w] = EmptyMap]

\* A save ends, well or badly: GetOrFetch drops Set's error and answers with
\* what was fetched.
ReturnFetched(w) ==
    /\ Return(w)
    /\ delivered' = delivered \union {key[w]}

\* GetOrFetch, and the Get it begins with, on an entry that is good enough.
Hit(w, k) ==
    /\ pc[w] = "idle"
    /\ HasCurrent(mem, k)
    /\ delivered' = delivered \union {k}
    /\ UNCHANGED <<mem, path, tmp, worker, acked, known>>

\* No entry, or one of an older format: the wiki is asked, without a lock.
Miss(w, k) ==
    /\ pc[w] = "idle"
    /\ ~HasCurrent(mem, k)
    /\ Goto(w, "fetch")
    /\ key' = [key EXCEPT ![w] = k]
    /\ UNCHANGED <<mem, path, tmp, snap, fd, history>>

\* MUTANT: the fetch error is not looked at, and an entry without a name is saved.
FetchFailsUnchecked(w) ==
    /\ pc[w] = "fetch"
    /\ Goto(w, "snapshot")
    /\ key' = [key EXCEPT ![w] = None]
    /\ UNCHANGED <<mem, path, tmp, snap, fd, history>>

\* MUTANT: a refresh that fails drops the entry it was to replace.
FetchFailsForgets(w) ==
    /\ pc[w] = "fetch"
    /\ mem' = [mem EXCEPT ![key[w]] = None]
    /\ Return(w)
    /\ UNCHANGED <<path, tmp, fd, history>>

\* The caller gets the old entry if Get found one, an error otherwise.
FetchFails(w) ==
    /\ pc[w] = "fetch"
    /\ Return(w)
    /\ UNCHANGED <<mem, path, tmp, fd, history>>

\* MUTANT: Set makes a new map for its entry.
FetchSucceedsAlone(w) ==
    /\ pc[w] = "fetch"
    /\ \E d \in Fetched : mem' = [EmptyMap EXCEPT ![key[w]] = d]
    /\ Goto(w, "snapshot")
    /\ UNCHANGED <<path, tmp, key, snap, fd, history>>

\* MUTANT: the fetch forgets to stamp the entry with the version.
FetchSucceedsUnstamped(w) ==
    /\ pc[w] = "fetch"
    /\ \E d \in Details : mem' = [mem EXCEPT ![key[w]] = d]
    /\ Goto(w, "snapshot")
    /\ UNCHANGED <<path, tmp, key, snap, fd, history>>

\* fetch returns and Set stores what it returned, under the write lock.
FetchSucceeds(w) ==
    /\ pc[w] = "fetch"
    /\ \E d \in Fetched : mem' = [mem EXCEPT ![key[w]] = d]
    /\ Goto(w, "snapshot")
    /\ UNCHANGED <<path, tmp, key, snap, fd, history>>

\* MUTANT: persist is given the new entry only.
TakeSnapshotOfOne(w) ==
    /\ pc[w] = "snapshot"
    /\ snap' = [snap EXCEPT ![w] = [EmptyMap EXCEPT ![key[w]] = mem[key[w]]]]
    /\ Goto(w, "open")
    /\ UNCHANGED <<mem, path, tmp, key, fd, history>>

\* persist copies the map, under the read lock.
TakeSnapshot(w) ==
    /\ pc[w] = "snapshot"
    /\ snap' = [snap EXCEPT ![w] = mem]
    /\ Goto(w, "open")
    /\ UNCHANGED <<mem, path, tmp, key, fd, history>>

\* MUTANT: the file is written in place.
OpenPath(w) ==
    /\ pc[w] = "open"
    /\ path' = EmptyFile
    /\ fd' = [fd EXCEPT ![w] = "path"]
    /\ Goto(w, "write")
    /\ UNCHANGED <<mem, tmp, key, snap, history>>

\* WriteFile opens path.tmp with O_CREATE and O_TRUNC: a file that another
\* worker is about to write, or has just written, is cut to nothing.
OpenTmp(w) ==
    /\ pc[w] = "open"
    /\ tmp' = EmptyFile
    /\ fd' = [fd EXCEPT ![w] = "tmp"]
    /\ Goto(w, "write")
    /\ UNCHANGED <<mem, path, key, snap, history>>

\* The handle follows the file, not its name: since it was opened the file
\* may have become path, or have been replaced there.
FileAt(h) == CASE h = "tmp" -> tmp [] h = "path" -> path [] OTHER -> EmptyFile

SetFile(h, f) ==
    /\ tmp'  = IF h = "tmp"  THEN f ELSE tmp
    /\ path' = IF h = "path" THEN f ELSE path

WriteTmp(w) ==
    /\ pc[w] = "write"
    /\ SetFile(fd[w], Overwrite(FileAt(fd[w]), snap[w]))
    /\ fd' = [fd EXCEPT ![w] = None]
    /\ Goto(w, "rename")
    /\ UNCHANGED <<mem, key, snap, history>>

\* MUTANT: the error of WriteFile is dropped and the file renamed all the same.
WriteFailsUnchecked(w) ==
    /\ pc[w] = "write"
    /\ \E n \in 0 .. Size(snap[w]) - 1 :
         \E f \in PartlyWritten(FileAt(fd[w]), snap[w], n) : SetFile(fd[w], f)
    /\ fd' = [fd EXCEPT ![w] = None]
    /\ Goto(w, "rename")
    /\ UNCHANGED <<mem, key, snap, history>>

\* MUTANT: a short write is tried again, for as long as it takes.
WriteFailsRetries(w) ==
    /\ pc[w] = "write"
    /\ \E n \in 0 .. Size(snap[w]) - 1 :
         \E f \in PartlyWritten(FileAt(fd[w]), snap[w], n) : SetFile(fd[w], f)
    /\ fd' = [fd EXCEPT ![w] = None]
    /\ Goto(w, "open")
    /\ UNCHANGED <<mem, key, snap, history>>

\* The disk fills up: WriteFile returns the error of a short write.
WriteFails(w) ==
    /\ pc[w] = "write"
    /\ \E n \in 0 .. Size(snap[w]) - 1 :
         \E f \in PartlyWritten(FileAt(fd[w]), snap[w], n) : SetFile(fd[w], f)
    /\ fd' = [fd EXCEPT ![w] = None]
    /\ ReturnFetched(w)
    /\ UNCHANGED <<mem, acked, known>>

\* Handles to path.tmp now refer to path, handles to the old path to no name.
Renamed(h) == CASE h = "tmp" -> "path" [] h = "path" -> "unlinked" [] OTHER -> h

RenameTmp(w) ==
    /\ pc[w] = "rename"
    /\ tmp # None
    /\ path' = tmp
    /\ tmp' = None
    /\ fd' = [v \in Workers |-> Renamed(fd[v])]
    /\ ReturnFetched(w)
    /\ acked' = acked \union {key[w]}
    /\ known' = TRUE
    /\ UNCHANGED mem

\* Another worker has renamed path.tmp away.
RenameFindsNothing(w) ==
    /\ pc[w] = "rename"
    /\ tmp = None
    /\ ReturnFetched(w)
    /\ UNCHANGED <<mem, path, tmp, fd, acked, known>>

\* MkdirAll, the open or the rename is refused.
SaveRefused(w) ==
    /\ pc[w] \in {"open", "rename"}
    /\ ReturnFetched(w)
    /\ UNCHANGED <<mem, path, tmp, fd, acked, known>>

\* The workers of a process end with it.
Stop ==
    /\ pc' = [w \in Workers |-> "idle"]
    /\ key' = [w \in Workers |-> None]
    /\ snap' = [w \in Workers |-> EmptyMap]
    /\ fd' = [w \in Workers |-> None]
    /\ delivered' = {}

\* The process ends, at any point of any request (a kill, a fatal error, or
\* main returning while handlers still run), and the next one loads the file.
Restart ==
    /\ mem' = Load(path)
    /\ Stop
    /\ known' = TRUE
    /\ UNCHANGED <<path, tmp, acked>>

\* The same, and ReadFile fails: main goes on with the empty map, which the
\* next save writes over the file.
RestartUnreadable ==
    /\ path # None
    /\ mem' = EmptyMap
    /\ Stop
    /\ acked' = {}
    /\ known' = FALSE
    /\ UNCHANGED <<path, tmp>>

Ask(w) == \E k \in Keys : Hit(w, k) \/ Miss(w, k)

\* What a worker does once it was asked.
Work(w) ==
    \/ FetchFails(w)
    \/ FetchSucceeds(w)
    \/ TakeSnapshot(w)
    \/ OpenTmp(w)
    \/ WriteTmp(w)
    \/ WriteFails(w)
    \/ RenameTmp(w)
    \/ RenameFindsNothing(w)
    \/ SaveRefused(w)

Next ==
    \/ \E w \in Workers : Ask(w) \/ Work(w)
    \/ Restart
    \/ RestartUnreadable

Spec == Init /\ [][Next]_vars

\* A goroutine that can take a step takes one; a wiki request ends within the
\* client's eight seconds.  Nobody has to ask, and no process has to end.
FairSpec == Spec /\ \A w \in Workers : WF_vars(Work(w))

-----------------------------------------------------------------------------
Level(m, k) == IF m[k] = None THEN 0 ELSE IF IsCurrent(m[k]) THEN 2 ELSE 1

\* Every entry of m is in n, in a format at least as new.
Below(m, n) == \A k \in Keys : Level(m, k) <= Level(n, k)

\* An item or machine that was once answered with a current entry is still
\* cached as one: no later fetch, failed refresh or save of another worker takes
\* it back, so the process never asks the wiki for it again.
DeliveredIsCached == \A k \in delivered : HasCurrent(mem, k)

\* The file never holds an entry newer than the map, whatever snapshots are
\* written out of order, cut short or left in path.tmp by an earlier process:
\* the next process can lose entries but not find ones nobody fetched.
NothingUnknownOnDisk == known => Below(Load(path), mem)

\* A key whose Set returned nil is current in the file: the next process does
\* not ask for it.  It needs saves one at a time.
PersistedSurvives == \A k \in acked : HasCurrent(Load(path), k)

\* What is at path is always a whole JSON text: the rename publishes only
\* finished files.  It needs saves one at a time.
PublishedFileDecodes == path = None \/ Decodes(path)

\* When no save is under way and the file is whole, it has every key whose Set
\* returned nil.  Snapshots written out of order break it: the older one wins.
SettledFileHasAcked ==
    (Decodes(path) /\ \A w \in Workers : pc[w] = "idle") => PersistedSurvives

\* Every call of GetOrFetch returns, saved or not.
CallsReturn == \A w \in Workers : pc[w] # "idle" ~> pc[w] = "idle"

Levels(m) == [k \in Keys |-> Level(m, k)]

\* However the workers interleave, the cache is a store that only improves
\* until it is restarted, and is restarted with something it once had.
Store == INSTANCE ReadThroughStore WITH
           level <- Levels(mem), saved <- Levels(Load(path))
StoreSpec == Store!Spec

\* With one worker it is a store whose every save is all of it, at once.
Durable == INSTANCE DurableStore WITH
             level <- Levels(mem), saved <- Levels(Load(path))
DurableSpec == Durable!Spec
=============================================================================
