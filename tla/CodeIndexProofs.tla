-------------------------- MODULE CodeIndexProofs --------------------------
(***************************************************************************)
(* Proofs about CodeIndex, for any set of files and any number of changes, *)
(* starts and reindex commands: what the index, its manifest and its state *)
(* may be relied on for, while no two goroutines have worked at once.      *)
(***************************************************************************)
EXTENDS CodeIndex, SequenceTheorems, TLAPS

Scanning == pc["main"] \in {"walk", "load", "read", "embed", "prune"}

(* The hash that counts for f: the manifest is replaced when a scan ends. *)
Recorded(f) == IF Scanning THEN hashes[f] ELSE manifest[f]

(* Something will look at f again. *)
Queued(q, f) == \E i \in 1 .. Len(q) : q[i] = f
Awaited(f) ==
    \/ f \in todo
    \/ Queued(events, f)
    \/ pc["watch"] \in {"settle", "hash"} /\ at["watch"].file = f

(* A goroutine has f in hand at one of these places. *)
InHand(f, places) ==
    \/ pc["main"] \in places /\ at["main"].file = f
    \/ pc["watch"] \in places /\ at["watch"].file = f

PC == {"down", "walk", "load", "read", "embed", "prune", "save", "gap", "serve",
       "off", "failed", "wait", "settle", "hash"}

(* The types, and what a goroutine has in hand where it has something. *)
Types ==
    /\ TypeOK
    /\ pc \in [Workers -> PC]
    /\ \A g \in Workers :
          /\ pc[g] \in {"load", "read", "embed", "settle", "hash"} => at[g].file \in Files
          /\ pc[g] = "embed" => at[g].text \in Text

(* Only one goroutine works, and the state says so; nothing is known of an index
   that does not run but its manifest. *)
OneWorks ==
    /\ MainWorks => ~WatchWorks /\ state = "indexing"
    /\ WatchWorks => state = "indexing"
    /\ pc["main"] \in {"down", "gap"} => pc["watch"] = "off"
    /\ ~Up => unsaved = {} /\ \A f \in Files : sigs[f] = {}
    /\ pc["main"] \notin {"walk", "load", "read", "embed"} => todo = {}

(* What a goroutine has in hand. *)
HandOk ==
    /\ pc["main"] \in {"load", "read", "embed"} => at["main"].file \notin todo
    /\ pc["main"] = "load" => sigs[at["main"].file] = {}
    /\ \A g \in Workers : pc[g] = "embed" =>
          /\ at[g].file \in unsaved
          /\ at[g].file \notin missed => at[g].text = Recorded(at[g].file)

(* Files the walk has yet to come by. *)
TodoOk ==
    \A f \in todo :
        /\ sigs[f] = {}
        /\ f \notin missed /\ manifest[f] # None => store[f] = Chunks(manifest[f])

SavedOk ==
    \A f \in Files \ (missed \cup unsaved) :
        saved[f] # None => store[f] = Chunks(saved[f])

StoreOk ==
    \A f \in Files \ missed : ~InHand(f, {"read", "embed"}) =>
        /\ Scanning /\ f \notin todo /\ hashes[f] # None => store[f] = Chunks(hashes[f])
        /\ Up /\ ~Scanning => store[f] = Chunks(manifest[f])

DiskOk == Up => \A f \in Files \ missed : ~Awaited(f) => Recorded(f) = disk[f]

SigsOk ==
    Up => \A f \in Files \ missed :
        ~Awaited(f) /\ ~InHand(f, {"load", "read"}) => sigs[f] = {Recorded(f)} \cap Text

Orderly == OneWorks /\ HandOk /\ TodoOk /\ SavedOk /\ StoreOk /\ DiskOk /\ SigsOk

IndexInv ==
    /\ Types
    /\ ~Up => ~raced
    /\ ~raced => Orderly

-----------------------------------------------------------------------------
(* Types. *)

LEMMA TextTypes ==
    /\ None \notin Text /\ Blank \notin Text /\ Text \subseteq Content
    /\ None \in Content /\ Blank \in Content
    /\ Content \ {None, Blank} = Text
BY CodeIndexAssumption DEF None, Text, Blank, Content

LEMMA QueueAppended ==
    ASSUME NEW q \in Seq(Files), NEW f \in Files
    PROVE  \A h : Queued(Append(q, f), h) <=> Queued(q, h) \/ h = f
BY AppendProperties, LenProperties DEF Queued

LEMMA QueueTaken ==
    ASSUME NEW q \in Seq(Files), q # <<>>
    PROVE  \A h : Queued(q, h) <=> Queued(Tail(q), h) \/ h = Head(q)
<1>1. Len(q) \in Nat \ {0} /\ Head(q) = q[1]
  BY EmptySeq
<1>2. Len(Tail(q)) = Len(q) - 1 /\ \A i \in 1 .. Len(Tail(q)) : Tail(q)[i] = q[i + 1]
  BY HeadTailProperties
<1>3. ASSUME NEW h PROVE Queued(q, h) => Queued(Tail(q), h) \/ h = Head(q)
  <2> SUFFICES ASSUME NEW i \in 1 .. Len(q), q[i] = h, i # 1
               PROVE  Queued(Tail(q), h)
    BY <1>1 DEF Queued
  <2>1. i - 1 \in 1 .. Len(Tail(q)) /\ Tail(q)[i - 1] = q[(i - 1) + 1] /\ (i - 1) + 1 = i
    BY <1>1, <1>2
  <2> QED
    BY <2>1 DEF Queued
<1>4. ASSUME NEW h, Queued(Tail(q), h) PROVE Queued(q, h)
  <2>1. PICK i \in 1 .. Len(Tail(q)) : Tail(q)[i] = h
    BY <1>4 DEF Queued
  <2>2. i + 1 \in 1 .. Len(q) /\ q[i + 1] = h
    BY <2>1, <1>1, <1>2
  <2> QED
    BY <2>2 DEF Queued
<1>5. Queued(q, Head(q))
  <2>1. 1 \in 1 .. Len(q) /\ q[1] = Head(q)
    BY <1>1
  <2> QED
    BY <2>1 DEF Queued
<1> QED
  BY <1>3, <1>4, <1>5

LEMMA TypesInitially == Init => Types
<1> SUFFICES ASSUME Init PROVE Types
  OBVIOUS
<1>1. [f \in Files |-> None] \in [Files -> Content] /\ None \in Text \cup {None}
  BY TextTypes
<1>2. disk \in [Files -> Content] /\ edits \in 1 .. MaxEdits
  BY CodeIndexAssumption DEF Init, Content, Text, None
<1>3. events \in Seq(Files)
  BY DEF Init
<1>4. /\ pc \in [Workers -> PC] /\ pc["main"] = "down" /\ pc["watch"] = "off"
      /\ at \in [Workers -> [file : Files \cup {None}, text : Text \cup {None}]]
  BY DEF Init, Workers, PC
<1>5. /\ store \in [Files -> Text \cup {None}] /\ sigs \in [Files -> SUBSET Text]
      /\ manifest \in [Files -> Content] /\ saved \in [Files -> Content]
      /\ hashes \in [Files -> Content]
  BY <1>1 DEF Init
<1>6. /\ todo \subseteq Files /\ missed \subseteq Files /\ unsaved \subseteq Files
      /\ starts \in 0 .. MaxStarts /\ reindexes \in 0 .. MaxReindex
      /\ state \in {"starting", "indexing", "idle"}
  BY CodeIndexAssumption DEF Init
<1>7. watching \in BOOLEAN /\ raced \in BOOLEAN
  BY DEF Init
<1> QED
  BY <1>2, <1>3, <1>4, <1>5, <1>6, <1>7 DEF Types, TypeOK, Workers

LEMMA EditKeepsTypes ==
    ASSUME Types, NEW f \in Files, NEW t \in Content, Edit(f, t)
    PROVE  Types'
<1>1. disk' \in [Files -> Content] /\ edits' \in 1 .. MaxEdits
  BY CodeIndexAssumption DEF Edit, Types, TypeOK
<1>2. events' \in Seq(Files)
  <2>1. events \in Seq(Files) /\ events' \in {events, Append(events, f)}
    BY DEF Edit, Types, TypeOK
  <2> QED
    BY <2>1, AppendProperties
<1>3. missed' \subseteq Files
  BY DEF Edit, Types, TypeOK
<1> QED
  BY <1>1, <1>2, <1>3 DEF Edit, Types, TypeOK, mvars, counts

LEMMA IndexReadKeepsTypes ==
    ASSUME Types, NEW g \in Workers, IndexRead(g)
    PROVE  Types'
<1> DEFINE f == at[g].file
           t == disk[f]
<1>1. /\ pc[g] = "read" /\ f \in Files
      /\ UNCHANGED <<disk, edits, manifest, saved, state, todo, hashes, events,
                     watching, starts, reindexes, raced>>
  BY DEF IndexRead, fvars, mvars, wvars, counts, Types
<1>2. CASE /\ AfterFile(g) /\ UNCHANGED <<sigs, store, at, unsaved>>
           /\ missed' \in {missed, missed \cup {f}}
  <2>1. /\ pc' \in [Workers -> PC] /\ pc'["main"] \in {"walk", pc["main"]}
        /\ pc'["watch"] \in {"save", pc["watch"]}
    BY <1>2 DEF AfterFile, Types, Workers, PC
  <2> QED
    BY <1>1, <1>2, <2>1 DEF Types, TypeOK, Workers
<1>3. CASE /\ t \in Text /\ sigs' = [sigs EXCEPT ![f] = {t}]
           /\ store' = [store EXCEPT ![f] = None]
           /\ at' = [at EXCEPT ![g].text = t] /\ pc' = [pc EXCEPT ![g] = "embed"]
           /\ missed' \in {missed \ {f}, missed \cup {f}} /\ unsaved' = unsaved \cup {f}
  <2>1. /\ pc' \in [Workers -> PC] /\ pc'["main"] \in {"embed", pc["main"]}
        /\ pc'["watch"] \in {"embed", pc["watch"]}
    BY <1>3 DEF Types, Workers, PC
  <2>2. /\ sigs' \in [Files -> SUBSET Text] /\ store' \in [Files -> Text \cup {None}]
        /\ missed' \subseteq Files /\ unsaved' \subseteq Files
    BY <1>1, <1>3 DEF Types, TypeOK
  <2>3. /\ at' \in [Workers -> [file : Files \cup {None}, text : Text \cup {None}]]
        /\ at'[g].file = f /\ at'[g].text = t
        /\ \A h \in Workers : h # g => at'[h] = at[h] /\ pc'[h] = pc[h]
    BY <1>1, <1>3 DEF Types, TypeOK
  <2>4. \A h \in Workers :
          /\ pc'[h] \in {"load", "read", "embed", "settle", "hash"} => at'[h].file \in Files
          /\ pc'[h] = "embed" => at'[h].text \in Text
    BY <1>1, <1>3, <2>3 DEF Types
  <2> QED
    BY <1>1, <2>1, <2>2, <2>3, <2>4 DEF Types, TypeOK
<1> QED
  BY <1>2, <1>3 DEF IndexRead

LEMMA IndexEmbedKeepsTypes ==
    ASSUME Types, NEW g \in Workers, IndexEmbed(g)
    PROVE  Types'
<1> DEFINE f == at[g].file
<1>1. /\ pc[g] = "embed" /\ f \in Files /\ at[g].text \in Text /\ AfterFile(g)
      /\ UNCHANGED <<disk, edits, sigs, manifest, saved, state, at, todo, hashes, events,
                     watching, starts, reindexes, unsaved, raced>>
      /\ store' \in {store, [store EXCEPT ![f] = at[g].text]}
      /\ missed' \in {missed, missed \cup {f}}
  BY DEF IndexEmbed, fvars, mvars, wvars, counts, Types
<1>2. /\ pc' \in [Workers -> PC] /\ pc'["main"] \in {"walk", pc["main"]}
      /\ pc'["watch"] \in {"save", pc["watch"]}
  BY <1>1 DEF AfterFile, Types, Workers, PC
<1>3. store' \in [Files -> Text \cup {None}] /\ missed' \subseteq Files
  BY <1>1 DEF Types, TypeOK
<1> QED
  BY <1>1, <1>2, <1>3 DEF Types, TypeOK, Workers

LEMMA ForgetTypes ==
    ASSUME Types, NEW fs \in SUBSET Files, Forget(fs)
    PROVE  /\ store' \in [Files -> Text \cup {None}] /\ sigs' \in [Files -> SUBSET Text]
           /\ unsaved' \subseteq Files
BY DEF Forget, Types, TypeOK

(* Start and the scan, but for the steps of indexFile. *)
LEMMA ScanKeepsTypes ==
    ASSUME Types,
           \/ Start \/ LoadFileSignatures \/ WalkEnds \/ Prune \/ ScanEnds \/ StartWatcher
           \/ Reindex \/ \E f \in Files : Visit(f)
    PROVE  Types'
<1> USE DEF Types, TypeOK, Workers, PC, fvars, mvars, wvars, counts, hist
<1>1. CASE Start
  <2>1. [f \in Files |-> None] \in [Files -> Content]
    BY TextTypes
  <2>2. /\ manifest' \in [Files -> Content] /\ hashes' \in [Files -> Content]
        /\ starts' \in 0 .. MaxStarts
    BY <1>1, <2>1, CodeIndexAssumption DEF Start
  <2>3. /\ pc' \in [Workers -> PC] /\ pc'["main"] = "walk" /\ pc'["watch"] = pc["watch"]
    BY <1>1 DEF Start
  <2> QED
    BY <1>1, <2>2, <2>3 DEF Start
<1>2. ASSUME NEW f \in Files, Visit(f) PROVE Types'
  <2>1. hashes' \in [Files -> Content] /\ todo' \subseteq Files
    BY <1>2 DEF Visit
  <2>2. /\ at' \in [Workers -> [file : Files \cup {None}, text : Text \cup {None}]]
        /\ at'["main"].file = f /\ at'["watch"] = at["watch"]
    BY <1>2 DEF Visit
  <2>3. /\ pc' \in [Workers -> PC] /\ pc'["main"] \in {"walk", "load", "read"}
        /\ pc'["watch"] = pc["watch"]
    BY <1>2 DEF Visit
  <2> QED
    BY <1>2, <2>1, <2>2, <2>3 DEF Visit
<1>3. CASE LoadFileSignatures
  <2>1. sigs' \in [Files -> SUBSET Text]
    BY <1>3 DEF LoadFileSignatures
  <2> QED
    BY <1>3, <2>1 DEF LoadFileSignatures, AfterFile
<1>4. CASE WalkEnds
  BY <1>4 DEF WalkEnds
<1>5. CASE Prune
  <2>1. /\ store' \in [Files -> Text \cup {None}] /\ sigs' \in [Files -> SUBSET Text]
        /\ unsaved' \subseteq Files
    BY <1>5, ForgetTypes DEF Prune
  <2> QED
    BY <1>5, <2>1 DEF Prune
<1>6. CASE ScanEnds
  BY <1>6 DEF ScanEnds
<1>7. CASE StartWatcher
  <2>1. watching' \in BOOLEAN
    BY <1>7 DEF StartWatcher
  <2>2. /\ pc' \in [Workers -> PC] /\ pc'["main"] = "serve"
        /\ pc'["watch"] \in {"wait", "failed"}
    BY <1>7 DEF StartWatcher
  <2> QED
    BY <1>7, <2>1, <2>2 DEF StartWatcher
<1>8. CASE Reindex
  <2>1. [f \in Files |-> None] \in [Files -> Content]
    BY TextTypes
  <2> QED
    BY <1>8, <2>1, CodeIndexAssumption DEF Reindex
<1> HIDE DEF Types, TypeOK, Workers, PC, fvars, mvars, wvars, counts, hist
<1> QED
  BY <1>1, <1>2, <1>3, <1>4, <1>5, <1>6, <1>7, <1>8

LEMMA WatchKeepsTypes ==
    ASSUME Types, WatchTake \/ WatchMature \/ WatchHash \/ WatchSave
    PROVE  Types'
<1> USE DEF Types, TypeOK, Workers, PC, fvars, mvars, wvars, counts, hist
<1>1. CASE WatchTake
  <2>1. Head(events) \in Files /\ Tail(events) \in Seq(Files)
    BY <1>1, HeadTailProperties DEF WatchTake
  <2>2. /\ at' \in [Workers -> [file : Files \cup {None}, text : Text \cup {None}]]
        /\ at'["watch"].file = Head(events) /\ at'["main"] = at["main"]
    BY <1>1, <2>1 DEF WatchTake
  <2>3. /\ pc' \in [Workers -> PC] /\ pc'["main"] = pc["main"] /\ pc'["watch"] = "settle"
    BY <1>1 DEF WatchTake
  <2> QED
    BY <1>1, <2>1, <2>2, <2>3 DEF WatchTake
<1>2. CASE WatchMature
  BY <1>2 DEF WatchMature
<1>3. CASE WatchHash
  <2>1. manifest' \in [Files -> Content]
    BY <1>3 DEF WatchHash
  <2>2. /\ store' \in [Files -> Text \cup {None}] /\ sigs' \in [Files -> SUBSET Text]
        /\ unsaved' \subseteq Files
    BY <1>3, ForgetTypes DEF WatchHash
  <2> QED
    BY <1>3, <2>1, <2>2 DEF WatchHash
<1>4. CASE WatchSave
  BY <1>4 DEF WatchSave
<1> QED
  BY <1>1, <1>2, <1>3, <1>4

LEMMA EndKeepsTypes ==
    ASSUME Types, ProcessEnds \/ \E f \in Files : RaceLoses(f)
    PROVE  Types'
<1> USE DEF Types, TypeOK, Workers, PC, fvars, mvars, wvars, counts, hist
<1>1. CASE ProcessEnds
  <2>1. [f \in Files |-> None] \in [Files -> Content]
    BY TextTypes
  <2>2. missed' \subseteq Files
    BY <1>1 DEF ProcessEnds
  <2>3. at' \in [Workers -> [file : Files \cup {None}, text : Text \cup {None}]]
    BY <1>1 DEF ProcessEnds
  <2>4. saved' \in [Files -> Content] /\ events' \in Seq(Files)
    BY <1>1, <2>1 DEF ProcessEnds
  <2>5. /\ manifest' \in [Files -> Content] /\ hashes' \in [Files -> Content]
        /\ sigs' \in [Files -> SUBSET Text]
    BY <1>1, <2>1 DEF ProcessEnds
  <2>6. /\ pc' \in [Workers -> PC] /\ pc'["main"] = "down" /\ pc'["watch"] = "off"
        /\ state' = "starting" /\ todo' = {} /\ unsaved' = {} /\ raced' = FALSE
        /\ watching' = FALSE /\ UNCHANGED <<disk, edits, store, starts, reindexes>>
    BY <1>1 DEF ProcessEnds
  <2> QED
    BY <2>2, <2>3, <2>4, <2>5, <2>6
<1>2. ASSUME NEW f \in Files, RaceLoses(f) PROVE Types'
  BY <1>2 DEF RaceLoses
<1> QED
  BY <1>1, <1>2

LEMMA TypesStep == Types /\ [Next]_vars => Types'
<1> SUFFICES ASSUME Types, [Next]_vars PROVE Types'
  OBVIOUS
<1>1. CASE UNCHANGED vars
  BY <1>1 DEF vars, fvars, mvars, wvars, counts, hist, Types, TypeOK
<1>2. CASE Next
  BY <1>2, EditKeepsTypes, IndexReadKeepsTypes, IndexEmbedKeepsTypes, ScanKeepsTypes,
     WatchKeepsTypes, EndKeepsTypes DEF Next, MainStep, WatchStep, Workers
<1> QED
  BY <1>1, <1>2

(* Every variable keeps to its type, whatever the files, the watcher, the embedder
   and the end of the process do (indexer.go). *)
THEOREM TypeCorrect == Spec => []TypeOK
<1>1. Types => TypeOK
  BY DEF Types
<1> QED
  BY <1>1, TypesInitially, TypesStep, PTL DEF Spec

-----------------------------------------------------------------------------
(* The steps of one goroutine keep the index orderly. *)

LEMMA EditKeepsOrder ==
    ASSUME Types, Types', ~raced, Orderly, NEW f \in Files, NEW t \in Content, Edit(f, t)
    PROVE  Orderly'
<1> USE DEF Types, TypeOK, Orderly, MainWorks, WatchWorks, Up, Scanning, Recorded, Awaited,
            InHand, Workers, fvars, mvars, wvars, counts, hist
<1>1. OneWorks'
  BY DEF OneWorks, HandOk, Edit
<1>2. HandOk'
  BY DEF HandOk, OneWorks, Edit
<1>3. TodoOk'
  BY DEF TodoOk, OneWorks, HandOk, Edit
<1>4. SavedOk'
  BY DEF SavedOk, OneWorks, HandOk, Edit
<1>5. StoreOk'
  BY DEF StoreOk, OneWorks, HandOk, Edit
<1>6. DiskOk'
  <2>1. CASE events' = Append(events, f)
    <3>1. \A h : Queued(events', h) <=> Queued(events, h) \/ h = f
      BY <2>1, QueueAppended
    <3> QED
      BY <3>1 DEF DiskOk, OneWorks, HandOk, Edit
  <2>2. CASE UNCHANGED events
    BY <2>2 DEF DiskOk, OneWorks, HandOk, Edit
  <2> QED
    BY <2>1, <2>2 DEF Edit
<1>7. SigsOk'
  <2>1. CASE events' = Append(events, f)
    <3>1. \A h : Queued(events', h) <=> Queued(events, h) \/ h = f
      BY <2>1, QueueAppended
    <3> QED
      BY <3>1 DEF SigsOk, OneWorks, HandOk, Edit
  <2>2. CASE UNCHANGED events
    BY <2>2 DEF SigsOk, OneWorks, HandOk, Edit
  <2> QED
    BY <2>1, <2>2 DEF Edit
<1> HIDE DEF Orderly
<1> QED
  BY <1>1, <1>2, <1>3, <1>4, <1>5, <1>6, <1>7 DEF Orderly

LEMMA IndexReadMainKeepsOrder ==
    ASSUME Types, Types', ~raced, Orderly, IndexRead("main")
    PROVE  Orderly'
<1> USE DEF Types, TypeOK, Orderly, MainWorks, WatchWorks, Up, Scanning, Recorded, Awaited,
            InHand, Workers, fvars, mvars, wvars, counts, hist
<1>1. OneWorks'
  BY DEF OneWorks, HandOk, IndexRead, RecordedHash, AfterFile
<1>2. HandOk'
  BY DEF HandOk, OneWorks, IndexRead, RecordedHash, AfterFile
<1>3. TodoOk'
  BY DEF TodoOk, OneWorks, HandOk, IndexRead, RecordedHash, AfterFile
<1>4. SavedOk'
  BY DEF SavedOk, OneWorks, HandOk, IndexRead, RecordedHash, AfterFile
<1>5. StoreOk'
  BY TextTypes DEF StoreOk, Chunks, HandOk, OneWorks, IndexRead, RecordedHash, AfterFile
<1>6. DiskOk'
  BY DEF DiskOk, OneWorks, HandOk, IndexRead, RecordedHash, AfterFile
<1>7. SigsOk'
  BY DEF SigsOk, OneWorks, HandOk, IndexRead, RecordedHash, AfterFile
<1> HIDE DEF Orderly
<1> QED
  BY <1>1, <1>2, <1>3, <1>4, <1>5, <1>6, <1>7 DEF Orderly

LEMMA IndexReadWatchKeepsOrder ==
    ASSUME Types, Types', ~raced, Orderly, IndexRead("watch")
    PROVE  Orderly'
<1> USE DEF Types, TypeOK, Orderly, MainWorks, WatchWorks, Up, Scanning, Recorded, Awaited,
            InHand, Workers, fvars, mvars, wvars, counts, hist
<1>1. OneWorks'
  BY DEF OneWorks, HandOk, IndexRead, RecordedHash, AfterFile
<1>2. HandOk'
  BY DEF HandOk, OneWorks, IndexRead, RecordedHash, AfterFile
<1>3. TodoOk'
  BY DEF TodoOk, OneWorks, HandOk, IndexRead, RecordedHash, AfterFile
<1>4. SavedOk'
  BY DEF SavedOk, OneWorks, HandOk, IndexRead, RecordedHash, AfterFile
<1>5. StoreOk'
  BY TextTypes DEF StoreOk, Chunks, HandOk, OneWorks, IndexRead, RecordedHash, AfterFile
<1>6. DiskOk'
  BY DEF DiskOk, OneWorks, HandOk, IndexRead, RecordedHash, AfterFile
<1>7. SigsOk'
  BY DEF SigsOk, OneWorks, HandOk, IndexRead, RecordedHash, AfterFile
<1> HIDE DEF Orderly
<1> QED
  BY <1>1, <1>2, <1>3, <1>4, <1>5, <1>6, <1>7 DEF Orderly

LEMMA IndexEmbedMainKeepsOrder ==
    ASSUME Types, Types', ~raced, Orderly, IndexEmbed("main")
    PROVE  Orderly'
<1> USE DEF Types, TypeOK, Orderly, MainWorks, WatchWorks, Up, Scanning, Recorded, Awaited,
            InHand, Workers, fvars, mvars, wvars, counts, hist
<1>1. OneWorks'
  BY DEF OneWorks, HandOk, IndexEmbed, RecordedHash, AfterFile
<1>2. HandOk'
  BY DEF HandOk, OneWorks, IndexEmbed, RecordedHash, AfterFile
<1>3. TodoOk'
  BY DEF TodoOk, OneWorks, HandOk, IndexEmbed, RecordedHash, AfterFile
<1>4. SavedOk'
  BY DEF SavedOk, OneWorks, HandOk, IndexEmbed, RecordedHash, AfterFile
<1>5. StoreOk'
  BY DEF StoreOk, Chunks, HandOk, OneWorks, IndexEmbed, RecordedHash, AfterFile
<1>6. DiskOk'
  BY DEF DiskOk, OneWorks, HandOk, IndexEmbed, RecordedHash, AfterFile
<1>7. SigsOk'
  BY DEF SigsOk, OneWorks, HandOk, IndexEmbed, RecordedHash, AfterFile
<1> HIDE DEF Orderly
<1> QED
  BY <1>1, <1>2, <1>3, <1>4, <1>5, <1>6, <1>7 DEF Orderly

LEMMA IndexEmbedWatchKeepsOrder ==
    ASSUME Types, Types', ~raced, Orderly, IndexEmbed("watch")
    PROVE  Orderly'
<1> USE DEF Types, TypeOK, Orderly, MainWorks, WatchWorks, Up, Scanning, Recorded, Awaited,
            InHand, Workers, fvars, mvars, wvars, counts, hist
<1>1. OneWorks'
  BY DEF OneWorks, HandOk, IndexEmbed, RecordedHash, AfterFile
<1>2. HandOk'
  BY DEF HandOk, OneWorks, IndexEmbed, RecordedHash, AfterFile
<1>3. TodoOk'
  BY DEF TodoOk, OneWorks, HandOk, IndexEmbed, RecordedHash, AfterFile
<1>4. SavedOk'
  BY DEF SavedOk, OneWorks, HandOk, IndexEmbed, RecordedHash, AfterFile
<1>5. StoreOk'
  BY DEF StoreOk, Chunks, HandOk, OneWorks, IndexEmbed, RecordedHash, AfterFile
<1>6. DiskOk'
  BY DEF DiskOk, OneWorks, HandOk, IndexEmbed, RecordedHash, AfterFile
<1>7. SigsOk'
  BY DEF SigsOk, OneWorks, HandOk, IndexEmbed, RecordedHash, AfterFile
<1> HIDE DEF Orderly
<1> QED
  BY <1>1, <1>2, <1>3, <1>4, <1>5, <1>6, <1>7 DEF Orderly

LEMMA StartKeepsOrder ==
    ASSUME Types, Types', ~raced, Orderly, Start
    PROVE  Orderly'
<1> USE DEF Types, TypeOK, Orderly, MainWorks, WatchWorks, Up, Scanning, Recorded, Awaited,
            InHand, Workers, fvars, mvars, wvars, counts, hist
<1>1. OneWorks'
  BY DEF OneWorks, HandOk, Start
<1>2. HandOk'
  BY DEF HandOk, OneWorks, Start
<1>3. TodoOk'
  BY DEF TodoOk, SavedOk, OneWorks, Start
<1>4. SavedOk'
  BY DEF SavedOk, OneWorks, HandOk, Start
<1>5. StoreOk'
  BY DEF StoreOk, OneWorks, HandOk, Start
<1>6. DiskOk'
  BY DEF DiskOk, OneWorks, HandOk, Start
<1>7. SigsOk'
  BY DEF SigsOk, OneWorks, HandOk, Start
<1> HIDE DEF Orderly
<1> QED
  BY <1>1, <1>2, <1>3, <1>4, <1>5, <1>6, <1>7 DEF Orderly

LEMMA VisitKeepsOrder ==
    ASSUME Types, Types', ~raced, Orderly, NEW f \in Files, Visit(f)
    PROVE  Orderly'
<1> USE DEF Types, TypeOK, Orderly, MainWorks, WatchWorks, Up, Scanning, Recorded, Awaited,
            InHand, Workers, fvars, mvars, wvars, counts, hist
<1>1. OneWorks'
  BY DEF OneWorks, HandOk, Visit
<1>2. HandOk'
  BY DEF HandOk, TodoOk, OneWorks, Visit
<1>3. TodoOk'
  BY DEF TodoOk, OneWorks, HandOk, Visit
<1>4. SavedOk'
  BY DEF SavedOk, OneWorks, HandOk, Visit
<1>5. StoreOk'
  BY DEF StoreOk, TodoOk, HandOk, OneWorks, Visit
<1>6. DiskOk'
  BY DEF DiskOk, OneWorks, HandOk, Visit
<1>7. SigsOk'
  BY TextTypes DEF SigsOk, TodoOk, HandOk, OneWorks, Visit
<1> HIDE DEF Orderly
<1> QED
  BY <1>1, <1>2, <1>3, <1>4, <1>5, <1>6, <1>7 DEF Orderly

LEMMA LoadKeepsOrder ==
    ASSUME Types, Types', ~raced, Orderly, LoadFileSignatures
    PROVE  Orderly'
<1> USE DEF Types, TypeOK, Orderly, MainWorks, WatchWorks, Up, Scanning, Recorded, Awaited,
            InHand, Workers, fvars, mvars, wvars, counts, hist
<1>1. OneWorks'
  BY DEF OneWorks, HandOk, LoadFileSignatures, AfterFile
<1>2. HandOk'
  BY DEF HandOk, OneWorks, LoadFileSignatures, AfterFile
<1>3. TodoOk'
  BY DEF TodoOk, OneWorks, HandOk, LoadFileSignatures, AfterFile
<1>4. SavedOk'
  BY DEF SavedOk, OneWorks, HandOk, LoadFileSignatures, AfterFile
<1>5. StoreOk'
  BY DEF StoreOk, OneWorks, HandOk, LoadFileSignatures, AfterFile
<1>6. DiskOk'
  BY DEF DiskOk, OneWorks, HandOk, LoadFileSignatures, AfterFile
<1>7. SigsOk'
  BY DEF SigsOk, DiskOk, HandOk, OneWorks, LoadFileSignatures, AfterFile
<1> HIDE DEF Orderly
<1> QED
  BY <1>1, <1>2, <1>3, <1>4, <1>5, <1>6, <1>7 DEF Orderly

LEMMA WalkEndsKeepsOrder ==
    ASSUME Types, Types', ~raced, Orderly, WalkEnds
    PROVE  Orderly'
<1> USE DEF Types, TypeOK, Orderly, MainWorks, WatchWorks, Up, Scanning, Recorded, Awaited,
            InHand, Workers, fvars, mvars, wvars, counts, hist
<1>1. OneWorks'
  BY DEF OneWorks, HandOk, WalkEnds
<1>2. HandOk'
  BY DEF HandOk, OneWorks, WalkEnds
<1>3. TodoOk'
  BY DEF TodoOk, OneWorks, HandOk, WalkEnds
<1>4. SavedOk'
  BY DEF SavedOk, OneWorks, HandOk, WalkEnds
<1>5. StoreOk'
  BY DEF StoreOk, OneWorks, HandOk, WalkEnds
<1>6. DiskOk'
  BY DEF DiskOk, OneWorks, HandOk, WalkEnds
<1>7. SigsOk'
  BY DEF SigsOk, OneWorks, HandOk, WalkEnds
<1> HIDE DEF Orderly
<1> QED
  BY <1>1, <1>2, <1>3, <1>4, <1>5, <1>6, <1>7 DEF Orderly

LEMMA PruneKeepsOrder ==
    ASSUME Types, Types', ~raced, Orderly, Prune
    PROVE  Orderly'
<1> USE DEF Types, TypeOK, Orderly, MainWorks, WatchWorks, Up, Scanning, Recorded, Awaited,
            InHand, Workers, fvars, mvars, wvars, counts, hist
<1>1. OneWorks'
  BY DEF OneWorks, HandOk, Prune, Forget
<1>2. HandOk'
  BY DEF HandOk, OneWorks, Prune, Forget
<1>3. TodoOk'
  BY DEF TodoOk, OneWorks, HandOk, Prune, Forget
<1>4. SavedOk'
  BY DEF SavedOk, OneWorks, HandOk, Prune, Forget
<1>5. StoreOk'
  BY TextTypes DEF StoreOk, Chunks, OneWorks, Prune, Forget
<1>6. DiskOk'
  BY DEF DiskOk, OneWorks, HandOk, Prune, Forget
<1>7. SigsOk'
  BY TextTypes DEF SigsOk, DiskOk, OneWorks, Prune, Forget
<1> HIDE DEF Orderly
<1> QED
  BY <1>1, <1>2, <1>3, <1>4, <1>5, <1>6, <1>7 DEF Orderly

LEMMA ScanEndsKeepsOrder ==
    ASSUME Types, Types', ~raced, Orderly, ScanEnds
    PROVE  Orderly'
<1> USE DEF Types, TypeOK, Orderly, MainWorks, WatchWorks, Up, Scanning, Recorded, Awaited,
            InHand, Workers, fvars, mvars, wvars, counts, hist
<1>1. OneWorks'
  BY DEF OneWorks, HandOk, ScanEnds
<1>2. HandOk'
  BY DEF HandOk, OneWorks, ScanEnds
<1>3. TodoOk'
  BY DEF TodoOk, OneWorks, HandOk, ScanEnds
<1>4. SavedOk'
  BY DEF SavedOk, StoreOk, OneWorks, ScanEnds
<1>5. StoreOk'
  BY DEF StoreOk, OneWorks, HandOk, ScanEnds
<1>6. DiskOk'
  BY DEF DiskOk, OneWorks, HandOk, ScanEnds
<1>7. SigsOk'
  BY DEF SigsOk, OneWorks, HandOk, ScanEnds
<1> HIDE DEF Orderly
<1> QED
  BY <1>1, <1>2, <1>3, <1>4, <1>5, <1>6, <1>7 DEF Orderly

LEMMA StartWatcherKeepsOrder ==
    ASSUME Types, Types', ~raced, Orderly, StartWatcher
    PROVE  Orderly'
<1> USE DEF Types, TypeOK, Orderly, MainWorks, WatchWorks, Up, Scanning, Recorded, Awaited,
            InHand, Workers, fvars, mvars, wvars, counts, hist
<1>1. OneWorks'
  BY DEF OneWorks, HandOk, StartWatcher
<1>2. HandOk'
  BY DEF HandOk, OneWorks, StartWatcher
<1>3. TodoOk'
  BY DEF TodoOk, OneWorks, HandOk, StartWatcher
<1>4. SavedOk'
  BY DEF SavedOk, OneWorks, HandOk, StartWatcher
<1>5. StoreOk'
  BY DEF StoreOk, OneWorks, HandOk, StartWatcher
<1>6. DiskOk'
  BY DEF DiskOk, OneWorks, HandOk, StartWatcher
<1>7. SigsOk'
  BY DEF SigsOk, OneWorks, HandOk, StartWatcher
<1> HIDE DEF Orderly
<1> QED
  BY <1>1, <1>2, <1>3, <1>4, <1>5, <1>6, <1>7 DEF Orderly

LEMMA ReindexKeepsOrder ==
    ASSUME Types, Types', ~raced, Orderly, Reindex, ~raced'
    PROVE  Orderly'
<1> USE DEF Types, TypeOK, Orderly, MainWorks, WatchWorks, Up, Scanning, Recorded, Awaited,
            InHand, Workers, fvars, mvars, wvars, counts, hist
<1>1. OneWorks'
  BY DEF OneWorks, HandOk, Reindex
<1>2. HandOk'
  BY DEF HandOk, OneWorks, Reindex
<1>3. TodoOk'
  BY DEF TodoOk, OneWorks, HandOk, Reindex
<1>4. SavedOk'
  BY DEF SavedOk, OneWorks, HandOk, Reindex
<1>5. StoreOk'
  BY DEF StoreOk, OneWorks, HandOk, Reindex
<1>6. DiskOk'
  BY DEF DiskOk, OneWorks, HandOk, Reindex
<1>7. SigsOk'
  BY DEF SigsOk, OneWorks, HandOk, Reindex
<1> HIDE DEF Orderly
<1> QED
  BY <1>1, <1>2, <1>3, <1>4, <1>5, <1>6, <1>7 DEF Orderly

LEMMA WatchTakeKeepsOrder ==
    ASSUME Types, Types', ~raced, Orderly, WatchTake
    PROVE  Orderly'
<1> USE DEF Types, TypeOK, Orderly, MainWorks, WatchWorks, Up, Scanning, Recorded, Awaited,
            InHand, Workers, fvars, mvars, wvars, counts, hist
<1>1. OneWorks'
  BY DEF OneWorks, HandOk, WatchTake
<1>2. HandOk'
  BY DEF HandOk, OneWorks, WatchTake
<1>3. TodoOk'
  BY DEF TodoOk, OneWorks, HandOk, WatchTake
<1>4. SavedOk'
  BY DEF SavedOk, OneWorks, HandOk, WatchTake
<1>5. StoreOk'
  BY DEF StoreOk, OneWorks, HandOk, WatchTake
<1>6. DiskOk'
  <2>1. \A h : Queued(events, h) <=> Queued(events', h) \/ h = Head(events)
    BY QueueTaken DEF WatchTake
  <2> QED
    BY <2>1 DEF DiskOk, OneWorks, HandOk, WatchTake
<1>7. SigsOk'
  <2>1. \A h : Queued(events, h) <=> Queued(events', h) \/ h = Head(events)
    BY QueueTaken DEF WatchTake
  <2> QED
    BY <2>1 DEF SigsOk, OneWorks, HandOk, WatchTake
<1> HIDE DEF Orderly
<1> QED
  BY <1>1, <1>2, <1>3, <1>4, <1>5, <1>6, <1>7 DEF Orderly

LEMMA WatchMatureKeepsOrder ==
    ASSUME Types, Types', ~raced, Orderly, WatchMature
    PROVE  Orderly'
<1> USE DEF Types, TypeOK, Orderly, MainWorks, WatchWorks, Up, Scanning, Recorded, Awaited,
            InHand, Workers, fvars, mvars, wvars, counts, hist
<1>1. OneWorks'
  BY DEF OneWorks, HandOk, WatchMature
<1>2. HandOk'
  BY DEF HandOk, OneWorks, WatchMature
<1>3. TodoOk'
  BY DEF TodoOk, OneWorks, HandOk, WatchMature
<1>4. SavedOk'
  BY DEF SavedOk, OneWorks, HandOk, WatchMature
<1>5. StoreOk'
  BY DEF StoreOk, OneWorks, HandOk, WatchMature
<1>6. DiskOk'
  BY DEF DiskOk, OneWorks, HandOk, WatchMature
<1>7. SigsOk'
  BY DEF SigsOk, OneWorks, HandOk, WatchMature
<1> HIDE DEF Orderly
<1> QED
  BY <1>1, <1>2, <1>3, <1>4, <1>5, <1>6, <1>7 DEF Orderly

LEMMA WatchHashKeepsOrder ==
    ASSUME Types, Types', ~raced, Orderly, WatchHash
    PROVE  Orderly'
<1> USE DEF Types, TypeOK, Orderly, MainWorks, WatchWorks, Up, Scanning, Recorded, Awaited,
            InHand, Workers, fvars, mvars, wvars, counts, hist
<1>1. OneWorks'
  BY DEF OneWorks, HandOk, WatchHash, Forget
<1>2. HandOk'
  BY DEF HandOk, OneWorks, WatchHash, Forget
<1>3. TodoOk'
  BY DEF TodoOk, OneWorks, HandOk, WatchHash, Forget
<1>4. SavedOk'
  BY DEF SavedOk, OneWorks, HandOk, WatchHash, Forget
<1>5. StoreOk'
  BY TextTypes DEF StoreOk, Chunks, HandOk, OneWorks, WatchHash, Forget
<1>6. DiskOk'
  BY DEF DiskOk, OneWorks, HandOk, WatchHash, Forget
<1>7. SigsOk'
  BY TextTypes DEF SigsOk, DiskOk, HandOk, OneWorks, WatchHash, Forget
<1> HIDE DEF Orderly
<1> QED
  BY <1>1, <1>2, <1>3, <1>4, <1>5, <1>6, <1>7 DEF Orderly

LEMMA WatchSaveKeepsOrder ==
    ASSUME Types, Types', ~raced, Orderly, WatchSave
    PROVE  Orderly'
<1> USE DEF Types, TypeOK, Orderly, MainWorks, WatchWorks, Up, Scanning, Recorded, Awaited,
            InHand, Workers, fvars, mvars, wvars, counts, hist
<1>1. OneWorks'
  BY DEF OneWorks, HandOk, WatchSave
<1>2. HandOk'
  BY DEF HandOk, OneWorks, WatchSave
<1>3. TodoOk'
  BY DEF TodoOk, OneWorks, HandOk, WatchSave
<1>4. SavedOk'
  BY DEF SavedOk, StoreOk, OneWorks, WatchSave
<1>5. StoreOk'
  BY DEF StoreOk, OneWorks, HandOk, WatchSave
<1>6. DiskOk'
  BY DEF DiskOk, OneWorks, HandOk, WatchSave
<1>7. SigsOk'
  BY DEF SigsOk, OneWorks, HandOk, WatchSave
<1> HIDE DEF Orderly
<1> QED
  BY <1>1, <1>2, <1>3, <1>4, <1>5, <1>6, <1>7 DEF Orderly

(* The end of the process leaves an orderly index, whatever has happened before:
   what may be wrong on disk is among what has been missed. *)
LEMMA EndKeepsOrder ==
    ASSUME IndexInv, Types', ProcessEnds
    PROVE  Orderly' /\ ~raced' /\ ~Up'
<1>1. /\ pc'["main"] = "down" /\ pc'["watch"] = "off" /\ raced' = FALSE
      /\ todo' = {} /\ unsaved' = {} /\ store' = store
      /\ \A f \in Files : sigs'[f] = {}
  BY DEF ProcessEnds
<1>2. \A f \in Files \ missed' : saved'[f] # None => store[f] = Chunks(saved'[f])
  <2> SUFFICES ASSUME NEW f \in Files \ missed', saved'[f] # None
               PROVE  store[f] = Chunks(saved'[f])
    OBVIOUS
  <2>1. saved' = saved
    BY DEF ProcessEnds
  <2>2. ~raced /\ f \notin missed /\ f \notin unsaved
    BY DEF ProcessEnds
  <2> QED
    BY <2>1, <2>2 DEF IndexInv, Orderly, SavedOk
<1>3. OneWorks' /\ HandOk' /\ TodoOk'
  BY <1>1 DEF OneWorks, HandOk, TodoOk, MainWorks, WatchWorks, Up, Workers
<1>4. SavedOk'
  BY <1>1, <1>2 DEF SavedOk
<1>5. StoreOk' /\ DiskOk' /\ SigsOk'
  BY <1>1 DEF StoreOk, DiskOk, SigsOk, Scanning, Up
<1> QED
  BY <1>1, <1>3, <1>4, <1>5 DEF Orderly, Up

LEMMA IndexStep == IndexInv /\ [Next]_vars => IndexInv'
<1> SUFFICES ASSUME IndexInv, [Next]_vars PROVE IndexInv'
  OBVIOUS
<1>1. Types'
  BY TypesStep DEF IndexInv
<1>2. CASE UNCHANGED vars
  BY <1>1, <1>2 DEF vars, fvars, mvars, wvars, counts, hist, IndexInv, Orderly, OneWorks, HandOk,
     TodoOk, SavedOk, StoreOk, DiskOk, SigsOk, MainWorks, WatchWorks, Up, Scanning, Recorded,
     Awaited, InHand
<1>3. CASE ProcessEnds
  BY <1>1, <1>3, EndKeepsOrder DEF IndexInv
<1>4. CASE Reindex
  <2>1. Up'
    BY <1>4 DEF Reindex, Up, IndexInv, Types, TypeOK, Workers
  <2>2. ~raced' => ~raced /\ Orderly
    BY <1>4 DEF Reindex, IndexInv
  <2> QED
    BY <1>1, <1>4, <2>1, <2>2, ReindexKeepsOrder DEF IndexInv
<1>5. CASE \E f \in Files : RaceLoses(f)
  <2>1. raced /\ UNCHANGED <<raced, pc>>
    BY <1>5 DEF RaceLoses, IndexInv, Orderly, OneWorks, hist
  <2> QED
    BY <1>1, <2>1 DEF IndexInv, Up
<1>6. ASSUME UNCHANGED raced, ~Up' => ~Up, ~raced /\ Orderly => Orderly'
      PROVE  IndexInv'
  BY <1>1, <1>6 DEF IndexInv
<1>7. CASE Start
  BY <1>1, <1>6, <1>7, StartKeepsOrder DEF Start, Up, hist, IndexInv, Types, Workers
<1>8. CASE MainStep
  <2>1. UNCHANGED raced /\ Up'
    BY <1>8 DEF MainStep, IndexRead, IndexEmbed, Visit, LoadFileSignatures, WalkEnds, Prune,
       ScanEnds, StartWatcher, AfterFile, hist, Up, IndexInv, Types, Workers
  <2>2. ~raced /\ Orderly => Orderly'
    BY <1>1, <1>8, IndexReadMainKeepsOrder, IndexEmbedMainKeepsOrder, VisitKeepsOrder,
       LoadKeepsOrder, WalkEndsKeepsOrder, PruneKeepsOrder, ScanEndsKeepsOrder,
       StartWatcherKeepsOrder DEF MainStep, IndexInv
  <2> QED
    BY <1>6, <2>1, <2>2
<1>9. CASE WatchStep
  <2>1. UNCHANGED raced /\ pc'["main"] = pc["main"]
    BY <1>9 DEF WatchStep, IndexRead, IndexEmbed, WatchTake, WatchMature, WatchHash, WatchSave,
       AfterFile, hist, IndexInv, Types, Workers
  <2>2. ~raced /\ Orderly => Orderly'
    BY <1>1, <1>9, IndexReadWatchKeepsOrder, IndexEmbedWatchKeepsOrder, WatchTakeKeepsOrder,
       WatchMatureKeepsOrder, WatchHashKeepsOrder, WatchSaveKeepsOrder DEF WatchStep, IndexInv
  <2> QED
    BY <1>6, <2>1, <2>2 DEF Up
<1>10. ASSUME NEW f \in Files, NEW t \in Content, Edit(f, t)
       PROVE  IndexInv'
  <2>1. UNCHANGED <<raced, pc>>
    BY <1>10 DEF Edit
  <2> QED
    BY <1>1, <1>6, <1>10, <2>1, EditKeepsOrder DEF IndexInv, Up
<1> QED
  BY <1>2, <1>3, <1>4, <1>5, <1>7, <1>8, <1>9, <1>10 DEF Next

LEMMA IndexInitially == Init => IndexInv
<1> SUFFICES ASSUME Init PROVE IndexInv
  OBVIOUS
<1>1. Types /\ ~raced
  BY TypesInitially DEF Init
<1>2. /\ pc["main"] = "down" /\ pc["watch"] = "off" /\ todo = {} /\ unsaved = {}
      /\ \A f \in Files : sigs[f] = {} /\ saved[f] = None
  BY DEF Init
<1>3. Orderly
  BY <1>2 DEF Orderly, OneWorks, HandOk, TodoOk, SavedOk, StoreOk, DiskOk, SigsOk, MainWorks,
     WatchWorks, Up, Scanning, Workers
<1> QED
  BY <1>1, <1>3 DEF IndexInv

LEMMA IndexAlways == Spec => []IndexInv
BY IndexInitially, IndexStep, PTL DEF Spec

(* StaleOnlyIfMissed, for any set of files and any number of changes: whatever the
   scan, the watcher and the reindex command do in whatever order (indexer.go), an
   index at rest is out of step only with files the code has let pass. *)
THEOREM StaleMeansMissed == Spec => []StaleOnlyIfMissed
<1>1. IndexInv => StaleOnlyIfMissed
  <2> SUFFICES ASSUME IndexInv, AtRest, ~raced, NEW f \in Files \ missed PROVE InStep(f)
    BY DEF StaleOnlyIfMissed
  <2>1. Up /\ ~Scanning /\ Recorded(f) = manifest[f]
    BY DEF AtRest, Up, Scanning, Recorded
  <2>2. ~Awaited(f)
    <3>1. todo = {}
      BY DEF IndexInv, Orderly, OneWorks, AtRest
    <3>2. ~Queued(events, f)
      BY DEF AtRest, Queued
    <3> QED
      BY <3>1, <3>2 DEF Awaited, AtRest
  <2>3. ~InHand(f, {"read", "embed"}) /\ ~InHand(f, {"load", "read"})
    BY DEF InHand, AtRest
  <2>4. manifest[f] = disk[f]
    BY <2>1, <2>2 DEF IndexInv, Orderly, DiskOk
  <2>5. store[f] = Chunks(manifest[f])
    BY <2>1, <2>3 DEF IndexInv, Orderly, StoreOk
  <2>6. sigs[f] = {manifest[f]} \cap Text
    BY <2>1, <2>2, <2>3 DEF IndexInv, Orderly, SigsOk
  <2> QED
    BY <2>4, <2>5, <2>6 DEF InStep
<1> QED
  BY <1>1, IndexAlways, PTL

(* SavedManifestTrue: what a restart skips because of manifest.json has its chunks
   in the store, even if the process ended at any moment (saveManifest comes after
   indexFile in scanAndIndex and in watchLoop). *)
THEOREM SavedManifestIsTrue == Spec => []SavedManifestTrue
<1>1. IndexInv => SavedManifestTrue
  BY DEF IndexInv, Orderly, SavedOk, SavedManifestTrue
<1> QED
  BY <1>1, IndexAlways, PTL

(* IdleIsWhole: HandleRetrieve, which searches in the idle state only, does not see
   a file between the removal of its chunks and their replacement. *)
THEOREM IdleMeansWhole == Spec => []IdleIsWhole
<1>1. IndexInv => IdleIsWhole
  BY DEF IndexInv, Orderly, OneWorks, MainWorks, WatchWorks, IdleIsWhole, Workers
<1> QED
  BY <1>1, IndexAlways, PTL
=============================================================================
