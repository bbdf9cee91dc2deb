----------------------------- MODULE CodeIndex ------------------------------
(***************************************************************************)
(* The code index (internal/indexer): a store of embedded chunks kept in   *)
(* step with the files of a project by three things that do not wait for   *)
(* each other: the scan of Start, the watcher, and the reindex command.    *)
(* The store is on disk and written at once; the manifest (path -> hash)   *)
(* is saved at the end of a scan or of a watcher's round; signatures are   *)
(* in memory only.                                                         *)
(*                                                                         *)
(* A text stands for its hash.  A file is one chunk, whose signature is    *)
(* the text's; two goroutines work on the index: "main" (Start and the     *)
(* commands, one after the other) and "watch" (watchLoop).                 *)
(***************************************************************************)
EXTENDS Naturals, FiniteSets, SequencesExt

CONSTANTS
    Files,      \* the paths that pass ShouldIndex and shouldIgnore
    MaxEdits,   \* bound: changes of files
    MaxStarts,  \* bound: starts of the indexer process
    MaxReindex, \* bound: reindex commands
    Ops         \* what may happen, a subset of AllOps

AllOps == {"revert",   \* a file gets a text it has had before
           "blank",    \* a file gets a text without chunks
           "unseen",   \* the watcher is not told of a change: its queue
                       \* overflows, or the directory is not yet watched
           "fail",     \* the embedder fails
           "nowatch",  \* the watcher cannot be started
           "end"}      \* the process ends, at any moment

ASSUME CodeIndexAssumption ==
    /\ IsFiniteSet(Files)
    /\ MaxEdits \in Nat \ {0} /\ MaxStarts \in Nat /\ MaxReindex \in Nat
    /\ Ops \subseteq AllOps

VARIABLES
    disk,     \* the files
    edits,    \* number of changes so far, and the text of the latest one
    store,    \* the chunks of a file: the text they are of, or None
    saved,    \* manifest.json
    manifest, \* idx.manifest
    sigs,     \* idx.signatures, per file
    state,    \* idx.state
    pc,       \* where each goroutine is
    at,       \* the file and text each goroutine has in hand
    todo,     \* the paths that filepath.Walk has yet to come by, or to list the
              \* directory of
    hashes,   \* fileHashes of scanAndIndex
    events,   \* the watcher's channel
    watching, \* the watcher is on
    starts, reindexes,
    missed,   \* history: files whose last change the code has let pass
    unsaved,  \* history: files the store has changed of since the manifest
              \* was last saved
    raced     \* history: two goroutines have worked on the index at once

fvars  == <<disk, edits>>
mvars  == <<manifest, saved>>
wvars  == <<events, watching>>
counts == <<starts, reindexes>>
hist   == <<missed, unsaved, raced>>
vars   == <<fvars, store, mvars, sigs, state, pc, at, todo, hashes, wvars,
            counts, hist>>

None   == 0                       \* no file, no entry
Text   == 1 .. MaxEdits           \* texts with chunks
Blank  == MaxEdits + 1            \* a text without
Content == Text \cup {Blank, None}
Workers == {"main", "watch"}

Init ==
    /\ disk \in [Files -> {None, 1}]
    /\ edits = 1
    /\ store = [f \in Files |-> None]
    /\ saved = [f \in Files |-> None]
    /\ manifest = saved
    /\ sigs = [f \in Files |-> {}]
    /\ state = "starting"
    /\ pc = [main |-> "down", watch |-> "off"]
    /\ at = [g \in Workers |-> [file |-> None, text |-> None]]
    /\ todo = {}
    /\ hashes = saved
    /\ events = <<>>
    /\ watching = FALSE
    /\ starts = 0 /\ reindexes = 0
    /\ missed = {} /\ unsaved = {} /\ raced = FALSE

Up == pc["main"] # "down"
MainWorks  == pc["main"] \in {"walk", "load", "read", "embed", "prune", "save"}
WatchWorks == pc["watch"] \in {"hash", "read", "embed", "save"}

-----------------------------------------------------------------------------
(* The files.  A change of a file that nothing will look at again is missed. *)

NextTexts(f) ==
    {edits + 1, None} \cup (IF "blank" \in Ops THEN {Blank} ELSE {})
                      \cup (IF "revert" \in Ops THEN 1 .. edits ELSE {})

Edit(f, t) ==
    /\ edits < MaxEdits
    /\ t \in NextTexts(f) \ {disk[f]}
    /\ disk' = [disk EXCEPT ![f] = t]
    /\ edits' = edits + 1
    /\ \/ /\ watching
          /\ events' = Append(events, f)
          /\ UNCHANGED missed
       \/ /\ watching => "unseen" \in Ops
          /\ missed' = IF Up => pc["watch"] = "off" /\ f \in todo
                       THEN missed ELSE missed \cup {f}
          /\ UNCHANGED events
    /\ UNCHANGED <<store, mvars, sigs, state, pc, at, todo, hashes, watching,
                   counts, unsaved, raced>>

-----------------------------------------------------------------------------
(* Steps of indexFile, by either goroutine.  What follows it is the next file
   of the walk or, for the watcher, saveManifest. *)

RecordedHash(g, f) == IF g = "main" THEN hashes[f] ELSE manifest[f]

AfterFile(g) ==
    pc' = [pc EXCEPT ![g] = IF g = "main" THEN "walk" ELSE "save"]

(* The file is read again, which may give another text than was hashed.
   Without a chunk, nothing of the old entry is removed; else signatures are
   replaced and the old chunks removed. *)
IndexRead(g) ==
    /\ pc[g] = "read"
    /\ LET f == at[g].file
           t == disk[f]
       IN \/ /\ t \notin Text
             /\ missed' = IF RecordedHash(g, f) # t
                             \/ store[f] # None \/ sigs[f] # {}
                          THEN missed \cup {f} ELSE missed
             /\ AfterFile(g)
             /\ UNCHANGED <<sigs, store, at, unsaved>>
          \/ /\ t \in Text
             /\ sigs' = [sigs EXCEPT ![f] = {t}]
             /\ store' = [store EXCEPT ![f] = None]
             /\ at' = [at EXCEPT ![g].text = t]
             /\ pc' = [pc EXCEPT ![g] = "embed"]
             /\ missed' = IF t = RecordedHash(g, f)
                          THEN missed \ {f} ELSE missed \cup {f}
             /\ unsaved' = unsaved \cup {f}
    /\ UNCHANGED <<fvars, mvars, state, todo, hashes, wvars, counts, raced>>

(* store.AddChunks: embeds, and puts what it has embedded on disk.  The answer of
   the embedder has no time limit. *)
IndexEmbed(g) ==
    /\ pc[g] = "embed"
    /\ LET f == at[g].file
       IN \/ /\ store' = [store EXCEPT ![f] = at[g].text]
             /\ UNCHANGED missed
          \/ /\ "fail" \in Ops
             /\ missed' = missed \cup {f}
             /\ UNCHANGED store
    /\ AfterFile(g)
    /\ UNCHANGED <<fvars, mvars, sigs, state, at, todo, hashes, wvars, counts,
                   unsaved, raced>>

(* store.RemoveFile, delete from the signatures. *)
Forget(fs) ==
    /\ store' = [f \in Files |-> IF f \in fs THEN None ELSE store[f]]
    /\ sigs'  = [f \in Files |-> IF f \in fs THEN {} ELSE sigs[f]]
    /\ unsaved' = unsaved \cup fs

-----------------------------------------------------------------------------
(* Start, and scanAndIndex. *)

Start ==
    /\ ~Up
    /\ starts < MaxStarts
    /\ starts' = starts + 1
    /\ manifest' = saved
    /\ state' = "indexing"
    /\ pc' = [pc EXCEPT !["main"] = "walk"]
    /\ todo' = Files
    /\ hashes' = [f \in Files |-> None]
    /\ UNCHANGED <<fvars, store, saved, sigs, at, wvars, reindexes, hist>>

(* Bug: a file the manifest knows is taken to be unchanged. *)
VisitByName(f) ==
    /\ pc["main"] = "walk"
    /\ f \in todo
    /\ todo' = todo \ {f}
    /\ hashes' = [hashes EXCEPT ![f] = disk[f]]
    /\ at' = [at EXCEPT !["main"] = [file |-> f, text |-> None]]
    /\ pc' = [pc EXCEPT !["main"] =
                 IF disk[f] = None THEN "walk"
                 ELSE IF manifest[f] # None THEN "load" ELSE "read"]
    /\ UNCHANGED <<fvars, store, mvars, sigs, state, wvars, counts, hist>>

(* filepath.Walk lists a directory before it visits its files: a path without a
   file is passed over at the moment its directory is listed, and a file that is
   made there afterwards is not come by (it is no longer in todo, see Edit). *)
Visit(f) ==
    /\ pc["main"] = "walk"
    /\ f \in todo
    /\ todo' = todo \ {f}
    /\ hashes' = [hashes EXCEPT ![f] = disk[f]]
    /\ at' = [at EXCEPT !["main"] = [file |-> f, text |-> None]]
    /\ pc' = [pc EXCEPT !["main"] =
                 IF disk[f] = None THEN "walk"
                 ELSE IF manifest[f] = disk[f] THEN "load" ELSE "read"]
    /\ UNCHANGED <<fvars, store, mvars, sigs, state, wvars, counts, hist>>

(* A file whose hash is that of the manifest: only its signatures are read. *)
LoadFileSignatures ==
    /\ pc["main"] = "load"
    /\ LET f == at["main"].file
       IN sigs' = [sigs EXCEPT ![f] = @ \cup ({disk[f]} \cap Text)]
    /\ AfterFile("main")
    /\ UNCHANGED <<fvars, store, mvars, state, at, todo, hashes, wvars, counts,
                   hist>>

WalkEnds ==
    /\ pc["main"] = "walk"
    /\ todo = {}
    /\ pc' = [pc EXCEPT !["main"] = "prune"]
    /\ UNCHANGED <<fvars, store, mvars, sigs, state, at, todo, hashes, wvars,
                   counts, hist>>

(* Files of the manifest that the walk has not found.  A reindex has emptied
   the manifest, so that it passes over the chunks of a deleted file. *)
Prune ==
    /\ pc["main"] = "prune"
    /\ LET gone == {f \in Files : hashes[f] = None}
       IN /\ Forget({f \in gone : manifest[f] # None})
          /\ missed' = missed \cup
                 {f \in gone : manifest[f] = None /\ store[f] # None}
    /\ manifest' = hashes
    /\ pc' = [pc EXCEPT !["main"] = "save"]
    /\ UNCHANGED <<fvars, saved, state, at, todo, hashes, wvars, counts, raced>>

(* saveManifest, state idle.  Start then goes on with the watcher. *)
ScanEnds ==
    /\ pc["main"] = "save"
    /\ saved' = manifest
    /\ unsaved' = {}
    /\ state' = "idle"
    /\ pc' = [pc EXCEPT !["main"] =
                 IF pc["watch"] = "off" THEN "gap" ELSE "serve"]
    /\ UNCHANGED <<fvars, store, manifest, sigs, at, todo, hashes, wvars,
                   counts, missed, raced>>

StartWatcher ==
    /\ pc["main"] = "gap"
    /\ \/ /\ watching' = TRUE
          /\ pc' = [main |-> "serve", watch |-> "wait"]
       \/ /\ "nowatch" \in Ops
          /\ pc' = [main |-> "serve", watch |-> "failed"]
          /\ UNCHANGED watching
    /\ UNCHANGED <<fvars, store, mvars, sigs, state, at, todo, hashes, events,
                   counts, hist>>

(* HandleReindex.  store.Reset asks for the collection that is there already,
   so the chunks stay. *)
Reindex ==
    /\ pc["main"] = "serve"
    /\ reindexes < MaxReindex
    /\ reindexes' = reindexes + 1
    /\ state' = "indexing"
    /\ manifest' = [f \in Files |-> None]
    /\ saved' = manifest'
    /\ sigs' = [f \in Files |-> {}]
    /\ pc' = [pc EXCEPT !["main"] = "walk"]
    /\ todo' = Files
    /\ hashes' = [f \in Files |-> None]
    /\ unsaved' = unsaved \cup {f \in Files : store[f] # None}
    /\ raced' = (raced \/ WatchWorks)
    /\ UNCHANGED <<fvars, store, at, wvars, starts, missed>>

-----------------------------------------------------------------------------
(* watchLoop: one event, two seconds, and the file it was about.  Since every
   event is followed by the pause, an event never waits in debounce for more
   than its own pause. *)

(* Bug: an event about the file that has just been done is skipped. *)
WatchTakeOther ==
    /\ pc["watch"] = "wait"
    /\ events # <<>>
    /\ events' = Tail(events)
    /\ IF at["watch"].file = Head(events)
       THEN UNCHANGED <<at, pc>>
       ELSE /\ at' = [at EXCEPT !["watch"] =
                          [file |-> Head(events), text |-> None]]
            /\ pc' = [pc EXCEPT !["watch"] = "settle"]
    /\ UNCHANGED <<fvars, store, mvars, sigs, state, todo, hashes, watching,
                   counts, hist>>

WatchTake ==
    /\ pc["watch"] = "wait"
    /\ events # <<>>
    /\ at' = [at EXCEPT !["watch"] = [file |-> Head(events), text |-> None]]
    /\ events' = Tail(events)
    /\ pc' = [pc EXCEPT !["watch"] = "settle"]
    /\ UNCHANGED <<fvars, store, mvars, sigs, state, todo, hashes, watching,
                   counts, hist>>

(* Bug: the state is left as it is. *)
WatchMatureQuietly ==
    /\ pc["watch"] = "settle"
    /\ IF state = "idle"
       THEN pc' = [pc EXCEPT !["watch"] = "hash"] /\ UNCHANGED missed
       ELSE /\ missed' = missed \cup {at["watch"].file}
            /\ pc' = [pc EXCEPT !["watch"] = "wait"]
    /\ UNCHANGED <<fvars, store, mvars, sigs, state, at, todo, hashes, wvars,
                   counts, unsaved, raced>>

(* After the pause: not in the idle state, what has matured is dropped. *)
WatchMature ==
    /\ pc["watch"] = "settle"
    /\ \/ /\ state = "idle"
          /\ state' = "indexing"
          /\ pc' = [pc EXCEPT !["watch"] = "hash"]
          /\ UNCHANGED missed
       \/ /\ state # "idle"
          /\ missed' = missed \cup {at["watch"].file}
          /\ pc' = [pc EXCEPT !["watch"] = "wait"]
          /\ UNCHANGED state
    /\ UNCHANGED <<fvars, store, mvars, sigs, at, todo, hashes, wvars, counts,
                   unsaved, raced>>

(* Bug: the manifest is saved before the file is indexed. *)
WatchHashSavesFirst ==
    /\ pc["watch"] = "hash"
    /\ LET f == at["watch"].file
       IN /\ manifest' = [manifest EXCEPT ![f] = disk[f]]
          /\ saved' = manifest'
          /\ IF disk[f] = None
             THEN /\ Forget({f})
                  /\ missed' = missed \ {f}
                  /\ pc' = [pc EXCEPT !["watch"] = "save"]
             ELSE /\ pc' = [pc EXCEPT !["watch"] = "read"]
                  /\ UNCHANGED <<store, sigs, missed, unsaved>>
    /\ UNCHANGED <<fvars, state, at, todo, hashes, wvars, counts, raced>>

WatchHash ==
    /\ pc["watch"] = "hash"
    /\ LET f == at["watch"].file
       IN /\ manifest' = [manifest EXCEPT ![f] = disk[f]]
          /\ \/ /\ disk[f] = None
                /\ Forget({f})
                /\ missed' = missed \ {f}
                /\ pc' = [pc EXCEPT !["watch"] = "save"]
             \/ /\ disk[f] # None
                /\ pc' = [pc EXCEPT !["watch"] = "read"]
                /\ UNCHANGED <<store, sigs, missed, unsaved>>
    /\ UNCHANGED <<fvars, saved, state, at, todo, hashes, wvars, counts, raced>>

WatchSave ==
    /\ pc["watch"] = "save"
    /\ saved' = manifest
    /\ unsaved' = {}
    /\ state' = "idle"
    /\ pc' = [pc EXCEPT !["watch"] = "wait"]
    /\ UNCHANGED <<fvars, store, manifest, sigs, at, todo, hashes, wvars,
                   counts, missed, raced>>

-----------------------------------------------------------------------------
(* Signatures and manifest are changed without a lock: while both goroutines
   work, an update of the list may be lost.  (The runtime may also end the
   process over the map, which is ProcessEnds.) *)
RaceLoses(f) ==
    /\ MainWorks /\ WatchWorks
    /\ sigs' = [sigs EXCEPT ![f] = {}]
    /\ UNCHANGED <<fvars, store, mvars, state, pc, at, todo, hashes, wvars,
                   counts, hist>>

(* The end of the process: an interrupt, the end of its input, a kill.  While
   the manifest is being written it may be cut short, and is then no JSON. *)
ProcessEnds ==
    /\ Up
    /\ "end" \in Ops
    /\ \/ UNCHANGED saved
       \/ /\ "save" \in {pc["main"], pc["watch"]}
          /\ saved' = [f \in Files |-> None]
    /\ missed' = missed \cup (IF raced THEN Files ELSE unsaved)
                        \cup (IF saved' = saved THEN {}
                              ELSE {f \in Files : store[f] # None})
    /\ unsaved' = {}
    /\ raced' = FALSE
    /\ manifest' = [f \in Files |-> None]
    /\ sigs' = [f \in Files |-> {}]
    /\ state' = "starting"
    /\ pc' = [main |-> "down", watch |-> "off"]
    /\ at' = [g \in Workers |-> [file |-> None, text |-> None]]
    /\ todo' = {}
    /\ hashes' = [f \in Files |-> None]
    /\ events' = <<>>
    /\ watching' = FALSE
    /\ UNCHANGED <<fvars, store, counts>>

MainStep ==
    \/ IndexRead("main") \/ IndexEmbed("main")
    \/ \E f \in Files : Visit(f)
    \/ LoadFileSignatures \/ WalkEnds \/ Prune \/ ScanEnds \/ StartWatcher

WatchStep ==
    \/ WatchTake \/ WatchMature \/ WatchHash
    \/ IndexRead("watch") \/ IndexEmbed("watch") \/ WatchSave

Next ==
    \/ MainStep \/ WatchStep
    \/ Start \/ Reindex \/ ProcessEnds
    \/ \E f \in Files : RaceLoses(f) \/ \E t \in Content : Edit(f, t)

Spec == Init /\ [][Next]_vars

(* Both goroutines go on while the process runs, but for the answer of the
   embedder: the request has no time limit, and the answer need not come.  Nobody
   has to start the process, to change a file or to send a command. *)
FairSpec ==
    /\ Spec
    /\ WF_vars(MainStep /\ pc["main"] # "embed")
    /\ WF_vars(WatchStep /\ pc["watch"] # "embed")

-----------------------------------------------------------------------------
(* The types: what is in the store and the signatures is of texts with chunks
   (indexFile returns before it stores the others). *)
TypeOK ==
    /\ disk \in [Files -> Content] /\ edits \in 1 .. MaxEdits
    /\ store \in [Files -> Text \cup {None}]
    /\ {manifest, saved, hashes} \subseteq [Files -> Content]
    /\ sigs \in [Files -> SUBSET Text]
    /\ state \in {"starting", "indexing", "idle"}
    /\ pc["main"] \in {"down", "walk", "load", "read", "embed", "prune", "save",
                       "gap", "serve"}
    /\ pc["watch"] \in {"off", "failed", "wait", "settle", "hash", "read",
                        "embed", "save"}
    /\ at \in [Workers -> [file : Files \cup {None}, text : Text \cup {None}]]
    /\ todo \subseteq Files
    /\ events \in Seq(Files) /\ watching \in BOOLEAN
    /\ starts \in 0 .. MaxStarts /\ reindexes \in 0 .. MaxReindex
    /\ missed \subseteq Files /\ unsaved \subseteq Files /\ raced \in BOOLEAN

AtRest ==
    /\ pc["main"] = "serve"
    /\ pc["watch"] \in {"wait", "failed"}
    /\ events = <<>>

Chunks(t) == IF t \in Text THEN t ELSE None

InStep(f) ==
    /\ manifest[f] = disk[f]
    /\ store[f] = Chunks(disk[f])
    /\ sigs[f] = {disk[f]} \cap Text

(* When no work is left, the index tells of every file what the file says,
   unless the file's last change is one of those the code lets pass: made
   while nothing looked, dropped by the watcher, failed to be embedded, left
   without a chunk, read in another state than it was hashed in, or written
   to the store and not to the manifest when the process ended.  (indexer.go:
   scanAndIndex, indexFile, watchLoop.) *)
StaleOnlyIfMissed ==
    AtRest /\ ~raced => \A f \in Files \ missed : InStep(f)

(* What a restart relies on: a file whose hash is in manifest.json has its
   chunks in the store, with the same exceptions.  (scanAndIndex skips it.) *)
SavedManifestTrue ==
    ~raced => \A f \in Files \ (missed \cup unsaved) :
                  saved[f] # None => store[f] = Chunks(saved[f])

(* While the index says that it is idle, which lets HandleRetrieve search, no
   file is between the removal of its chunks and their replacement. *)
IdleIsWhole ==
    state = "idle" /\ ~raced => \A g \in Workers : pc[g] # "embed"

(* A file that the index is behind of is caught up with, or is one of those
   let pass, or the process ends, or one of the goroutines waits for the embedder
   for ever. *)
CatchesUp ==
    \/ \E g \in Workers : <>[](pc[g] = "embed")
    \/ \A f \in Files :
           (Up /\ ~InStep(f)) ~> (InStep(f) \/ f \in missed \/ raced \/ ~Up)
=============================================================================
