----------------------------- MODULE Expiration -----------------------------
(***************************************************************************)
(* tools/fbitexpire/src: the daemon that deletes the oldest directories    *)
(* when the data of the collector outgrow a limit.  The Watcher learns of  *)
(* new directories from inotify, the Scanner keeps a tree of the           *)
(* directories and their sizes and chooses what to delete, the Cleaner     *)
(* deletes, and the PipeListener takes commands.  They share queues under  *)
(* mutexes; the Directory objects have no lock.  The writers of the data   *)
(* are part of the environment.                                            *)
(*                                                                         *)
(* A directory is named by its path below the base directory, a sequence   *)
(* of numbers that each writer counts up, and stands for its object too:   *)
(* no path is made twice.  Its size is that of the data in it; the file    *)
(* stats.txt, in which the daemon notes a size, adds nothing to it.        *)
(***************************************************************************)
EXTENDS Integers, Sequences, FiniteSets, FiniteSetsExt, SequencesExt, Functions

CONSTANTS
  Multiple,       \* option -m: every subdirectory of the base has a writer
  MaxDepth,       \* option -d
  Writers,        \* 1 .. n; the writer that makes directories below <<w>>
                  \* with Multiple, else the only one
  LeafDepth,      \* depth of the directories that data are written to
  StartDisk,      \* directories at the start with the size of their files
  StartAt,        \* the directory each writer has made last at the start
  MaxName,        \* bound: directories of one parent
  MaxSize,        \* bound: size of the files of one directory
  MaxTime,        \* bound: seconds that pass
  Limits,         \* sizes given by the commands "s" and "w"
  StartLimit,     \* option -s, the watermark being the same
  Rescans,        \* paths given by the command "r"
  MaxCommands,    \* bound: commands sent to the pipe
  SizeWrap        \* sizes are modulo SizeWrap, 2^64 in the code

ASSUME DepthAssumption == MaxDepth \in Nat \ {0} /\ LeafDepth \in Nat \ {0}

ASSUME TimeAssumption == MaxTime \in Nat /\ MaxTime >= 2

ASSUME WritersAssumption == Multiple \in BOOLEAN /\ (~Multiple => Cardinality(Writers) = 1)

Root == << >>

Paths ==
  { SubSeq(p, 1, k) : p \in [1 .. LeafDepth -> 1 .. MaxName], k \in 0 .. LeafDepth }

\* The paths from the base directory to p, without p.
Ancestors(p) == { SubSeq(p, 1, i) : i \in 0 .. Len(p) - 1 }

IsBelow(p, q) == p = q \/ q \in Ancestors(p)

VARIABLES
  disk,        \* [existing directories -> size of their files]
  stats,       \* [directories with a stats.txt -> the size in it]
  mtime,       \* [Paths -> time last modified, in whole seconds]
  clock,
  at, target,  \* [Writers -> directory made last, directory being made]
  watches,     \* directories inotify reports new entries of
  events,      \* new directories, not yet read by the Watcher
  watching,    \* [roots -> sequence of watched directories], the RootWatches
  watcher,     \* what the Watcher is doing
  children,    \* [Paths -> Seq(Paths)]
  size,        \* [Paths -> size known to the Scanner]
  age,         \* [Paths -> age known to the Scanner]
  active,      \* directories with the active flag
  freed,       \* directories whose object was deleted
  to_add,      \* queue of the Scanner: <<directory, parent>>
  to_scan,     \* queue of the Scanner: paths
  scanner,     \* what the Scanner is doing
  dirs,        \* queue of the Cleaner
  cleaner,     \* what the Cleaner is doing
  max_size, watermark,
  commands,    \* commands so far, for the bound
  running,
  rescanned,   \* history: a rescan was asked for since the last start
  unclear      \* history: at some start, a directory was as new as the one
               \* being written

environment == << disk, stats, mtime, clock, at, target >>

watcherVars == << watches, events, watching, watcher >>

tree == << children, size, age, freed >>

limits == << max_size, watermark >>

vars == << disk, stats, mtime, clock, at, target, watches, events, watching, watcher,
           children, size, age, active, freed, to_add, to_scan, scanner, dirs,
           cleaner, max_size, watermark, commands, running, rescanned, unclear >>

\* The first directory for data that writer w makes below p.
Completed(p, w) ==
  [i \in 1 .. LeafDepth |-> IF i <= Len(p) THEN p[i] ELSE IF Multiple /\ i = 1 THEN w ELSE 1]

Plus(a, b) == (a + b) % SizeWrap

Minus(a, b) == (a - b) % SizeWrap

Total(f, S) == MapThenSumSet(LAMBDA p : f[p], S)

\* dirSize, recursive
DiskUsage(p) == Total(disk, { q \in DOMAIN disk : IsBelow(q, p) })

\* The same when it is not forced, as without option -f: what stats.txt says,
\* if there is one.
Measured(p) == IF p \in DOMAIN stats THEN stats[p] ELSE DiskUsage(p)

\* dirSize writes stats.txt into the directories in noted; making the file
\* changes its directory, writing it again does not.
Noted(noted) == [p \in DOMAIN stats \cup DOMAIN noted |->
                   IF p \in DOMAIN noted THEN noted[p] ELSE stats[p]]

Touched(ps) == [p \in Paths |-> IF p \in ps THEN clock ELSE mtime[p]]

Note(noted) ==
  /\ stats' = Noted(noted)
  /\ mtime' = Touched(DOMAIN noted \ DOMAIN stats)

-----------------------------------------------------------------------------
(* The start of the daemon, the directories being last modified at times m *)
(* and o being the order of those of equal age: Scanner::createDirTree and *)
(* Watcher::setup.                                                         *)

Subdirs(p) ==
  { q \in DOMAIN disk : Len(p) < MaxDepth /\ q # Root /\ Front(q) = p }

\* A directory without subdirectories is as old as its last change, another
\* one as old as its oldest subdirectory.
StartAge(m, p) ==
  Min({ m[q] : q \in { x \in DOMAIN disk : IsBelow(x, p) /\ Subdirs(x) = {} } })

\* The elements of S in the order of before, a strict order on S.
Ordered(S, before(_, _)) ==
  [i \in 1 .. Cardinality(S) |->
     CHOOSE p \in S : Cardinality({ q \in S : before(q, p) }) = i - 1]

\* The orders in which readdir and std::sort may leave directories of equal
\* age: a rank for each name.
Orders == { o \in [1 .. MaxName -> 1 .. MaxName] : IsInjective(o) }

Older_NewestFirst(m, o, q, r) ==
  LET a == StartAge(m, q)
      b == StartAge(m, r)
  IN a > b \/ (a = b /\ o[Last(q)] < o[Last(r)])

Older(m, o, q, r) ==
  LET a == StartAge(m, q)
      b == StartAge(m, r)
  IN a < b \/ (a = b /\ o[Last(q)] < o[Last(r)])

\* The children of p, oldest first.
Found(m, o, p) == Ordered(Subdirs(p), LAMBDA q, r : Older(m, o, q, r))

StartRoots == IF Multiple THEN Subdirs(Root) ELSE {Root}

\* Watched below root r: the newest directory of the newest directory and so on.
Newest(m, o, r) ==
  Ordered({ p \in DOMAIN disk :
              /\ IsBelow(p, r) /\ Len(p) < MaxDepth
              /\ \A q \in (Ancestors(p) \cup {p}) \ (Ancestors(r) \cup {r}) :
                   \A s \in Subdirs(Front(q)) : ~Older(m, o, q, s) },
          LAMBDA p, q : Len(p) < Len(q))

\* The last of the watched ones is taken out of the tree when it has no
\* subdirectory.
Popped(ws) ==
  { p \in { Last(ws[r]) : r \in DOMAIN ws } \ DOMAIN ws : Subdirs(p) = {} }

\* The directories at the maximal depth are measured with all that is below,
\* of the ones above the files are counted.
Deepest == { p \in DOMAIN disk : Len(p) = MaxDepth }

StartSize(out, p) ==
  LET counted == { q \in DOMAIN disk : IsBelow(q, p) /\ (p \in out \/ q \notin out) }
  IN Total(disk, { q \in counted : Len(q) < MaxDepth })
     + MapThenSumSet(Measured, counted \cap Deepest)

\* The writers are at work, and what they have made last is the newest; the
\* daemon is not running.
Init ==
  /\ disk = StartDisk
  /\ stats = << >>
  /\ at = StartAt
  /\ target = [w \in Writers |-> Completed(StartAt[w], w)]
  /\ mtime = [p \in Paths |-> IF \E w \in Writers : IsBelow(at[w], p) THEN 1 ELSE 0]
  /\ clock = 2
  /\ running = FALSE
  /\ watching = << >>
  /\ watches = {}
  /\ active = {}
  /\ children = [p \in Paths |-> << >>]
  /\ size = [p \in Paths |-> 0]
  /\ age = [p \in Paths |-> 0]
  /\ events = << >>
  /\ watcher = [pc |-> "idle"]
  /\ freed = {}
  /\ to_add = << >>
  /\ to_scan = << >>
  /\ scanner = "top"
  /\ dirs = << >>
  /\ cleaner = "wait"
  /\ max_size = StartLimit
  /\ watermark = StartLimit
  /\ commands = 0
  /\ rescanned = FALSE
  /\ unclear = FALSE

RootOf(p) == IF Multiple THEN SubSeq(p, 1, 1) ELSE Root

\* Beside the directory that w is writing to is one as new as that.
AsNew(m, w) ==
  /\ at[w] = target[w]
  /\ \E p \in DOMAIN disk :
       ~IsBelow(at[w], p) /\ RootOf(p) = RootOf(at[w]) /\ m[p] >= m[at[w]]

\* main: the daemon is started.
Start ==
  /\ ~running
  /\ running' = TRUE
  /\ Note([p \in Deepest \ DOMAIN stats |-> DiskUsage(p)])
  /\ \E o \in Orders :
       /\ watching' = [r \in StartRoots |-> Newest(mtime', o, r)]
       /\ children' = [p \in Paths |->
                         SelectSeq(Found(mtime', o, p), LAMBDA q : q \notin Popped(watching'))]
  /\ active' = UNION { ToSet(watching'[r]) : r \in StartRoots } \cup {Root}
  /\ watches' = active'
  /\ size' = [p \in Paths |-> StartSize(Popped(watching'), p)]
  /\ age' = [p \in Paths |-> IF p \in DOMAIN disk THEN StartAge(mtime', p) ELSE 0]
  /\ unclear' = (unclear \/ \E w \in Writers : AsNew(mtime', w))
  /\ UNCHANGED << disk, clock, at, target, events, watcher, freed, to_add, to_scan, scanner,
                  dirs, cleaner, limits, commands, rescanned >>

-----------------------------------------------------------------------------
(* The writers of the data and inotify. *)

\* A second passes.
Tick ==
  /\ clock < MaxTime
  /\ clock' = clock + 1
  /\ UNCHANGED << disk, stats, mtime, at, target, watcherVars, tree, active, to_add, to_scan,
                  scanner, dirs, cleaner, limits, commands, running, rescanned, unclear >>

\* The writer begins a new directory for data, at some level the next number.
Rotate(w) ==
  /\ at[w] = target[w]
  /\ \E k \in (IF Multiple THEN 2 ELSE 1) .. LeafDepth :
       /\ at[w][k] < MaxName
       /\ at' = [at EXCEPT ![w] = SubSeq(@, 1, k - 1)]
       /\ target' = [target EXCEPT ![w] = Completed(Append(SubSeq(@, 1, k - 1), @[k] + 1), w)]
  /\ UNCHANGED << disk, stats, mtime, clock, watcherVars, tree, active, to_add, to_scan,
                  scanner, dirs, cleaner, limits, commands, running, rescanned, unclear >>

\* The next directory on the way to the target is made, the last one with
\* the data that will be in it.  Inotify reports it when its parent is watched.
Mkdir(w) ==
  LET new == SubSeq(target[w], 1, Len(at[w]) + 1)
  IN /\ at[w] # target[w] /\ at[w] \in DOMAIN disk
     /\ \E n \in IF new = target[w] THEN 1 .. MaxSize ELSE {0} :
          disk' = [p \in DOMAIN disk \cup {new} |-> IF p = new THEN n ELSE disk[p]]
     /\ mtime' = Touched({new, at[w]})
     /\ at' = [at EXCEPT ![w] = new]
     /\ events' = IF at[w] \in watches THEN Append(events, new) ELSE events
     /\ UNCHANGED << stats, clock, target, watches, watching, watcher, tree, active, to_add,
                     to_scan, scanner, dirs, cleaner, limits, commands, running, rescanned,
                     unclear >>

\* Another file is made in the directory being written, if it is there.
Write(w) ==
  /\ at[w] = target[w] /\ at[w] \in DOMAIN disk
  /\ mtime' = Touched({at[w]})
  /\ UNCHANGED << disk, stats, clock, at, target, watcherVars, tree, active, to_add, to_scan,
                  scanner, dirs, cleaner, limits, commands, running, rescanned, unclear >>

-----------------------------------------------------------------------------
(* Watcher.  A notification is lost unless the thread it is for already    *)
(* sleeps: the mutex given to wait() is the sleeper's own.                 *)

Notified(thread) == IF thread = "asleep" THEN "wait" ELSE thread

\* The watched directories that are still of interest when a directory is
\* made below p: the last of them is p, or the root of its subtree.
Kept(r, p) ==
  LET ws == watching[r]
      n  == Max({1} \cup { i \in DOMAIN ws : ws[i] = p })
  IN SubSeq(ws, 1, n)

\* processNewDir up to the call of addDir: a directory beside the watched
\* ones ends the watching of all that are not above it.
processNewDir(p) ==
  LET r    == RootOf(p)
      keep == Kept(r, Front(p))
      gone == ToSet(watching[r]) \ ToSet(keep)
      old  == Last(watching[r])
  IN IF r \notin DOMAIN watching
     THEN /\ watcher' = [pc |-> "add", new |-> p, added |-> p]
          /\ watching' = [q \in DOMAIN watching \cup {r} |->
                            IF q = r THEN << >> ELSE watching[q]]
          /\ active' = active \cup {p}
          /\ UNCHANGED watches
     ELSE /\ watching' = [watching EXCEPT ![r] = keep]
          /\ active' = (active \ gone) \cup {p}
          /\ watches' = watches \ gone
          /\ watcher' = [ pc |-> IF old = r THEN "watch" ELSE "add", new |-> p, added |-> old ]

GetEvent ==
  /\ running /\ watcher.pc = "idle" /\ events # << >>
  /\ events' = Tail(events)
  /\ IF Len(Head(events)) >= MaxDepth
     THEN UNCHANGED << watches, watching, watcher, active >>
     ELSE processNewDir(Head(events))
  /\ UNCHANGED << environment, tree, to_add, to_scan, scanner, dirs, cleaner, limits,
                  commands, running, rescanned, unclear >>

\* Scanner::addDir
addDir ==
  /\ running /\ watcher.pc = "add"
  /\ to_add' = Append(to_add, << watcher.added, Front(watcher.added) >>)
  /\ scanner' = Notified(scanner)
  /\ watcher' = [watcher EXCEPT !.pc = "watch"]
  /\ UNCHANGED << environment, watches, events, watching, tree, active, to_scan, dirs,
                  cleaner, limits, commands, running, rescanned, unclear >>

watch ==
  /\ running /\ watcher.pc = "watch"
  /\ watches' = watches \cup {watcher.new}
  /\ watching' = [watching EXCEPT ![RootOf(watcher.new)] = Append(@, watcher.new)]
  /\ watcher' = [pc |-> "idle"]
  /\ UNCHANGED << environment, events, tree, active, to_add, to_scan, scanner, dirs,
                  cleaner, limits, commands, running, rescanned, unclear >>

-----------------------------------------------------------------------------
(* Scanner *)

totalSize == size[Root]

InTree(p) == \A i \in 1 .. Len(p) : SubSeq(p, 1, i) \in ToSet(children[SubSeq(p, 1, i - 1)])

Leaves == { p \in Paths : InTree(p) /\ children[p] = << >> }

\* From r to the first child until there is none.
getOldestDir(r) ==
  CHOOSE p \in Leaves :
    /\ IsBelow(p, r)
    /\ \A i \in Len(r) + 1 .. Len(p) : SubSeq(p, 1, i) = Head(children[SubSeq(p, 1, i - 1)])

\* The directory to remove is the first of these: the oldest one, or with
\* several writers the oldest of each subtree, unless it is active.
getDirToRemove ==
  LET tops   == IF Multiple THEN children[Root] ELSE << Root >>
      oldest == [i \in DOMAIN tops |-> getOldestDir(tops[i])]
  IN SelectSeq(oldest, LAMBDA p : p \notin active)

\* updateAge for the directories above d, d's children being cs.
AgesAbove(d, cs) ==
  LET ofParent == IF cs[Front(d)] # << >> THEN age[Head(cs[Front(d)])] ELSE mtime[Front(d)]
      oldestOf(p) == IF SubSeq(d, 1, Len(p) + 1) = Head(cs[p]) THEN ofParent ELSE age[Head(cs[p])]
  IN [p \in Paths |-> IF d # Root /\ p = Front(d) THEN ofParent
                      ELSE IF p \in Ancestors(d) THEN oldestOf(p) ELSE age[p]]

sortChildren(cs, ages) ==
  IF Multiple
  THEN [cs EXCEPT ![Root] = SortSeq(@, LAMBDA p, q : ages[p] < ages[q])]
  ELSE cs

\* One round of the loop of removeDirs with directory d.
RemoveDir_KeepSize(d) ==
  LET cs == [children EXCEPT ![Front(d)] = Tail(@)]
  IN /\ dirs' = Append(dirs, d)
     /\ cleaner' = Notified(cleaner)
     /\ age' = AgesAbove(d, cs)
     /\ children' = sortChildren(cs, age')
     /\ freed' = freed \cup {d}
     /\ UNCHANGED << size, scanner >>

RemoveDir(d) ==
  LET cs == [children EXCEPT ![Front(d)] = Tail(@)]
  IN /\ dirs' = Append(dirs, d)
     /\ cleaner' = Notified(cleaner)
     /\ size' = [p \in Paths |-> IF p \in Ancestors(d) THEN Minus(size[p], size[d]) ELSE size[p]]
     /\ age' = AgesAbove(d, cs)
     /\ children' = sortChildren(cs, age')
     /\ freed' = freed \cup {d}
     /\ UNCHANGED scanner

Top ==
  /\ running /\ scanner = "top"
  /\ scanner' = IF totalSize > max_size THEN "remove" ELSE "wait"
  /\ UNCHANGED << environment, watcherVars, tree, active, to_add, to_scan, dirs, cleaner,
                  limits, commands, running, rescanned, unclear >>

removeDirs ==
  /\ running /\ scanner = "remove"
  /\ IF totalSize > watermark /\ getDirToRemove # << >>
     THEN RemoveDir(Head(getDirToRemove))
     ELSE scanner' = "wait" /\ UNCHANGED << tree, dirs, cleaner >>
  /\ UNCHANGED << environment, watcherVars, active, to_add, to_scan, limits, commands, running, rescanned, unclear >>

\* wait() finds its condition true, or finds it false, and then sleeps.
Wait ==
  /\ running /\ scanner = "wait"
  /\ scanner' = IF to_scan # << >> \/ to_add # << >> \/ totalSize > max_size
                THEN "add" ELSE "block"
  /\ UNCHANGED << environment, watcherVars, tree, active, to_add, to_scan, dirs, cleaner,
                  limits, commands, running, rescanned, unclear >>

Block ==
  /\ running /\ scanner = "block"
  /\ scanner' = "asleep"
  /\ UNCHANGED << environment, watcherVars, tree, active, to_add, to_scan, dirs, cleaner,
                  limits, commands, running, rescanned, unclear >>

\* What the directories above d grow by: the size of d and of the files of
\* those between that are no longer active.
Growth(d, p) ==
  Measured(d) + MapThenSumSet(LAMBDA q : IF q \in DOMAIN stats THEN stats[q] ELSE disk[q],
                              { q \in Ancestors(d) : IsBelow(q, p) /\ q \notin active })

\* One round of addNewDirs.
AddChild_First(d, parent) == [children EXCEPT ![parent] = << d >> \o @]

AddChild(d, parent) == [children EXCEPT ![parent] = Append(@, d)]

addNewDirs ==
  LET d == to_add[1][1]
  IN /\ running /\ scanner = "add"
     /\ IF to_add = << >>
        THEN scanner' = "scan" /\ UNCHANGED << children, age, size, to_add, stats, mtime >>
        ELSE /\ to_add' = Tail(to_add)
             /\ children' = AddChild(d, to_add[1][2])
             /\ IF d \in active THEN UNCHANGED << age, size, stats, mtime >>
                ELSE /\ age' = [age EXCEPT ![d] = mtime[d]]
                     /\ Note([p \in {d} |-> Measured(p)])
                     /\ size' = [p \in Paths |->
                          IF p = d THEN Measured(d)
                          ELSE IF p \in Ancestors(d) THEN Plus(size[p], Growth(d, p)) ELSE size[p]]
             /\ UNCHANGED scanner
     /\ UNCHANGED << disk, clock, at, target, watcherVars, active, freed, to_scan, dirs, cleaner,
                     limits, commands, running, rescanned, unclear >>

\* Directory::rescan: a directory without children is measured with all that
\* is below it, of one with children the files.
Scanned(p) == IF p \in Leaves THEN DiskUsage(p) ELSE disk[p]

\* The directories in the tree from p on.
TreeBelow(p) == { q \in Paths : InTree(q) /\ IsBelow(q, p) }

\* One round of rescanDirs; a path that is not in the tree is left alone, and
\* the sizes above the rescanned directory stay as they are.  Every directory
\* on the way gets a stats.txt with what was found in it.
rescanDirs ==
  LET path == Head(to_scan)
  IN /\ running /\ scanner = "scan"
     /\ IF to_scan = << >>
        THEN scanner' = "top" /\ UNCHANGED << size, to_scan, stats, mtime >>
        ELSE /\ to_scan' = Tail(to_scan)
             /\ IF path \in DOMAIN disk /\ InTree(path)
                THEN /\ size' = [p \in Paths |->
                          IF p \in TreeBelow(path) THEN MapThenSumSet(Scanned, TreeBelow(p))
                          ELSE size[p]]
                     /\ Note([p \in TreeBelow(path) |-> Scanned(p)])
                ELSE UNCHANGED << size, stats, mtime >>
             /\ UNCHANGED scanner
     /\ UNCHANGED << disk, clock, at, target, watcherVars, children, age, active, freed, to_add, dirs,
                     cleaner, limits, commands, running, rescanned, unclear >>

-----------------------------------------------------------------------------
(* Cleaner *)

\* Cleaner::remove of the next directory and all that is in it, or waiting
\* for one.
RemovePath ==
  LET path == Head(dirs)
  IN /\ running /\ cleaner = "wait"
     /\ IF dirs = << >>
        THEN cleaner' = "block" /\ UNCHANGED << dirs, disk, stats, mtime >>
        ELSE /\ dirs' = Tail(dirs)
             /\ disk' = [p \in { q \in DOMAIN disk : ~IsBelow(q, path) } |-> disk[p]]
             /\ stats' = [p \in { q \in DOMAIN stats : ~IsBelow(q, path) } |-> stats[p]]
             /\ mtime' = Touched({Front(path)})
             /\ UNCHANGED cleaner
     /\ UNCHANGED << clock, at, target, watcherVars, tree, active, to_add, to_scan, scanner,
                     limits, commands, running, rescanned, unclear >>

CleanerBlock ==
  /\ running /\ cleaner = "block"
  /\ cleaner' = "asleep"
  /\ UNCHANGED << environment, watcherVars, tree, active, to_add, to_scan, scanner, dirs,
                  limits, commands, running, rescanned, unclear >>

-----------------------------------------------------------------------------
(* PipeListener *)

Command ==
  /\ running /\ commands < MaxCommands
  /\ commands' = commands + 1
  /\ UNCHANGED << environment, watcherVars, tree, active, to_add, dirs, cleaner >>

setMaxSize(max) ==
  /\ Command
  /\ max_size' = max
  /\ watermark' = Min({watermark, max})
  /\ scanner' = Notified(scanner)
  /\ UNCHANGED << to_scan, running, rescanned, unclear >>

setWatermark(wm) ==
  /\ Command
  /\ watermark' = Min({wm, max_size})
  /\ UNCHANGED << max_size, to_scan, scanner, running, rescanned, unclear >>

rescan(path) ==
  /\ Command
  /\ to_scan' = Append(to_scan, path)
  /\ scanner' = Notified(scanner)
  /\ rescanned' = TRUE
  /\ UNCHANGED << limits, running, unclear >>

\* stopAll: Watcher::stop restores the default action of SIGINT and sends
\* the signal to its thread, which ends the process with all it remembers.
stopAll ==
  /\ running /\ commands < MaxCommands
  /\ commands' = commands + 1
  /\ running' = FALSE
  /\ watching' = << >>
  /\ watches' = {}
  /\ active' = {}
  /\ children' = [p \in Paths |-> << >>]
  /\ size' = [p \in Paths |-> 0]
  /\ age' = [p \in Paths |-> 0]
  /\ events' = << >>
  /\ watcher' = [pc |-> "idle"]
  /\ freed' = {}
  /\ to_add' = << >>
  /\ to_scan' = << >>
  /\ scanner' = "top"
  /\ dirs' = << >>
  /\ cleaner' = "wait"
  /\ max_size' = StartLimit
  /\ watermark' = StartLimit
  /\ rescanned' = FALSE
  /\ UNCHANGED << environment, unclear >>

Next ==
  \/ Tick \/ \E w \in Writers : Rotate(w) \/ Mkdir(w) \/ Write(w)
  \/ GetEvent \/ addDir \/ watch
  \/ Top \/ removeDirs \/ Wait \/ Block \/ addNewDirs \/ rescanDirs
  \/ RemovePath \/ CleanerBlock
  \/ \E n \in Limits : setMaxSize(n) \/ setWatermark(n)
  \/ \E p \in Rescans : rescan(p)
  \/ stopAll \/ Start

Spec == Init /\ [][Next]_vars

\* The scheduler runs every thread that can run.
FairSpec ==
  /\ Spec
  /\ WF_vars(GetEvent) /\ WF_vars(addDir) /\ WF_vars(watch)
  /\ WF_vars(Top \/ removeDirs \/ Wait \/ Block \/ addNewDirs \/ rescanDirs)
  /\ WF_vars(RemovePath \/ CleanerBlock)

-----------------------------------------------------------------------------
(* Properties *)

\* The directory a writer has made last, and may be writing to, is never
\* deleted (Scanner.cpp:153-176), whatever the Watcher has not seen yet, as
\* long as at every start of the daemon it was the newest.
WrittenDirsKept == ~unclear => \A w \in Writers : at[w] \in DOMAIN disk

\* The tree's sizes add up at every level, so that taking a directory away
\* never wraps a size around (Scanner.cpp:203).
SizesAddUp ==
  \A p \in Paths : InTree(p) => Total(size, ToSet(children[p])) <= size[p]

Idle ==
  running /\ events = << >> /\ watcher.pc = "idle" /\ to_add = << >> /\ to_scan = << >> /\ dirs = << >>

\* Once all threads have caught up, the directory being written is active
\* (Directory.h:108), also after a restart (Watcher.cpp:139-210).
ActiveWhileWritten ==
  Idle => \A w \in Writers : at[w] = target[w] => at[w] \in active

\* Once all threads have caught up, the Scanner's total is what is really on
\* the disk without the directories still being written, through any deleting
\* and restarting, as long as at every start of the daemon these were the
\* newest; a rescan may only make it larger.
DiskAccounted ==
  ~unclear /\ Idle /\ (\A w \in Writers : at[w] = target[w]) =>
    LET finished == { p \in DOMAIN disk : \A w \in Writers : ~IsBelow(at[w], p) }
    IN /\ totalSize >= Total(disk, finished)
       /\ ~rescanned => totalSize = Total(disk, finished)

\* Directories go from the oldest: none that is removed with data in it is
\* younger than one that stays in the tree and could have been removed.
OldestRemovedFirst ==
  [][ Len(dirs') > Len(dirs) /\ size[Last(dirs')] > 0 =>
        \A p \in Leaves \ active : size[p] > 0 => age[Last(dirs')] <= age[p] ]_vars

\* A directory is in the tree once.
InTreeOnce == \A p \in Paths : IsInjective(children[p])

\* A directory handed to the Scanner is added in the end (Scanner.cpp:307-314).
RequestsHandled == to_add # << >> ~> to_add = << >> \/ ~running

\* A directory is added below an object that is still there.
ParentsAlive ==
  \A i \in DOMAIN to_add : to_add[i][2] \notin freed

====
