----------------------------- MODULE FsOperate -----------------------------
(***************************************************************************)
(* `ttfm tag` with path, parentdir, filename or mtime: an edit that moves  *)
(* files or sets their times.  plan_fs() computes every target and checks  *)
(* it, confirm_with_prompt() asks how to settle conflicts and hard links,  *)
(* apply() carries the moves out one by one, rebind() and a run of the     *)
(* indexer bring the index up to date, and only then are tags written.     *)
(*                                                                         *)
(* A path is a sequence of names from the root down.  An entry of the file *)
(* system is a record [ino, what, dir]: its file_id, the item whose        *)
(* contents it has (0 for a directory made and for a file of somebody      *)
(* else) and whether it is a directory.  Two paths of one ino are links.   *)
(***************************************************************************)
EXTENDS Integers, FiniteSets, Sequences, SequencesExt

CONSTANTS
    Items,          \* the items of the index: numbers, which are their inos
    Tree,           \* path -> entry: the indexed files at the start
    FirstIno,       \* the file_id of the first file made after it
    Mounts,         \* names at the root that are on a device of their own
    SerialNames,    \* name -> the names serial suffixes make of it, in order
    Requests,       \* bound: the edits given, sequences of [item, nodes]
    Nested,         \* may a move go through another move's directories?
    DirCopies,      \* may a directory that is not empty change its device?
    MaxTyped,       \* bound: numbers typed to choose among the links of an item
    AlienPaths,     \* bound: where a program outside may create a file
    MaxAliens,      \* bound: how often it does
    MaxFaults,      \* bound: copies that stop before the source is deleted
    MaxCrashes,     \* bound: processes killed
    MaxCommands     \* bound: edits begun

\* The names that a file can have, and the paths made of them.
Names == DOMAIN SerialNames
Paths == Seq(Names) \ {<<>>}

Entries == [ino : Nat, what : Nat, dir : BOOLEAN]

\* A file system: what is above an entry are directories.
IsTree(t) ==
    /\ IsFiniteSet(DOMAIN t) /\ t \in [DOMAIN t -> Entries]
    /\ DOMAIN t \subseteq Paths
    /\ \A p \in DOMAIN t : \A n \in 1 .. Len(p) - 1 :
          SubSeq(p, 1, n) \in DOMAIN t /\ t[SubSeq(p, 1, n)].dir

Nodes == [kind : {"path"}, path : Paths] \cup [kind : {"parentdir"}, path : Paths]
         \cup [kind : {"filename"}, name : Names] \cup [kind : {"mtime"}]

ASSUME TreeAssumption ==
    /\ Items \subseteq Nat \ {0} /\ IsFiniteSet(Items)
    /\ IsTree(Tree) /\ FirstIno \in Nat
    /\ \A p \in DOMAIN Tree :
          /\ Tree[p].what \in Items \cup {0} /\ Tree[p].ino < FirstIno
          /\ \A i \in Items : Tree[p].what = i <=> Tree[p].ino = i
    /\ \A i \in Items : \E p \in DOMAIN Tree : Tree[p].what = i

ASSUME NamesAssumption ==
    /\ SerialNames \in [Names -> Seq(Names)]
    /\ AlienPaths \subseteq Paths
    /\ \A r \in Requests :
          /\ r.edits \in Seq([item : Items, nodes : Seq(Nodes)])
          /\ \A k, l \in DOMAIN r.edits :
                k # l => r.edits[k].item # r.edits[l].item

ASSUME TypedAssumption == MaxTyped \in Nat

VARIABLES
    fs,             \* path -> entry
    refs,           \* file_references: item -> its file_id
    locations,      \* rows [path, item]
    tagged,         \* items that were given the tags of an edit
    job,            \* the edit that runs
    nextIno,        \* the file_id of the next file made
    asked, aliens, faults, crashes,     \* bounds
    (* history, never read by the code *)
    disturbed,      \* an alien file or a fault since this edit was planned
    stranded        \* a process was killed: the index waits for a run

index == <<refs, locations>>
bounds == <<asked, aliens, faults, crashes>>
history == <<disturbed, stranded>>
vars == <<fs, index, tagged, job, nextIno, bounds, history>>

Idle == [phase |-> "idle"]

Exists(p) == p = <<>> \/ p \in DOMAIN fs
IsDir(p) == p = <<>> \/ (p \in DOMAIN fs /\ fs[p].dir)
Parent(p) == Front(p)
Below(d) == {p \in DOMAIN fs : IsStrictPrefix(d, p)}
Device(p) == IF p # <<>> /\ p[1] \in Mounts THEN p[1] ELSE "root"

\* The item of a file the index has not seen.
NewItem(ino) == FirstIno + ino

----------------------------------------------------------------------------
(* plan_fs *)

PathsOf(i) == {l.path : l \in {k \in locations : k.item = i}}

IsRelocate(n) == n.kind # "mtime"
Relocates(nodes) == \E n \in ToSet(nodes) : IsRelocate(n)
SetsAttr(nodes) == \E n \in ToSet(nodes) : ~IsRelocate(n)

\* apply_node: stem and extension are one name here.
ApplyNode(p, n) ==
    CASE n.kind = "path" -> n.path
      [] n.kind = "parentdir" -> Append(n.path, Last(p))
      [] n.kind = "filename" -> Append(Parent(p), n.name)
      [] OTHER -> p
Target(from, nodes) ==
    LET after[k \in 0 .. Len(nodes)] ==
          IF k = 0 THEN from ELSE ApplyNode(after[k - 1], nodes[k])
    IN  after[Len(nodes)]

\* check_location_tag: each component of the path is set once.
ComponentsOf(n) ==
    CASE n.kind = "path" -> {"parentdir", "filename"}
      [] n.kind \in {"parentdir", "filename"} -> {n.kind}
      [] OTHER -> {}
CheckLocationTag(nodes) ==
    \A k, l \in DOMAIN nodes :
        k # l => ComponentsOf(nodes[k]) \cap ComponentsOf(nodes[l]) = {}

Moves(i, from, nodes) ==
    LET to == Target(from, nodes)
    IN  IF to = from THEN <<>>
        ELSE <<[item |-> i, from |-> from, to |-> to,
                crossed |-> Device(from) # Device(to)]>>

\* verify: SourceMissing, TargetNotWritable.  A path with a file where the
\* parent should be is not writable; further up it is not looked at.
Fatal(from, nodes) ==
    LET to == Target(from, nodes)
    IN  \/ ~Exists(from)
        \/ to # from /\ Exists(Parent(to)) /\ ~IsDir(Parent(to))

HasLinks(i, nodes) == Cardinality(PathsOf(i)) > 1 /\ Relocates(nodes)

\* The path of an item that is acted on where it has several and stays there.
Place(i) == CHOOSE p \in PathsOf(i) : TRUE

\* The moves of an item with one path; those of the links of an item with
\* several are one sequence of candidates, if there are any.
PlannedMoves(e) ==
    IF PathsOf(e.item) = {} \/ HasLinks(e.item, e.nodes) THEN <<>>
    ELSE Moves(e.item, Place(e.item), e.nodes)
Candidates(e) ==
    LET paths == SetToSeq(PathsOf(e.item))
        moves == FlattenSeq([k \in DOMAIN paths |->
                                Moves(e.item, paths[k], e.nodes)])
    IN  IF HasLinks(e.item, e.nodes) /\ moves # <<>> THEN <<moves>> ELSE <<>>

\* An edit that moves an item of several paths drops its file attributes.
PlannedAttrs(e) ==
    IF SetsAttr(e.nodes) /\ PathsOf(e.item) # {} /\ ~HasLinks(e.item, e.nodes)
    THEN <<[item |-> e.item, from |-> Place(e.item)]>> ELSE <<>>

IssueFor(e) ==
    \/ PathsOf(e.item) = {} /\ ~Relocates(e.nodes)          \* NoLocation
    \/ /\ PathsOf(e.item) # {}
       /\ \E p \in IF HasLinks(e.item, e.nodes) THEN PathsOf(e.item)
                   ELSE {Place(e.item)} : Fatal(p, e.nodes)

Each(Op(_), edits) == FlattenSeq([k \in DOMAIN edits |-> Op(edits[k])])

\* classify_targets: TargetInsideSource and ChainedMove end the edit.
ClassifyTargets(moves) ==
    \A m \in ToSet(moves) :
        /\ ~IsPrefix(m.from, m.to)
        /\ \A o \in ToSet(moves) : o.from # m.to

\* Something in a directory that is moved has a move or an attribute of its
\* own, or is moved into such a directory, at its old place or its new one.
Overlap(moves, attrs) ==
    \E o \in ToSet(moves) :
        \/ \E m \in ToSet(moves) : \/ IsStrictPrefix(o.from, m.from)
                                   \/ IsStrictPrefix(o.from, m.to)
                                   \/ IsStrictPrefix(o.to, m.to)
        \/ \E a \in ToSet(attrs) : IsStrictPrefix(o.from, a.from)

\* Mutant: no directory is asked for.
MissingNone(moves) == {}

\* The parents that mkdirs names.
Missing(moves) ==
    {Parent(m.to) : m \in {k \in ToSet(moves) : ~Exists(Parent(k.to))}}

\* The edit, until confirm_with_prompt is reached.
Plan(r) ==
    LET moves == Each(PlannedMoves, r.edits)
        links == Each(Candidates, r.edits)
    IN  /\ job = Idle
        /\ \A k \in DOMAIN r.edits :
              CheckLocationTag(r.edits[k].nodes) /\ ~IssueFor(r.edits[k])
        /\ ClassifyTargets(moves)
        /\ Nested \/ ~Overlap(moves \o FlattenSeq(links), Each(PlannedAttrs, r.edits))
        /\ job' = [phase |-> "confirm", moves |-> moves, links |-> links,
                   attrs |-> Each(PlannedAttrs, r.edits),
                   mkdirs |-> Missing(moves), next |-> 1,
                   tagging |-> IF r.tags THEN {e.item : e \in ToSet(r.edits)}
                               ELSE {},
                   scope |-> r.scope, skipped |-> {},
                   moved |-> <<>>, attrsSet |-> {}, failed |-> FALSE]
        /\ asked' = asked + 1
        /\ disturbed' = FALSE
        /\ UNCHANGED <<fs, index, tagged, nextIno, aliens, faults, crashes,
                       stranded>>

----------------------------------------------------------------------------
(* confirm_with_prompt.  A policy gives all questions one answer, a user   *)
(* any; what a policy may do, a user may.                                  *)

\* ask_hardlink_resolution: none of the moves of an item's links (it is skipped),
\* all of them, or numbers as they are typed, in any order and as often.
Typed(moves) == SeqOf(DOMAIN moves, MaxTyped) \cup {[n \in DOMAIN moves |-> n]}
\* resolve_hardlinks
LinkChoices ==
    {c \in [DOMAIN job.links -> UNION {Typed(s) : s \in ToSet(job.links)}] :
        \A k \in DOMAIN c : c[k] \in Typed(job.links[k])}
Picked(moves, ns) == [n \in DOMAIN ns |-> moves[ns[n]]]
ChosenMoves(choice) ==
    FlattenSeq([k \in DOMAIN job.links |-> Picked(job.links[k], choice[k])])
LinksSkipped(choice) ==
    {job.links[k][1].item : k \in {l \in DOMAIN job.links : choice[l] = <<>>}}

\* next_serial_path
SerialPaths(to, reserved) ==
    LET names == SerialNames[Last(to)]
        At(n) == Append(Parent(to), names[n])
        Free(n) == ~Exists(At(n)) /\ At(n) \notin reserved
    IN  {At(n) : n \in {k \in DOMAIN names :
                           Free(k) /\ \A l \in 1 .. k - 1 : ~Free(l)}}

\* Mutant: a target that another move of the edit has taken is not noticed.
ConflictsExistingOnly(to, reserved) == Exists(to)

Conflicts(to, reserved) == Exists(to) \/ to \in reserved

\* resolve_conflicts.  "skip" and "serial" are the answers that do not abort.
Settled(acc, m, answer) ==
    LET serial == SerialPaths(m.to, acc.reserved)
        With(to) == [acc EXCEPT !.moves = Append(@, [m EXCEPT !.to = to]),
                                !.reserved = @ \cup {to}]
    IN  IF ~Conflicts(m.to, acc.reserved) THEN With(m.to)
        ELSE IF answer = "skip" THEN [acc EXCEPT !.skipped = @ \cup {m.item}]
        ELSE IF serial = {} THEN [acc EXCEPT !.bound = TRUE]
        ELSE With(CHOOSE to \in serial : TRUE)
ResolveConflicts(moves, answer) ==
    LET after[k \in 0 .. Len(moves)] ==
          IF k = 0 THEN [moves |-> <<>>, reserved |-> {}, skipped |-> {},
                         bound |-> FALSE]
          ELSE Settled(after[k - 1], moves[k], answer[k])
    IN  after[Len(moves)]

\* Everything is settled and the user agrees.
Confirm(choice, answer) ==
    LET moves == job.moves \o ChosenMoves(choice)
        resolved == ResolveConflicts(moves, answer)
        skipped == LinksSkipped(choice) \cup resolved.skipped
    IN  /\ job.phase = "confirm"
        /\ DOMAIN answer = DOMAIN moves
        /\ ~resolved.bound
        /\ Nested \/ ~Overlap(resolved.moves, job.attrs)
        /\ DirCopies \/ \A m \in ToSet(resolved.moves) :
                           m.crossed => Below(m.from) = {}
        /\ job' = [job EXCEPT
              !.phase = "mkdir", !.moves = resolved.moves,
              !.mkdirs = @ \cup Missing(moves),
              !.skipped = skipped,
              !.tagging = IF job.scope = "item" THEN @ \ skipped ELSE @]
        /\ UNCHANGED <<fs, index, tagged, nextIno, bounds, history>>

\* The user declines, or a question is answered with abort.
Decline ==
    /\ job.phase = "confirm"
    /\ job' = Idle
    /\ UNCHANGED <<fs, index, tagged, nextIno, bounds, history>>

----------------------------------------------------------------------------
(* apply *)

NewDir(ino) == [ino |-> ino, what |-> 0, dir |-> TRUE]

\* create_dir_all of every missing directory.  A file in its way is an error,
\* and nothing has been moved yet.
Mkdirs ==
    LET wanted == {p \in UNION {{SubSeq(d, 1, n) : n \in 1 .. Len(d)} :
                                   d \in job.mkdirs} : ~Exists(p)}
        order == SetToSeq(wanted)
        blocked == \E d \in job.mkdirs :
                      \E n \in 1 .. Len(d) : Exists(SubSeq(d, 1, n))
                                             /\ ~IsDir(SubSeq(d, 1, n))
    IN  /\ job.phase = "mkdir"
        /\ IF blocked
           THEN job' = Idle /\ UNCHANGED <<fs, nextIno>>
           ELSE /\ fs' = [p \in DOMAIN fs \cup wanted |->
                            IF p \in DOMAIN fs THEN fs[p]
                            ELSE NewDir(nextIno - 1 +
                                   CHOOSE k \in DOMAIN order : order[k] = p)]
                /\ nextIno' = nextIno + Cardinality(wanted)
                /\ job' = [job EXCEPT !.phase = "move"]
        /\ UNCHANGED <<index, tagged, bounds, history>>

\* Path p, moved along when `from` goes to `to`.
Moved(p, from, to) == to \o SubSeq(p, Len(from) + 1, Len(p))

\* rename(2): replaces a file by a file and an empty directory by a directory.
CanRename(from, to) ==
    /\ Exists(from) /\ Exists(Parent(to)) /\ IsDir(Parent(to))
    /\ ~IsPrefix(from, to)
    /\ Exists(to) => /\ IsDir(from) <=> IsDir(to)
                     /\ IsDir(to) => Below(to) = {}
Renamed(from, to) ==
    LET going == Below(from) \cup {from}
        stay == DOMAIN fs \ (going \cup {to})
        Source(q) == Moved(q, to, from)
    IN  [q \in stay \cup {Moved(p, from, to) : p \in going} |->
            IF q \in stay THEN fs[q] ELSE fs[Source(q)]]

\* copy_and_delete writes into what is at the target already; a new file or
\* directory has a file_id of its own.
CanCopy(from, to) ==
    LET clash(p) == LET q == Moved(p, from, to)
                    IN  Exists(q) /\ (IsDir(p) # IsDir(q))
    IN  /\ Exists(from) /\ Exists(Parent(to)) /\ IsDir(Parent(to))
        /\ \A p \in Below(from) \cup {from} : ~clash(p)
Copied(from, to) ==
    LET going == Below(from) \cup {from}
        order == SetToSeq(going)
        targets == {Moved(p, from, to) : p \in going}
        Source(q) == Moved(q, to, from)
        written == {fs[q].ino : q \in {t \in targets : Exists(t)}}
        Over(q) == CHOOSE t \in targets : Exists(t) /\ fs[t].ino = fs[q].ino
    IN  [q \in DOMAIN fs \cup targets |->
            IF q \in targets \ DOMAIN fs
            THEN [fs[Source(q)] EXCEPT
                    !.ino = nextIno - 1
                            + CHOOSE k \in DOMAIN order : order[k] = Source(q)]
            ELSE IF fs[q].ino \in written
                 THEN [fs[q] EXCEPT !.what = fs[Source(Over(q))].what]
            ELSE fs[q]]
Deleted(tree, from) ==
    [q \in {p \in DOMAIN tree : ~IsPrefix(from, p)} |-> tree[q]]

\* Mutant: the failure is passed over.
AbortPassedOver(j) == [j EXCEPT !.next = @ + 1]

\* abort: what has been done is indexed, unless nothing has.
Abort(j) ==
    IF j.moved = <<>> /\ j.attrsSet = {} THEN Idle
    ELSE [j EXCEPT !.phase = "rebind", !.failed = TRUE]

NextMove == job.moves[job.next]
MovesLeft == job.phase = "move" /\ job.next <= Len(job.moves)

Advance ==
    job' = [job EXCEPT !.next = @ + 1,
                       !.moved = Append(@, [item |-> NextMove.item,
                                            to |-> NextMove.to,
                                            crossed |-> NextMove.crossed])]

Rename ==
    /\ MovesLeft /\ ~NextMove.crossed
    /\ IF CanRename(NextMove.from, NextMove.to)
       THEN fs' = Renamed(NextMove.from, NextMove.to) /\ Advance
       ELSE job' = Abort(job) /\ UNCHANGED fs
    /\ UNCHANGED <<index, tagged, nextIno, bounds, history>>

CopyAndDelete ==
    LET m == NextMove
        made == Cardinality(Below(m.from)) + 1
    IN  /\ MovesLeft /\ m.crossed
        /\ IF CanCopy(m.from, m.to)
           THEN /\ fs' = Deleted(Copied(m.from, m.to), m.from)
                /\ nextIno' = nextIno + made
                /\ Advance
           ELSE job' = Abort(job) /\ UNCHANGED <<fs, nextIno>>
        /\ UNCHANGED <<index, tagged, bounds, history>>

\* The copy is there and something fails before the source is deleted.
CopyFails ==
    LET m == NextMove
    IN  /\ MovesLeft /\ m.crossed /\ CanCopy(m.from, m.to)
        /\ faults < MaxFaults
        /\ faults' = faults + 1 /\ disturbed' = TRUE
        /\ fs' = Copied(m.from, m.to)
        /\ nextIno' = nextIno + Cardinality(Below(m.from)) + 1
        /\ job' = Abort(job)
        /\ UNCHANGED <<index, tagged, asked, aliens, crashes, stranded>>

\* FsOutcome::target_of
TargetOf(i) ==
    LET k == SelectInSeq(job.moved, LAMBDA m : m.item = i)
    IN  IF k = 0 THEN <<>> ELSE <<job.moved[k].to>>

\* The attributes of every planned item are set, the skipped ones included.
SetAttrs ==
    LET At(a) == IF TargetOf(a.item) = <<>> THEN a.from ELSE TargetOf(a.item)[1]
        bad == SelectInSeq(job.attrs, LAMBDA a : ~Exists(At(a)))
        done == IF bad = 0 THEN job.attrs ELSE SubSeq(job.attrs, 1, bad - 1)
        j == [job EXCEPT !.attrsSet = {At(a) : a \in ToSet(done)}]
    IN  /\ job.phase = "move" /\ job.next > Len(job.moves)
        /\ job' = IF bad # 0 THEN Abort(j)
                  ELSE IF j.moved = <<>> /\ j.attrsSet = {}
                       THEN [j EXCEPT !.phase = "tags"]
                  ELSE [j EXCEPT !.phase = "rebind"]
        /\ UNCHANGED <<fs, index, tagged, nextIno, bounds, history>>

----------------------------------------------------------------------------
(* reindex *)

\* Mutant: the new file is not looked up.
RebindNothing == refs

\* The CASE of rebind() takes the first row of an item.
Rebound ==
    [i \in DOMAIN refs |->
        LET k == SelectInSeq(job.moved, LAMBDA m : m.crossed /\ m.item = i)
        IN  IF k = 0 THEN refs[i] ELSE fs[job.moved[k].to].ino]

\* rebind: a target that is not there any more is an error.
Rebind ==
    /\ job.phase = "rebind"
    /\ IF \A m \in ToSet(job.moved) : m.crossed => Exists(m.to)
       THEN refs' = Rebound /\ job' = [job EXCEPT !.phase = "reindex"]
       ELSE job' = Idle /\ UNCHANGED refs
    /\ UNCHANGED <<fs, locations, tagged, nextIno, bounds, history>>

\* Mutant: only the directories that files were moved to are touched.
TouchedDirsTo ==
    {Parent(m.to) : m \in ToSet(job.moved)} \cup {Parent(p) : p \in job.attrsSet}

\* touched_dirs
TouchedDirs ==
    {Parent(m.to) : m \in ToSet(job.moved)}
    \cup {Parent(m.from) : m \in ToSet(job.moves)}
    \cup {Parent(p) : p \in job.attrsSet}

\* Indexer::run over dirs with no file changing: what is found is an item by
\* its file_id or a new one, and an item of which nothing is left goes.
IdOf(ino) ==
    LET known == {i \in DOMAIN refs : refs[i] = ino}
    IN  IF known = {} THEN NewItem(ino)
        ELSE CHOOSE i \in known : \A k \in known : i <= k

Indexed(dirs) ==
    LET InScope(p) == \E d \in dirs : IsPrefix(d, p)
    IN  {[path |-> p, item |-> IdOf(fs[p].ino)] :
            p \in {q \in DOMAIN fs : InScope(q)}}
        \cup {l \in locations : ~InScope(l.path)}

\* The tables after it.
Index(dirs) ==
    LET found == Indexed(dirs)
        ids == {l.item : l \in found}
        InoOf(i) == fs[(CHOOSE l \in found : l.item = i).path].ino
    IN  /\ locations' = found
        /\ refs' = [i \in ids |-> IF i \in DOMAIN refs THEN refs[i]
                                  ELSE InoOf(i)]

Reindex ==
    /\ job.phase = "reindex"
    /\ Index(TouchedDirs)
    /\ job' = IF job.failed THEN Idle ELSE [job EXCEPT !.phase = "tags"]
    /\ UNCHANGED <<fs, tagged, nextIno, bounds, history>>

\* write_and_refresh, which EditWrite describes.
WriteTags ==
    /\ job.phase = "tags"
    /\ tagged' = tagged \cup job.tagging
    /\ job' = Idle
    /\ UNCHANGED <<fs, index, nextIno, bounds, history>>

\* The process is killed.
Crash ==
    /\ job # Idle /\ crashes < MaxCrashes
    /\ crashes' = crashes + 1 /\ stranded' = TRUE
    /\ job' = Idle
    /\ UNCHANGED <<fs, index, tagged, nextIno, asked, aliens, faults, disturbed>>

\* Another program creates a file.
Appear(p) ==
    /\ aliens < MaxAliens /\ ~Exists(p) /\ IsDir(Parent(p))
    /\ aliens' = aliens + 1 /\ disturbed' = TRUE
    /\ fs' = [q \in DOMAIN fs \cup {p} |->
                IF q = p THEN [ino |-> nextIno, what |-> 0, dir |-> FALSE]
                ELSE fs[q]]
    /\ nextIno' = nextIno + 1
    /\ UNCHANGED <<index, tagged, job, asked, faults, crashes, stranded>>

----------------------------------------------------------------------------
Init ==
    /\ fs = Tree
    /\ refs = [i \in Items |-> i]
    /\ locations = {[path |-> p, item |-> Tree[p].what] :
                       p \in {q \in DOMAIN Tree : Tree[q].what \in Items}}
    /\ tagged = {} /\ job = Idle
    /\ nextIno = FirstIno
    /\ asked = 0 /\ aliens = 0 /\ faults = 0 /\ crashes = 0
    /\ disturbed = FALSE /\ stranded = FALSE

Answered ==
    \E choice \in LinkChoices :
       \E answer \in [1 .. Len(job.moves \o ChosenMoves(choice))
                         -> {"skip", "serial"}] :
          Confirm(choice, answer)

Next ==
    \/ asked < MaxCommands /\ \E r \in Requests : Plan(r)
    \/ job.phase = "confirm" /\ Answered
    \/ Decline \/ Mkdirs
    \/ Rename \/ CopyAndDelete \/ CopyFails
    \/ SetAttrs \/ Rebind \/ Reindex \/ WriteTags
    \/ Crash
    \/ \E p \in AlienPaths : Appear(p)

Spec == Init /\ [][Next]_vars

----------------------------------------------------------------------------
(* Properties. *)

\* No edit loses a file: whatever stops it and whatever appears meanwhile, the
\* contents of each item are somewhere (EDIT.md 7.1, 7.2).
FilesKept ==
    \A i \in Items : \E p \in DOMAIN fs : fs[p].what = i

\* Two moves of one path, which only the numbers of links can ask for.
MovedTwice(moves) ==
    \E k, l \in DOMAIN moves : k # l /\ moves[k].from = moves[l].from

\* Once an edit has ended by itself, every path in the index is of the file
\* that the index takes it for.  (A link left behind when another one was copied
\* to a different device stays with the item, though it is another file now.)
IndexFollowsFiles ==
    job = Idle /\ ~stranded =>
        \A l \in locations :
            /\ l.path \in DOMAIN fs
            /\ l.item \in {IdOf(fs[l.path].ino), fs[l.path].what}

\* Once an edit has ended by itself, each item still stands for its contents,
\* whether they were moved, copied to another device, or left (EDIT.md 7.5).
IdentityKept ==
    job = Idle /\ ~stranded =>
        \A i \in Items : \E l \in locations :
            l.item = i /\ l.path \in DOMAIN fs /\ fs[l.path].what = i

\* A plan that was confirmed does not fail after part of it is done, unless
\* another program interferes, a copy fails (EDIT.md 7.1), or the user typed the
\* number of a link twice: its second move finds the source gone.
NoPartialFailure ==
    job # Idle => (job.failed => disturbed \/ MovedTwice(job.moves))

\* Tags are written when all the files of the edit are in place and the index
\* has each of them, and has each item at one of its new paths.
TagsFollowFiles ==
    [][tagged' # tagged =>
         \A m \in ToSet(job.moves) :
            /\ \E l \in locations : l.path = m.to
            /\ \E o \in ToSet(job.moves) :
                  o.item = m.item /\ [path |-> o.to, item |-> m.item] \in locations
      ]_vars
=============================================================================
