----------------------------- MODULE EditWrite -----------------------------
(***************************************************************************)
(* `ttfm tag`, `ttfm untag` and `ttfm note`: an edit is planned from what  *)
(* a search finds, ids are drawn for what is not stored yet, and the       *)
(* tables are saved one after the other, each by a COPY of the changed     *)
(* table to <table>.tmp and a rename.  Every process uses the same .tmp    *)
(* names and none takes a lock.                                            *)
(*                                                                         *)
(* A row of user_tags is a record [item, type, col, text]: col is the one  *)
(* column of label_str and label_int that is not NULL.  Equal rows are     *)
(* one here, as every query of the code treats them alike; item_references *)
(* counts them, as a row of it is an item.                                 *)
(***************************************************************************)
EXTENDS Integers, FiniteSets, Sequences, SequencesExt

CONSTANTS
    Clients,        \* processes that edit
    UserIds,        \* ids 0, 1, ... of the User block: bounds the new items
    FileIds,        \* items of the File block, in the index from the start
    BuiltinIds,     \* fixed ids of built-in types
    BuiltinName,    \* [BuiltinIds -> the type]
    UserTypes,      \* types a user made up
    ReplaceTypes,   \* those of them with strategy:replace
    Notes,          \* contents of notes
    Texts,          \* labels a user may write
    Numerals,       \* those of them that read as an integer
    MixedColumns,   \* may one command write a type in two columns?
    MaxSelected,    \* bound: items a search finds
    TagQueries,     \* bound: the edit queries given, sequences of TagNodes
    UntagQueries,   \* and of UntagNodes
    MaxCommands,    \* bound: commands begun
    MaxCrashes      \* bound: processes killed

Ids == UserIds \cup FileIds \cup BuiltinIds

ASSUME BlockAssumption ==
    /\ Ids \subseteq Int
    /\ UserIds \cap FileIds = {} /\ UserIds \cap BuiltinIds = {}
    /\ FileIds \cap BuiltinIds = {}
    /\ IsFiniteSet(UserIds) /\ UserIds # {}

BuiltinTypes == {BuiltinName[b] : b \in BuiltinIds}

ASSUME TypesAssumption ==
    /\ ReplaceTypes \subseteq UserTypes /\ IsFiniteSet(UserTypes)
    /\ BuiltinTypes \cap UserTypes = {} /\ Notes \cap UserTypes = {}
    /\ {"name", "bitical_type", "none"} \cap UserTypes = {}
DefinedTypes == UserTypes \cup BuiltinTypes
Contents == DefinedTypes \cup Notes

Columns == {"string", "integer"}
AnyColumn == "any"                  \* of `untag type:`, which names no value
TagTypes == UserTypes \cup {"name", "bitical_type"}
AllTexts == Texts \cup Columns \cup Contents

Tag == [type : TagTypes, col : Columns, text : AllTexts]
Row == [item : Ids, type : TagTypes, col : Columns, text : AllTexts]
RefRow == [id : UserIds, content : UserTypes \cup Notes]
          \cup {[id |-> b, content |-> BuiltinName[b]] : b \in BuiltinIds}
AnyOf == [type : TagTypes, col : {AnyColumn}, text : {AnyColumn}]

FileTables == <<"file_references", "locations", "base_tags", "removed_files">>

NoTable == [none |-> TRUE]
NoCast == [type |-> "none", col |-> "none"]

VARIABLES
    itemRefs,       \* RefRow -> how many such rows item_references has
    userTags,       \* the rows of user_tags
    files,          \* name of a file table -> the items it has rows of
    tmp,            \* what the .tmp of a table holds: <<>> or <<the table>>
    job,            \* Clients -> the command it runs
    asked, crashes, \* bounds
    (* history, never read by the code *)
    before,         \* Clients -> <<the tables before its first save>>
    request,        \* Clients -> what its user typed
    torn,           \* ids whose deletion stopped before the tags went
    cut             \* ids whose deletion ever did, repeated or not

tables == <<itemRefs, userTags, files>>
history == <<before, request, torn, cut>>
vars == <<tables, tmp, job, asked, crashes, history>>

Idle == [phase |-> "idle"]
NoRequest == [kind |-> "none"]

Running(c) == job[c] # Idle

Stored(refs, i) == \E r \in RefRow : r.id = i /\ refs[r] > 0
ContentsOf(refs, i) == {r.content : r \in {q \in RefRow : q.id = i /\ refs[q] > 0}}
AllContents(found) == UNION {ContentsOf(itemRefs, i) : i \in found}
IsTypeItem(refs, i) ==
    i \in BuiltinIds \/ ContentsOf(refs, i) \cap UserTypes # {}

AsRow(i, t) == [item |-> i, type |-> t.type, col |-> t.col, text |-> t.text]
AsTag(r) == [type |-> r.type, col |-> r.col, text |-> r.text]

\* What can be found: whatever has a row in some table, and built-in types.
Findable ==
    {i \in Ids : \/ i \in BuiltinIds \/ Stored(itemRefs, i)
                 \/ \E t \in DOMAIN files : i \in files[t]
                 \/ \E r \in userTags : r.item = i}

\* Mutant: a definition is made whether there is one or not.
VolatileAlways(content) == content \in UserTypes

\* A type or a tag without a stored definition is found as a Volatile item.
Volatile(content) ==
    content \in UserTypes /\ \A r \in RefRow : r.content = content => itemRefs[r] = 0

----------------------------------------------------------------------------
(* Type configurations. *)

\* load_type_registry: what the definition item of the type says (of two rows
\* either may be read last), or else the first column with a label in it.
BiticalType(t) ==
    LET explicit == {r.text : r \in {q \in userTags :
                        q.type = "bitical_type"
                        /\ t \in ContentsOf(itemRefs, q.item)}}
        Labelled(col) == \E r \in userTags : r.type = t /\ r.col = col
    IN  IF explicit # {} THEN explicit
        ELSE IF Labelled("string") THEN {"string"}
        ELSE IF Labelled("integer") THEN {"integer"}
        ELSE {}

\* Mutant: a value of any type is taken.
AcceptedAlways(t) == TRUE

\* build_leaf_label and interpret_tag_value: an unquoted numeral is an integer,
\* and a value of another type than the configured one is refused.
Accepted(t) ==
    \/ t.type = "bitical_type"
    \/ BiticalType(t.type) = {} \/ t.col \in BiticalType(t.type)

\* A numeral without quotes is an integer, anything else a string.
Written == {t \in [type : UserTypes, col : Columns, text : Texts] :
               t.col = "integer" => t.text \in Numerals}
Configs == [type : {"bitical_type"}, col : {"string"}, text : Columns]

TagNodes == Written \cup Configs
UntagNodes == Written \cup AnyOf

ASSUME QueryAssumption ==
    TagQueries \subseteq Seq(TagNodes) /\ UntagQueries \subseteq Seq(UntagNodes)

\* Bitical::parse_as, and the CAST of user_tags_write.
Castable(text, col) == col = "string" \/ text \in Numerals

\* pre_validate_cast
PreValidateCast(cast) ==
    \A r \in userTags : r.type = cast.type => Castable(r.text, cast.col)

\* detect_type_casts: the types the selected definitions are of, when the edit
\* gives them another bitical_type than they have (string if they have none).
DetectTypeCasts(found, new, nodes) ==
    LET named == (AllContents(found) \cap DefinedTypes) \cup new
        wanted == {n.text : n \in {m \in ToSet(nodes) : m.type = "bitical_type"}}
        Now(t) == IF BiticalType(t) = {} THEN {"string"} ELSE BiticalType(t)
    IN  {cast \in [type : named, col : wanted] : Now(cast.type) # {cast.col}}

\* What one command writes of a type is in one column, and in the column it
\* configures the type for.
OneColumn(found, new, nodes) ==
    LET named == AllContents(found) \cup new
    IN  \A n, m \in ToSet(nodes) :
          n \in Written =>
             /\ m.type = n.type => m.col = n.col
             /\ m.type = "bitical_type" /\ n.type \in named => m.text = n.col

----------------------------------------------------------------------------
(* The plan: what modify() and confirm make of the items found. *)

Replaces(t, definition) ==
    \/ t.type \in ReplaceTypes
    \/ t.type = "bitical_type" /\ definition

\* Types of which resolve_replace_conflicts finds two values for an item.
Clashing(nodes) ==
    {t \in ReplaceTypes : Cardinality({n \in ToSet(nodes) : n.type = t}) > 1}

\* Mutant: no strategy, every value is added.
FoldVolatileAdding(nodes) == ToSet(nodes)

\* Directive::into_actions on an item that is not stored, and fold_volatile:
\* the deltas are applied to no tags at all, in order.
FoldVolatile(nodes) ==
    FoldLeft(LAMBDA had, t : IF Replaces(t, TRUE)
                             THEN {h \in had : h.type # t.type} \cup {t}
                             ELSE had \cup {t},
             {}, nodes)

\* inject_name
InjectedName(content) ==
    [type |-> "name", col |-> "string", text |-> content]

\* The answers to a conflict: a value (a policy may choose the first one, the
\* user any), or to skip the item, or only this type of it.
NoAnswer == [kind |-> "none"]
Answers(nodes) ==
    IF Clashing(nodes) = {} THEN {NoAnswer}
    ELSE [kind : {"take"},
          tag : {n \in ToSet(nodes) : n.type \in Clashing(nodes)}]
         \cup [kind : {"skip"}, scope : {"item", "fs_only"}]

\* The tags that an item is given, once the conflicts are settled.
Given(nodes, answer) ==
    LET clear == {n \in ToSet(nodes) : n.type \notin Clashing(nodes)}
    IN  CASE answer.kind = "take" -> clear \cup {answer.tag}
          [] answer.kind = "skip" -> IF answer.scope = "item" THEN {} ELSE clear
          [] OTHER -> clear

\* Directive::into_actions on stored items: Delete and Add of what replaces.
AddsTo(found, nodes, answer) ==
    {AsRow(i, t) : i \in found, t \in Given(nodes, answer)}

DeletesFor(found, nodes, answer) ==
    {[item |-> i, target |-> [type |-> t.type, col |-> AnyColumn,
                              text |-> AnyColumn]] :
        i \in found, t \in {g \in Given(nodes, answer) : g.type \in ReplaceTypes}}
    \cup
    {[item |-> i, target |-> [type |-> "bitical_type", col |-> AnyColumn,
                              text |-> AnyColumn]] :
        i \in {d \in found : IsTypeItem(itemRefs, d)
                             /\ \E t \in Given(nodes, answer) :
                                    t.type = "bitical_type"}}

\* A tag is only taken from an item the search has seen it on.
Removals(found, nodes) ==
    {d \in [item : found, target : ToSet(nodes)] :
        d.target.col = AnyColumn \/ AsRow(d.item, d.target) \in userTags}

----------------------------------------------------------------------------
(* Planning.  The steps of write() follow. *)

Nothing ==
    [phase |-> "draw", new |-> {}, given |-> {}, named |-> FALSE,
     adds |-> [b \in BuiltinIds |-> 0], refRows |-> [r \in RefRow |-> 0],
     inserts |-> {}, deletes |-> {}, cascade |-> {}, cast |-> NoCast]

Starts(c, plan, r) ==
    /\ asked' = asked + 1
    /\ job' = [job EXCEPT ![c] = plan]
    /\ request' = [request EXCEPT ![c] = r]
    /\ UNCHANGED <<tables, tmp, crashes, before, torn, cut>>

\* What a search may find: stored items and definitions that are not stored.
Selection(found, new) ==
    /\ found \subseteq Findable /\ \A t \in new : Volatile(t)
    /\ Cardinality(found) + Cardinality(new) \in 1 .. MaxSelected

Configures(nodes) == \E n \in ToSet(nodes) : n.type = "bitical_type"

\* resolve_nodes: one value that is refused refuses them all
ResolvedNodes(nodes) == \A n \in ToSet(nodes) : Accepted(n)

\* validate_type_config_assignment: a built-in type keeps its configuration
Assignable(i) == i \notin BuiltinIds

\* modify: a definition is given another bitical_type by a cast, and never loses it
Untaggable(found, new) == new = {} /\ \A i \in found : ~IsTypeItem(itemRefs, i)

\* Only definitions are configured here, and with one node.
\* `ttfm tag <search> [<nodes>]`: plan() and confirm_with_prompt().
PlanTag(c, found, new, nodes, answer) ==
    LET casts == DetectTypeCasts(found, new, nodes)
        cast == IF casts = {} THEN NoCast ELSE CHOOSE k \in casts : TRUE
        counted == \E r \in userTags : r.type = cast.type
        settled == IF nodes = <<>> THEN {} ELSE found
    IN  /\ Selection(found, new)
        /\ answer \in Answers(nodes)
        /\ ResolvedNodes(nodes)
        /\ Configures(nodes) => /\ \A i \in found : IsTypeItem(itemRefs, i) /\ Assignable(i)
                                /\ Cardinality({n \in ToSet(nodes) : n.type = "bitical_type"}) = 1
        /\ Cardinality(casts) <= 1
        /\ \A k \in casts : PreValidateCast(k)
        /\ MixedColumns \/ OneColumn(found, new, nodes)
        /\ Starts(c,
              [Nothing EXCEPT
                 !.new = new, !.given = FoldVolatile(nodes), !.named = TRUE,
                 !.adds = [b \in BuiltinIds |->
                             IF b \in settled
                             THEN Cardinality(Given(nodes, answer)) ELSE 0],
                 !.inserts = AddsTo(settled, nodes, answer),
                 !.deletes = DeletesFor(settled, nodes, answer),
                 !.cast = IF counted THEN cast ELSE NoCast],
              [kind |-> "tag", items |-> found, new |-> new, nodes |-> nodes,
               answer |-> answer, cast |-> cast])

\* `ttfm untag <search> <nodes>`.  On an item that is not stored there is
\* nothing to take, and fold_volatile registers it.
PlanUntag(c, found, new, nodes) ==
    /\ Selection(found, new)
    /\ Configures(nodes) => Untaggable(found, new)
    /\ Starts(c,
          [Nothing EXCEPT !.new = new, !.named = TRUE,
                          !.deletes = Removals(found, nodes)],
          [kind |-> "untag", items |-> found, new |-> new, nodes |-> nodes,
           answer |-> NoAnswer, cast |-> NoCast])

\* `ttfm untag <search> item_id:`
PlanForget(c, found) ==
    /\ Selection(found, {})
    /\ Starts(c, [Nothing EXCEPT !.cascade = found],
              [kind |-> "forget", items |-> found, new |-> {}, nodes |-> <<>>,
               answer |-> NoAnswer, cast |-> NoCast])

\* `ttfm note <content>`, by add_item
PlanNote(c, n) ==
    Starts(c, [Nothing EXCEPT !.new = {n}],
           [kind |-> "note", items |-> {}, new |-> {n}, nodes |-> <<>>,
            answer |-> NoAnswer, cast |-> NoCast])

----------------------------------------------------------------------------
(* write() *)

NeedsRefs(j) == (\E r \in RefRow : j.refRows[r] > 0) \/ j.cascade \ FileIds # {}
NeedsTags(j) ==
    j.inserts # {} \/ j.deletes # {} \/ j.cascade # {} \/ j.cast # NoCast

AfterTags(j) == IF j.cascade \cap FileIds = {} THEN "idle" ELSE "files"
AfterRefs(j) == IF NeedsTags(j) THEN "tags" ELSE AfterTags(j)
AfterDraw(j) == IF NeedsRefs(j) THEN "refs" ELSE AfterRefs(j)

Ends(c) ==
    /\ job' = [job EXCEPT ![c] = Idle]
    /\ request' = [request EXCEPT ![c] = NoRequest]
    /\ before' = [before EXCEPT ![c] = <<>>]

Enters(c, j, phase) ==
    IF phase = "idle" THEN Ends(c)
    ELSE /\ job' = [job EXCEPT ![c] = [j EXCEPT !.phase = phase]]
         /\ before' = IF tables' = tables \/ before[c] # <<>> THEN before
                      ELSE [before EXCEPT ![c] =
                              <<[refs |-> itemRefs, tags |-> userTags,
                                 files |-> files]>>]
         /\ UNCHANGED request

\* The command stops with an error, or its process is killed.
Stops(c) ==
    /\ Ends(c)
    /\ torn' = CASE job[c].phase \in {"tags", "tags_copied"} ->
                      torn \cup (job[c].cascade \ FileIds)
                 [] job[c].phase = "files" -> torn \cup job[c].cascade
                 [] OTHER -> torn
    /\ cut' = cut \cup torn'

\* Mutant: the ids in use are counted.
NextUserIdCounted ==
    Cardinality({i \in UserIds : Stored(itemRefs, i)})

\* identifier::next of the User block
NextUserId ==
    LET used == {i \in UserIds : Stored(itemRefs, i)}
    IN  IF used = {} THEN CHOOSE i \in UserIds : \A k \in UserIds : i <= k
        ELSE 1 + CHOOSE i \in used : \A k \in used : k <= i

\* What a plan becomes when f gives each id the content it is drawn for, and
\* a built-in type without a row gets one for each of its tags.
DrawnRows(j, ids, f) ==
    [r \in RefRow |->
       IF r.id \in ids THEN IF f[r.id] = r.content THEN 1 ELSE 0
       ELSE IF r.id \in BuiltinIds
       THEN IF r.content = BuiltinName[r.id] /\ ~Stored(itemRefs, r.id)
            THEN j.adds[r.id] ELSE 0
       ELSE 0]

DrawnTags(j, ids, f) ==
    j.inserts \cup {AsRow(i, t) : i \in ids, t \in j.given}
              \cup {AsRow(i, InjectedName(f[i])) : i \in {k \in ids : j.named}}

Resolved(j, ids, f) ==
    [j EXCEPT !.refRows = DrawnRows(j, ids, f), !.inserts = DrawnTags(j, ids, f),
              !.new = {}, !.given = {}]

\* resolve_volatiles and inject_builtin_definitions
ResolveVolatiles(c) ==
    LET j == job[c]
        lo == NextUserId
        ids == lo .. lo + Cardinality(j.new) - 1
    IN  /\ j.phase = "draw"
        /\ ids \subseteq UserIds
        /\ UNCHANGED <<tables, tmp, asked, crashes, torn, cut>>
        /\ \E f \in {g \in [ids -> j.new] : j.new = {g[i] : i \in ids}} :
             Enters(c, Resolved(j, ids, f), AfterDraw(Resolved(j, ids, f)))

\* item_references_write
ItemReferencesWrite(refs, j) ==
    [r \in RefRow |-> (IF r.id \in j.cascade \ FileIds THEN 0 ELSE refs[r])
                      + j.refRows[r]]

CopyRefs(c) ==
    /\ job[c].phase = "refs"
    /\ tmp' = [tmp EXCEPT !.refs = <<ItemReferencesWrite(itemRefs, job[c])>>]
    /\ job' = [job EXCEPT ![c].phase = "refs_copied"]
    /\ UNCHANGED <<tables, asked, crashes, history>>

\* A rename moves whatever the .tmp holds, and fails without one.
RenameRefs(c) ==
    /\ job[c].phase = "refs_copied"
    /\ IF tmp.refs = <<>>
       THEN Stops(c) /\ UNCHANGED <<tables, tmp>>
       ELSE /\ itemRefs' = tmp.refs[1] /\ tmp' = [tmp EXCEPT !.refs = <<>>]
            /\ UNCHANGED <<userTags, files, torn, cut>>
            /\ Enters(c, job[c], AfterRefs(job[c]))
    /\ UNCHANGED <<asked, crashes>>

\* NOT (item_id = .. AND type = .. [AND <col> = ..]) is true.  In a row whose
\* label is in another column <col> is NULL, and so is the negation.
Survives(r, d) ==
    \/ r.item # d.item \/ r.type # d.target.type
    \/ /\ d.target.col # AnyColumn
       /\ r.col = d.target.col /\ r.text # d.target.text

\* Mutant: the cascade reaches the tags of files only.
KeptCascadeFiles(rows, j) ==
    {r \in rows : /\ r.item \notin j.cascade \cap FileIds
                  /\ \A d \in j.deletes : Survives(r, d)}

\* The rows that the WHERE of user_tags_write lets through.
Kept(rows, j) ==
    {r \in rows : r.item \notin j.cascade /\ \A d \in j.deletes : Survives(r, d)}

CastRow(r, cast) == IF r.type = cast.type THEN [r EXCEPT !.col = cast.col] ELSE r

\* user_tags_write: old rows are filtered and cast, then new ones are added.
UserTagsWrite(rows, j) == {CastRow(r, j.cast) : r \in Kept(rows, j)} \cup j.inserts

\* A CAST that fails ends the command after item_references was saved.
CopyTags(c) ==
    LET j == job[c]
        castable == \A r \in Kept(userTags, j) :
                       r.type = j.cast.type => Castable(r.text, j.cast.col)
    IN  /\ j.phase = "tags"
        /\ IF castable
           THEN /\ tmp' = [tmp EXCEPT !.tags = <<UserTagsWrite(userTags, j)>>]
                /\ job' = [job EXCEPT ![c].phase = "tags_copied"]
                /\ UNCHANGED history
           ELSE Stops(c) /\ UNCHANGED tmp
        /\ UNCHANGED <<tables, asked, crashes>>

RenameTags(c) ==
    /\ job[c].phase = "tags_copied"
    /\ IF tmp.tags = <<>>
       THEN Stops(c) /\ UNCHANGED <<tables, tmp>>
       ELSE /\ userTags' = tmp.tags[1] /\ tmp' = [tmp EXCEPT !.tags = <<>>]
            /\ torn' = torn \ (job[c].cascade \ FileIds)
            /\ UNCHANGED <<itemRefs, files, cut>>
            /\ Enters(c, job[c], AfterTags(job[c]))
    /\ UNCHANGED <<asked, crashes>>

\* cascade_delete_from, for the file tables in their order
CascadeFile(c) ==
    LET gone == job[c].cascade
        left == {k \in DOMAIN FileTables : files[FileTables[k]] \cap gone # {}}
        next == CHOOSE k \in left : \A m \in left : k <= m
        last == left \subseteq {next}
    IN  /\ job[c].phase = "files"
        /\ IF left = {} THEN UNCHANGED files
           ELSE files' = [files EXCEPT ![FileTables[next]] = @ \ gone]
        /\ torn' = IF last THEN torn \ gone ELSE torn
        /\ UNCHANGED <<itemRefs, userTags, tmp, asked, crashes, cut>>
        /\ Enters(c, job[c], IF last THEN "idle" ELSE "files")

Crash(c) ==
    /\ Running(c) /\ crashes < MaxCrashes
    /\ crashes' = crashes + 1
    /\ Stops(c)
    /\ UNCHANGED <<tables, tmp, asked>>

----------------------------------------------------------------------------
Init ==
    /\ itemRefs = [r \in RefRow |-> 0] /\ userTags = {}
    /\ files = [t \in ToSet(FileTables) |->
                  IF t = "removed_files" THEN {} ELSE FileIds]
    /\ tmp = [refs |-> <<>>, tags |-> <<>>]
    /\ job = [c \in Clients |-> Idle]
    /\ asked = 0 /\ crashes = 0
    /\ before = [c \in Clients |-> <<>>]
    /\ request = [c \in Clients |-> NoRequest]
    /\ torn = {} /\ cut = {}

Plan(c) ==
    /\ ~Running(c) /\ asked < MaxCommands
    /\ \/ \E found \in SUBSET Findable, new \in SUBSET UserTypes :
             /\ Selection(found, new)
             /\ \/ \E nodes \in TagQueries :
                      \E answer \in Answers(nodes) :
                         PlanTag(c, found, new, nodes, answer)
                \/ \E nodes \in UntagQueries :
                      PlanUntag(c, found, new, nodes)
                \/ new = {} /\ PlanForget(c, found)
       \/ \E n \in Notes : PlanNote(c, n)

Write(c) ==
    \/ ResolveVolatiles(c)
    \/ CopyRefs(c) \/ RenameRefs(c)
    \/ CopyTags(c) \/ RenameTags(c)
    \/ CascadeFile(c)

Next == \E c \in Clients : Plan(c) \/ Write(c) \/ Crash(c)

Spec == Init /\ [][Next]_vars

----------------------------------------------------------------------------
(* Properties. *)

\* Items are told apart by their ids (TTFM.md 2.2).
IdsUnique == \A i \in Ids : Cardinality(ContentsOf(itemRefs, i)) <= 1

\* A type a user made up has one definition item, in one row: registering it
\* again finds the first one (EDIT.md 5.7).
OneDefinition ==
    \A q, r \in RefRow :
        /\ q.content \in UserTypes => itemRefs[q] <= 1
        /\ /\ q.content \in UserTypes /\ q.content = r.content
           /\ itemRefs[q] > 0 /\ itemRefs[r] > 0
           => q = r

BeingDeleted == UNION {job[c].cascade : c \in {k \in Clients : Running(k)}}

\* There is no row of user_tags without its item, unless a deletion of it was
\* stopped half way: items are saved before the tags that name them.
TagsHaveItem ==
    \A r \in userTags :
        \/ Stored(itemRefs, r.item)
        \/ r.item \in files["file_references"]
        \/ r.item \in BeingDeleted \cup torn

\* No deletion of an item that a user made has stopped half way.
NothingCut == cut \cap UserIds = {}

\* All labels of a type whose definition names a bitical_type are in the column
\* of that type: casts move the labels there and later ones are checked.  This
\* ends with a deletion that stops half way: the next definition with that id
\* inherits the tag, no cast is planned for it, and labels of its type come to
\* be in two columns.
ConfigMatchesRows ==
    NothingCut =>
        \A d, r \in userTags :
            /\ d.type = "bitical_type"
            /\ r.type \in ContentsOf(itemRefs, d.item) \cap UserTypes
            => r.col = d.text

\* An untag takes away the tags it names and no others.
UntagExact ==
    [][\A c \in Clients :
         /\ Running(c) /\ job[c].phase = "tags_copied" /\ job'[c] # job[c]
         /\ request[c].kind = "untag"
         => \A r \in userTags \ userTags' :
              \E n \in ToSet(request[c].nodes) :
                 n.type = r.type /\ (n.col = AnyColumn \/ n = AsTag(r))]_vars

----------------------------------------------------------------------------
(* One client implements TagStore. *)

NoContent == "none"
FileContent == "file"

\* The tables as they were before the first save of the command that runs.
Seen ==
    IF \E c \in Clients : before[c] # <<>>
    THEN before[CHOOSE c \in Clients : before[c] # <<>>][1]
    ELSE [refs |-> itemRefs, tags |-> userTags, files |-> files]

ItemOf(seen, i) ==
    IF i \in BuiltinIds THEN BuiltinName[i]
    ELSE IF i \in seen.files["file_references"] THEN FileContent
    ELSE IF Stored(seen.refs, i)
         THEN CHOOSE content \in ContentsOf(seen.refs, i) : TRUE
    ELSE NoContent

AllRequests ==
    [kind : {"tag", "untag", "forget", "note"}, items : SUBSET Ids,
     new : SUBSET Contents, nodes : Seq(TagNodes \cup UntagNodes),
     answer : {NoAnswer} \cup [kind : {"take"}, tag : Written]
              \cup [kind : {"skip"}, scope : {"item", "fs_only"}],
     cast : {NoCast} \cup [type : DefinedTypes, col : Columns]]

Store == INSTANCE TagStore WITH
    TypeIds <- [content \in Contents |-> UserIds],
    Requests <- AllRequests,
    items <- [i \in Ids |-> ItemOf(Seen, i)],
    tags <- [i \in Ids |-> {AsTag(r) : r \in {q \in Seen.tags : q.item = i}}],
    request <- IF \E c \in Clients : Running(c)
               THEN request[CHOOSE c \in Clients : Running(c)] ELSE NoRequest

\* One client's commands do what TagStore says, at one moment each, as long as
\* no deletion stops half way (see ConfigMatchesRows).
TagStoreSpec == Store!Spec
=============================================================================
