------------------------------ MODULE TagStore ------------------------------
(***************************************************************************)
(* What `ttfm tag`, `ttfm untag` and `ttfm note` promise: the items and    *)
(* the tags of each item, changed by one command at a time.  A command     *)
(* acts on every item it selected as if its tags were given or taken one   *)
(* after the other, in the order they were written, and nothing can be     *)
(* seen of it until all of it is there.  A process that fails or dies has  *)
(* done nothing, the items that are not files, these and all the tags, or  *)
(* everything: never a part of the tags.                                   *)
(*                                                                         *)
(* A tag is a record [type, col, text]: col is the physical type of the    *)
(* value.  A request is a record of the fields of Requests below.          *)
(***************************************************************************)
EXTENDS Naturals, Sequences, SequencesExt

CONSTANTS
    Ids,            \* every item id
    FileIds,        \* those of files, which the index adds
    BuiltinIds,     \* those of built-in types, which are always there
    TypeIds,        \* [Contents -> SUBSET Ids]: ids a new item may be given
    Contents,       \* what a definition or a note is about
    UserTypes,      \* the types a definition can be of, a part of Contents
    ReplaceTypes,   \* types of which an item has one tag at most
    Requests,       \* the commands a user may give
    NoRequest

VARIABLES
    items,          \* Ids -> the content of the item, NoContent without one
    tags,           \* Ids -> the set of its tags
    request         \* the command that is running

CONSTANTS NoContent, FileContent

vars == <<items, tags, request>>

Live == {i \in Ids : items[i] # NoContent}

IsDefinition(i, content) == i \in BuiltinIds \/ content \in UserTypes

\* A value of a type that replaces takes the place of those there.
Give(had, t, definition) ==
    IF \/ t.type \in ReplaceTypes
       \/ t.type = "bitical_type" /\ definition
    THEN {h \in had : h.type # t.type} \cup {t}
    ELSE had \cup {t}

Take(had, target) ==
    IF target.col = "any" THEN {h \in had : h.type # target.type}
                          ELSE had \ {target}

\* The nodes of an edit on one item, from left to right, but for those left out.
InOrder(had, r, definition, left) ==
    FoldLeft(LAMBDA acc, t : IF t \in left THEN acc
                             ELSE IF r.kind = "tag" THEN Give(acc, t, definition)
                             ELSE Take(acc, t),
             had, r.nodes)

\* The user's answer where one command gives an item two values of a type that
\* replaces: one of them, or to leave the item (or the type) alone.
Settled(had, r, definition) ==
    LET clash == {n \in ToSet(r.nodes) :
                     /\ n.type \in ReplaceTypes
                     /\ \E m \in ToSet(r.nodes) : m.type = n.type /\ m # n}
    IN  CASE r.kind # "tag" \/ clash = {} -> InOrder(had, r, definition, {})
          [] r.kind = "tag" /\ clash # {} /\ r.answer.kind = "take" ->
                 InOrder(had, r, definition, clash \ {r.answer.tag})
          [] r.kind = "tag" /\ clash # {} /\ r.answer.kind = "skip" ->
                 IF r.answer.scope = "item" THEN had
                                            ELSE InOrder(had, r, definition, clash)

Named(content) == [type |-> "name", col |-> "string", text |-> content]

Convert(t, cast) ==
    IF cast.type = t.type THEN [t EXCEPT !.col = cast.col] ELSE t

\* The tags of item i once request r is done, where fresh names the items it
\* made (a note is made without tags).  A deletion that was interrupted leaves
\* tags under its id, which a later item with this id has as well.
TagsDone(i, r, fresh) ==
    LET had == IF i \notin r.items THEN tags[i]
               ELSE IF r.kind = "forget" THEN {}
               ELSE Settled(tags[i], r, IsDefinition(i, items[i]))
        own == IF i \notin DOMAIN fresh \/ r.kind = "note" THEN {}
               ELSE InOrder({}, r, TRUE, {}) \cup {Named(fresh[i])}
    IN  {Convert(t, r.cast) : t \in had \cup own}

ItemsDone(i, r, fresh) ==
    IF i \in DOMAIN fresh THEN fresh[i]
    ELSE IF r.kind = "forget" /\ i \in r.items \ BuiltinIds THEN NoContent
    ELSE items[i]

\* The ways to give the contents a request registers ids no item has.
FreshIds(r) ==
    {f \in UNION {[S -> r.new] : S \in SUBSET (Ids \ Live)} :
        /\ \A i, k \in DOMAIN f : f[i] = f[k] => i = k
        /\ \A c \in r.new : \E i \in DOMAIN f : f[i] = c
        /\ \A i \in DOMAIN f : i \in TypeIds[f[i]]}

Init ==
    /\ items \in [Ids -> Contents \cup {FileContent, NoContent}]
    /\ tags = [i \in Ids |-> {}]
    /\ request = NoRequest

Ask ==
    /\ request = NoRequest /\ request' \in Requests
    /\ UNCHANGED <<items, tags>>

Perform ==
    /\ request # NoRequest /\ request' = NoRequest
    /\ \E fresh \in FreshIds(request) :
          /\ items' = [i \in Ids |-> ItemsDone(i, request, fresh)]
          /\ tags' = [i \in Ids |-> TagsDone(i, request, fresh)]

\* The command fails or its process dies, after so many of its three saves.
Interrupted ==
    /\ request # NoRequest /\ request' = NoRequest
    /\ \/ UNCHANGED <<items, tags>>
       \/ \E fresh \in FreshIds(request), saves \in 1 .. 3 :
             /\ items' = [i \in Ids |->
                    IF i \in FileIds /\ saves < 3 THEN items[i]
                    ELSE ItemsDone(i, request, fresh)]
             /\ tags' = [i \in Ids |->
                    IF saves < 2 THEN tags[i] ELSE TagsDone(i, request, fresh)]

Next == Ask \/ Perform \/ Interrupted

Spec == Init /\ [][Next]_vars
=============================================================================
