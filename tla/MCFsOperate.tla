---------------------------- MODULE MCFsOperate ----------------------------
(* Instances of FsOperate for TLC. *)
EXTENDS FsOperate, TLC

\* 1 is a directory with the file 2, 3 a file with two links, 4 another file;
\* m is where another device is mounted.
File(i) == [ino |-> i, what |-> i, dir |-> FALSE]
SmallTree ==
    (<<"d">> :> [ino |-> 1, what |-> 1, dir |-> TRUE])
    @@ (<<"d", "x">> :> File(2))
    @@ (<<"a">> :> File(3)) @@ (<<"d", "b">> :> File(3))
    @@ (<<"c">> :> File(4))
    @@ (<<"m">> :> [ino |-> 5, what |-> 0, dir |-> TRUE])

To(p) == [kind |-> "path", path |-> p]
Into(p) == [kind |-> "parentdir", path |-> p]
Called(n) == [kind |-> "filename", name |-> n]
Mtime == [kind |-> "mtime"]

SomeNodes == {<<To(<<"x">>)>>, <<To(<<"c">>)>>, <<To(<<"e", "x">>)>>,
              <<To(<<"e">>), Mtime>>, <<Into(<<"m">>)>>,
              <<Into(<<"m">>), Mtime>>, <<Called("x")>>, <<Mtime>>}
Edits == [item : Items, nodes : SomeNodes]
SomeRequests ==
    [edits : {<<e>> : e \in Edits}
             \cup {s \in [1 .. 2 -> Edits] : s[1].item # s[2].item},
     tags : {TRUE}, scope : {"item", "fs_only"}]

Plain == {"a", "b", "c", "d", "e", "m", "x"}
Suffixed == [n \in Plain \cup {p \o s : p \in Plain, s \in {"_1", "_2"}} |->
               IF n = "x" THEN <<"x_1", "x_2">>
               ELSE IF n \in Plain THEN <<n \o "_1">> ELSE <<>>]
Aliens == {<<"x">>, <<"m", "x">>}
=============================================================================
