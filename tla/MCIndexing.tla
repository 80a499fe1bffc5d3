----------------------------- MODULE MCIndexing -----------------------------
EXTENDS Indexing, TLC

\* Names carry no meaning of their own: renaming all of them changes nothing.
NameSymmetry == Permutations(Names)

\* Nor have directories, where no plugin yields a path tag for any.
DirSymmetry == Permutations(Dirs)
=============================================================================
