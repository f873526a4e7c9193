----------------------------- MODULE MCChunker -----------------------------
(* An instance of Chunker for TLC.  A block is two bytes, a container six; a *)
(* segment has two headers and the margin is two containers, as 16 headers   *)
(* and 16 containers are in the code; the window is three margins.           *)
EXTENDS Chunker, SequencesExt

Member(kind, size) == [kind |-> kind, size |-> size]

\* The archive with the given members, one after the other.
Archive(members) ==
  FoldLeft(LAMBDA a, h :
             [len |-> a.len + BlockSize + DataSize(h),
              header |-> [o \in DOMAIN a.header \union {a.len} |->
                            IF o = a.len THEN h ELSE a.header[o]]],
           [len |-> 0, header |-> NoHeaders],
           members)

\* Empty, odd, container-sized and big files, a directory and a long name.
Full == Member("REGTYPE", 6)
Big == Member("REGTYPE", 9)
Dir == Member("other", 0)
Kinds == {Member("REGTYPE", 0), Member("REGTYPE", 3), Full, Big, Dir, Member("x", 1)}
Trailer == <<Member("AREGTYPE", 0), Member("AREGTYPE", 0)>>

\* A sparse or an old regular file, of which the parser sees no data.
Misleading == {Member("other", 3), Member("other", 9), Member("AREGTYPE", 3)}

\* A second backup, read with the parser state the first has left.
Second == Archive(<<Dir, Member("x", 1), Full>>)

\* Members in every order before, across and after the end of a window.
MCArchives ==
  {<<Archive(<<a, Full, b, Full, c, Full>> \o Trailer), Second>> : a, b, c \in Kinds}
    \union {<<Archive(<<Big, a, Big, b>>), Archive(<<>>), Second>> : a, b \in Kinds}
    \union {<<Archive(<<Full, a, b, Full, c>> \o Trailer)>> : a, b \in {Full, Dir}, c \in Misleading}
    \union {<<Second, Archive(<<a, c, Big>>)>> : a \in Kinds, c \in Misleading}

\* Files of every length around one window, and empty ones, for the cuts that
\* do not look at headers.
Flat(n) == [len |-> n, header |-> NoHeaders]
MCPlain == {<<Flat(n)>> : n \in {0, 1} \union 34 .. 40} \union {<<Flat(5), Flat(0), Flat(37)>>}

\* Archives to rewrite: a big member across the end of the window, and a
\* second archive.
MCRewritten ==
  {<<Archive(<<a, Full, Full, Big, b>>), Second>> :
     a \in Kinds, b \in {Full, Dir} \union Misleading}
    \union {<<Archive(<<>>), Archive(<<Big, a, Big>>)>> : a \in Kinds}

MCUses ==
  {[type |-> t, files |-> fl] : t \in {"TAR", "TAR_MultiHeader"}, fl \in MCArchives}
    \union {[type |-> t, files |-> fl] : t \in {"FIXED_SIZE", "FASTCDC", "GEARCDC"}, fl \in MCPlain}
    \union {[type |-> "MTAR", files |-> fl] : fl \in MCRewritten}
=============================================================================
