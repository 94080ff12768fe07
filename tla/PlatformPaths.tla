--------------------------- MODULE PlatformPaths ---------------------------
(* backend/src/platform_paths.rs: which file of one manifest is the same    *)
(* file in another one, when Unity names a folder after the build target.   *)
(* A path is the sequence of its components; a manifest is the sequence of  *)
(* its files, in the order it lists them.                                   *)
EXTENDS Integers, Sequences, FiniteSets

CONSTANTS
    Component,    \* what a path is made of
    AA,           \* the component "aa"
    BuildTarget   \* BUILD_TARGETS

ASSUME PathAssumption == AA \in Component /\ BuildTarget \subseteq Component

Path == Seq(Component)

\* The positions of path.find("/aa/"): a slash on either side.
AaAt(p) == {i \in 2 .. Len(p) - 1 : p[i] = AA}

\* The first of them.
FirstAa(p) == CHOOSE i \in AaAt(p) : \A j \in AaAt(p) : i <= j

\* A build target's folder follows the first "/aa/", with something in it.
HasTarget(p) == /\ AaAt(p) # {}
                /\ p[FirstAa(p) + 1] \in BuildTarget
                /\ FirstAa(p) + 1 < Len(p)

\* What is left of a path without its build target: PairKey.
PairKey(p) ==
    IF HasTarget(p)
    THEN [head |-> SubSeq(p, 1, FirstAa(p)),
          tail |-> SubSeq(p, FirstAa(p) + 2, Len(p))]
    ELSE [head |-> p, tail |-> <<>>]

\* The positions of a manifest's non-directory files: FileIndex::files.
FileAt(m) == {i \in DOMAIN m : ~m[i].dir}

\* The non-directory files themselves.
FilesIn(m) == {m[i] : i \in FileAt(m)}

\* Where FileIndex::by_key, a map filled in manifest order, finds a key.
KeyAt(m, k) == {i \in FileAt(m) : PairKey(m[i].path) = k}

\* The last file with a key is the one the map keeps.
ByKey(m, k) == m[CHOOSE i \in KeyAt(m, k) : \A j \in KeyAt(m, k) : j <= i]

\* The files of FileIndex::pair, the base's first.
InBoth(b, o) == {f \in FilesIn(b) : KeyAt(o, PairKey(f.path)) # {}}

\* The file of the other manifest a file is paired with.
Partner(f, o) == ByKey(o, PairKey(f.path))

\* The base's files that the other manifest lacks, or the reverse.
OnlyIn(b, o) == FilesIn(b) \ InBoth(b, o)

\* Where find_corresponding looks: the path itself, or else its key.
Corresponding(m, p) ==
    LET same == {i \in DOMAIN m : m[i].path = p}
        keyed == {i \in DOMAIN m : PairKey(m[i].path) = PairKey(p)}
    IN  IF same # {} THEN same ELSE IF HasTarget(p) THEN keyed ELSE {}

\* The first such file: find_corresponding, where there is one.
FindCorresponding(m, p) ==
    m[CHOOSE i \in Corresponding(m, p) : \A j \in Corresponding(m, p) : i <= j]

\* No two files of a manifest differ only in their build target.
Unambiguous(m) ==
    \A i, j \in FileAt(m) : PairKey(m[i].path) = PairKey(m[j].path) => i = j
=============================================================================
