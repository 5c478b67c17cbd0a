------------------------------ MODULE PackFiles ------------------------------
(***************************************************************************)
(* Which downloaded packs a client accepts (validatePack) before it reads or *)
(* writes any file: the answer of a server, or of whoever answers, is any    *)
(* sequence of files.                                                       *)
(***************************************************************************)
EXTENDS Naturals, Sequences, FiniteSets

CONSTANTS
    ProductFiles,   \* PACK_PATHS of a kind of pack
    Names,          \* what a file of a pack may be called
    Folded,         \* Names in lower case
    MAX_FILE_BYTES, MAX_PACK_BYTES,
    Sizes,          \* bound: the bytes of a file
    MaxFiles        \* bound: how many files arrive

ASSUME PackAssumption ==
    /\ IsFiniteSet(ProductFiles) /\ ProductFiles \subseteq Names
    /\ Sizes \subseteq Nat

VARIABLE manifest   \* the files that have arrived

File == [path : Names, bytes : Sizes]

FetchInit == manifest = <<>>
Fetch(file) == Len(manifest) < MaxFiles /\ manifest' = Append(manifest, file)
FetchNext == \E file \in File : Fetch(file)
FetchSpec == FetchInit /\ [][FetchNext]_manifest

-----------------------------------------------------------------------------
\* Bytes of all files.
Total(pack) == LET upto[n \in 0..Len(pack)] == IF n = 0 THEN 0 ELSE upto[n - 1] + pack[n].bytes IN upto[Len(pack)]

\* Faulty: only the very same name is a duplicate, and none has to be known.
NewNameOnly(pack, i) == \A j \in 1..i - 1 : pack[j].path # pack[i].path

\* A file's name is new, whatever its case, and one of the product's.
NameFits(pack, i) ==
    /\ \A j \in 1..i - 1 : Folded[pack[j].path] # Folded[pack[i].path]
    /\ pack[i].path \in ProductFiles

SizeFits(file) == file.bytes # 0 /\ file.bytes <= MAX_FILE_BYTES

ValidPack(pack) ==
    /\ Len(pack) = Cardinality(ProductFiles)
    /\ \A i \in DOMAIN pack : NameFits(pack, i) /\ SizeFits(pack[i])
    /\ Total(pack) <= MAX_PACK_BYTES

-----------------------------------------------------------------------------
(* An accepted pack has exactly the product's files, each of them once: the   *)
(* number, the differing names and their membership leave no other.          *)
PacksWhole ==
    ValidPack(manifest) =>
        /\ {manifest[i].path : i \in DOMAIN manifest} = ProductFiles
        /\ \A i, j \in DOMAIN manifest : manifest[i].path = manifest[j].path => i = j
=============================================================================
