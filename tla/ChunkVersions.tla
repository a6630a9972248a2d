--------------------------- MODULE ChunkVersions ---------------------------
(***************************************************************************)
(* One upload after another, of files that end alike: what deduplication   *)
(* needs of Chunks when the front of a file has changed.                   *)
(***************************************************************************)
EXTENDS Chunks, FiniteSets

CONSTANTS
  Heads, Tails,  \* files that follow one another are a head and a tail each, with the same tail
  Earlier        \* a bound on the uploads before the last one

VARIABLE before  \* the uploads that are over: [file, blocks]

VersionsInit == Init /\ before = {}

\* The next call of upload: its variables are all local, nothing is carried over.
Again ==
  /\ pc \in {"done", "failed"} /\ Cardinality(before) < Earlier
  /\ before' = before \cup {[file |-> file, blocks |-> blocks]}
  /\ \E p, q \in Heads, s \in Tails : file = p \o s /\ file' = q \o s
  /\ file' \in Files
  /\ start' = 0 /\ now' = MinSize /\ win' = [i \in 1 .. Win |-> 0]
  /\ blocks' = <<>> /\ pc' = "divide"

VersionsNext ==
  \/ Next /\ UNCHANGED before
  \/ Again

VersionsSpec == VersionsInit /\ [][VersionsNext]_<<vars, before>> /\ WF_<<vars, before>>(VersionsNext)

----------------------------------------------------------------------------
\* The cuts in a file of n bytes, by their distance from its end.
Cuts(bs, n) == {n - bs[i].at : i \in 2 .. Len(bs)}

\* The last n bytes of f and g are the same.
Alike(f, g, n) ==
  /\ n <= Len(f) /\ n <= Len(g)
  /\ \A i \in 0 .. n - 1 : f[Len(f) - i] = g[Len(g) - i]

\* Once two uploads have cut at the same place of what their files have in common at the
\* end, all further cuts are at the same places: from there on every block is found on the
\* server (FileService.upload lines 92-113), however the files begin and wherever in them
\* that place is.
Resync ==
  pc = "done" =>
    \A d \in before :
      LET one == Cuts(d.blocks, Len(d.file))
          two == Cuts(blocks, end)
      IN \A n \in one \cap two :
           Alike(d.file, file, n) => {m \in one : m < n} = {m \in two : m < n}
=============================================================================
