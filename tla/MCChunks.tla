------------------------------ MODULE MCChunks ------------------------------
(* Files of bits; a window of two, blocks of three to seven, cut at 11. *)
EXTENDS ChunkVersions, SequencesExt

Bits == {0, 1}
AllHeads == {<<>>, <<0>>, <<1>>, <<1, 1>>, <<0, 1, 0>>}
AllTails == BoundedSeq(Bits, 9)
AllFiles == {p \o s : p \in AllHeads, s \in AllTails}
Ones == {<<1, 1>>}
=============================================================================
