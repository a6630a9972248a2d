------------------------------- MODULE Chunks -------------------------------
(***************************************************************************)
(* How FileService.upload divides a file into blocks: from MIN_SIZE on it  *)
(* slides a window over the file byte by byte and cuts where the window's  *)
(* digest is 3 modulo 127, or at MAX_SIZE.  Clients find each other's      *)
(* blocks by their content only, so deduplication rests on equal contents  *)
(* being cut at equal places.                                              *)
(***************************************************************************)
EXTENDS Integers, Sequences

CONSTANTS
  Bytes,    \* the bytes; 0 is one of them
  Files,    \* the files there may be, sequences of bytes
  Win,      \* WIN_SIZE, 64
  MinSize,  \* MIN_SIZE, 80 K
  MaxSize,  \* MAX_SIZE, 100 K
  Digest    \* the windows whose digest is 3 modulo 127

ASSUME ChunksAssumption ==
  /\ 0 \in Bytes /\ Files \subseteq Seq(Bytes)
  /\ {Win, MinSize, MaxSize} \subseteq Nat \ {0} /\ Win <= MinSize /\ MinSize <= MaxSize
  /\ Digest \subseteq [1 .. Win -> Bytes]

VARIABLES
  file,    \* the file
  start,   \* where the block begins that is being looked for the end of
  now,     \* where the window is
  win,     \* the bytes in it
  blocks,  \* the blocks written, [at, len]; their index is the code's block
  pc       \* divide, cut, done or failed

vars == <<file, start, now, win, blocks, pc>>
end  == Len(file)

Init ==
  /\ file \in Files
  /\ start = 0 /\ now = MinSize /\ win = [i \in 1 .. Win |-> 0]
  /\ blocks = <<>> /\ pc = "divide"

\* seek and read: past the end of the file the buffer keeps what it has.
Clean(p) == [i \in 1 .. Win |-> IF p + i <= end THEN file[p + i] ELSE 0]   \* mutant: a new buffer
Unmoved(p) == [i \in 1 .. Win |-> IF now + i <= end THEN file[now + i] ELSE win[i]]  \* mutant: read, then seek
Read(p) == [i \in 1 .. Win |-> IF p + i <= end THEN file[p + i] ELSE win[i]]

Write(to) == blocks' = Append(blocks, [at |-> start, len |-> to - start])

\* Outside the try: fileLength % partSize throws for an empty file, whose row the
\* server has stored by then.
Divide ==
  /\ pc = "divide"
  /\ IF end = 0 THEN pc' = "failed" /\ UNCHANGED win
                ELSE pc' = "cut" /\ win' = Read(now)
  /\ UNCHANGED <<file, start, now, blocks>>

Absolute == now >= MaxSize \/ win \in Digest                 \* mutant: now for now - start
Unbounded == win \in Digest                              \* mutant: no upper bound
Boundary == now - start >= MaxSize \/ win \in Digest

ToWindow == now + Win                                    \* mutant: MIN_SIZE left out
FromCut == now + MinSize

Cut ==
  /\ pc = "cut" /\ now < end /\ Boundary
  /\ Write(now)
  /\ start' = now /\ now' = FromCut /\ win' = Read(FromCut)
  /\ UNCHANGED <<file, pc>>

Slide ==
  /\ pc = "cut" /\ now < end /\ ~Boundary
  /\ now' = now + 1 /\ win' = Read(now + 1)
  /\ UNCHANGED <<file, start, blocks, pc>>

PastEnd == now > end                                     \* mutant: > for >=
AtEnd == now >= end

LastBlock ==
  /\ pc = "cut" /\ AtEnd
  /\ Write(end)
  /\ pc' = "done"
  /\ UNCHANGED <<file, start, now, win>>

Next == Divide \/ Cut \/ Slide \/ LastBlock

Spec == Init /\ [][Next]_vars
FairSpec == Spec /\ WF_vars(Next)

----------------------------------------------------------------------------
Blocks == [at : Nat, len : Nat]

\* The types of the loop's variables.
TypeOK ==
  /\ file \in Files
  /\ start \in Nat /\ now \in Nat
  /\ win \in [1 .. Win -> Bytes]
  /\ blocks \in Seq(Blocks)
  /\ pc \in {"divide", "cut", "done", "failed"}

After(b) == b.at + b.len

\* The blocks lie one after the other from the first byte on, each from MIN_SIZE to
\* MAX_SIZE long except that the last may be shorter, and in the end they are the whole
\* file: the download, which appends them in the order of their index, gives it back.
Tiles ==
  LET n == Len(blocks) IN
  /\ \A i \in 1 .. n :
       /\ blocks[i].at = IF i = 1 THEN 0 ELSE After(blocks[i - 1])
       /\ blocks[i].len \in (IF i = n /\ pc = "done" THEN 1 ELSE MinSize) .. MaxSize
  /\ pc = "done" => n > 0 /\ After(blocks[n]) = end

\* Where a block ends depends on the bytes from its beginning on and on nothing before,
\* stale as the window's last bytes are near the end of the file: those a read past the
\* end leaves in the window are the file's last byte, or what the window held at the cut.
\* Only in the first block, for which no window was read at the cut, they are 0.
ContentDefined ==
  pc = "cut" /\ now < end =>
    \A i \in 1 .. Win :
      win[i] = IF now + i <= end THEN file[now + i]
               ELSE IF start + MinSize + i <= end THEN file[end]
               ELSE IF start > 0 THEN file[start + i] ELSE 0

\* Every file is divided to its end, except an empty one.
Divided == <>(IF file = <<>> THEN pc = "failed" ELSE pc = "done")
=============================================================================
