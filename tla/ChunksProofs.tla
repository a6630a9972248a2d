---------------------------- MODULE ChunksProofs ----------------------------
(***************************************************************************)
(* Theorems about Chunks and ChunkVersions, for every file, window, pair   *)
(* of bounds and set of digests.                                           *)
(***************************************************************************)
EXTENDS ChunkVersions, WellFoundedInduction, TLAPS

\* Where the next block begins is where the last one ends.
Reached == IF blocks = <<>> THEN 0 ELSE After(blocks[Len(blocks)])

\* The inductive invariant: the blocks so far, and how far start and now are.
TileInv ==
  /\ \A i \in 1 .. Len(blocks) :
       /\ blocks[i].at = IF i = 1 THEN 0 ELSE After(blocks[i - 1])
       /\ blocks[i].len \in (IF i = Len(blocks) /\ pc = "done" THEN 1 ELSE MinSize) .. MaxSize
  /\ pc = "done" => blocks # <<>> /\ Reached = end
  /\ pc \in {"divide", "cut"} => Reached = start
  /\ pc = "divide" => start = 0 /\ now = MinSize
  /\ pc = "cut" => now - start \in MinSize .. MaxSize /\ start < end

LEMMA Sizes == MinSize \in Nat /\ MaxSize \in Nat /\ Win \in Nat /\ MinSize > 0 /\ Win > 0
               /\ Win <= MinSize /\ MinSize <= MaxSize
BY ChunksAssumption

LEMMA FileType == ASSUME TypeOK PROVE file \in Seq(Bytes) /\ end \in Nat
BY ChunksAssumption DEF TypeOK, end

LEMMA ReadType ==
  ASSUME TypeOK, NEW p \in Nat
  PROVE  Read(p) \in [1 .. Win -> Bytes]
<1> SUFFICES ASSUME NEW i \in 1 .. Win
             PROVE  (IF p + i <= end THEN file[p + i] ELSE win[i]) \in Bytes
  BY DEF Read
<1>1. file \in Seq(Bytes) /\ end = Len(file) /\ win[i] \in Bytes
  BY FileType DEF TypeOK, end
<1>2. p + i <= end => p + i \in 1 .. Len(file)
  BY <1>1, Sizes
<1> QED BY <1>1, <1>2

\* What there is after a block is written that ends at to: where it begins is where the one
\* before ends.
Written(to) ==
  /\ blocks' \in Seq(Blocks) /\ Len(blocks') = Len(blocks) + 1 /\ Len(blocks) \in Nat
  /\ \A i \in 1 .. Len(blocks) : blocks'[i] = blocks[i]
  /\ blocks'[Len(blocks')] = [at |-> start, len |-> to - start]
  /\ blocks'[Len(blocks')].at =
       IF Len(blocks') = 1 THEN 0 ELSE After(blocks'[Len(blocks') - 1])
  /\ After(blocks'[Len(blocks')]) = to

LEMMA WriteBlock ==
  ASSUME TypeOK, TileInv, pc = "cut", NEW to \in Nat, Write(to), to >= start
  PROVE  Written(to)
<1> DEFINE b == [at |-> start, len |-> to - start]
<1>1. blocks \in Seq(Blocks) /\ start \in Nat
  BY DEF TypeOK
<1>2. b \in Blocks
  BY <1>1 DEF Blocks
<1>3. blocks' = Append(blocks, b)
  BY DEF Write
<1>4. /\ blocks' \in Seq(Blocks) /\ Len(blocks') = Len(blocks) + 1
      /\ \A i \in 1 .. Len(blocks) : blocks'[i] = blocks[i]
      /\ blocks'[Len(blocks')] = b
  BY <1>1, <1>2, <1>3
<1>5. IF Len(blocks) = 0 THEN start = 0 ELSE start = After(blocks[Len(blocks)])
  BY <1>1 DEF TileInv, Reached
<1>6. b.at = IF Len(blocks') = 1 THEN 0 ELSE After(blocks'[Len(blocks') - 1])
  BY <1>1, <1>4, <1>5
<1>7. After(b) = to
  BY <1>1 DEF After
<1> QED BY <1>1, <1>4, <1>6, <1>7 DEF Written

LEMMA TypeOKNext ==
  ASSUME TypeOK, TileInv, [Next]_vars
  PROVE  TypeOK'
<1>0. end \in Nat /\ MinSize \in Nat /\ start \in Nat /\ now \in Nat /\ now + 1 \in Nat
      /\ FromCut \in Nat
  BY FileType, Sizes DEF TypeOK, FromCut
<1>1. CASE Divide
  BY <1>0, <1>1, ReadType DEF Divide, TypeOK
<1>2. CASE Cut
  <2>1. pc = "cut" /\ Write(now) /\ now >= start
    BY <1>0, <1>2, Sizes DEF Cut, TileInv
  <2>2. Written(now)
    BY <1>0, <2>1, WriteBlock
  <2> QED BY <1>0, <1>2, <2>2, ReadType DEF Cut, TypeOK, Written
<1>3. CASE Slide
  BY <1>0, <1>3, ReadType DEF Slide, TypeOK
<1>4. CASE LastBlock
  <2>1. pc = "cut" /\ Write(end) /\ end >= start
    BY <1>0, <1>4 DEF LastBlock, TileInv
  <2>2. Written(end)
    BY <1>0, <2>1, WriteBlock
  <2> QED BY <1>4, <2>2 DEF LastBlock, TypeOK, Written
<1>5. CASE UNCHANGED vars
  BY <1>5 DEF vars, TypeOK
<1> QED BY <1>1, <1>2, <1>3, <1>4, <1>5 DEF Next

LEMMA TileInvNext ==
  ASSUME TypeOK, TileInv, [Next]_vars
  PROVE  TileInv'
<1>0. /\ end \in Nat /\ MinSize \in Nat /\ MaxSize \in Nat /\ start \in Nat /\ now \in Nat
      /\ MinSize > 0 /\ MinSize <= MaxSize /\ blocks \in Seq(Blocks)
  BY FileType, Sizes DEF TypeOK
<1>1. CASE Divide
  <2>1. UNCHANGED <<blocks, start, now, end, Reached>>
    BY <1>1 DEF Divide, end, Reached
  <2>2. pc' = "cut" => now - start \in MinSize .. MaxSize /\ start < end
    BY <1>0, <1>1 DEF Divide, TileInv
  <2> QED BY <1>0, <1>1, <2>1, <2>2 DEF Divide, TileInv
<1>2. CASE Cut
  <2>1. pc = "cut" /\ pc' = "cut" /\ now < end /\ Write(now) /\ start' = now /\ now' = now + MinSize
    BY <1>2 DEF Cut, FromCut
  <2>2. now - start \in MinSize .. MaxSize
    BY <2>1 DEF TileInv
  <2>0. Written(now)
    BY <1>0, <2>1, <2>2, WriteBlock
  <2>3. \A i \in 1 .. Len(blocks') :
          /\ blocks'[i].at = IF i = 1 THEN 0 ELSE After(blocks'[i - 1])
          /\ blocks'[i].len \in MinSize .. MaxSize
    <3>1. ASSUME NEW i \in 1 .. Len(blocks')
          PROVE  /\ blocks'[i].at = IF i = 1 THEN 0 ELSE After(blocks'[i - 1])
                 /\ blocks'[i].len \in MinSize .. MaxSize
      <4>1. CASE i = Len(blocks')
        BY <2>2, <2>0, <4>1 DEF Written
      <4>2. CASE i # Len(blocks')
        <5>1. i \in 1 .. Len(blocks) /\ (i # 1 => i - 1 \in 1 .. Len(blocks))
          BY <2>0, <4>2 DEF Written
        <5>2. blocks'[i] = blocks[i] /\ (i # 1 => blocks'[i - 1] = blocks[i - 1])
          BY <2>0, <5>1 DEF Written
        <5> QED BY <2>1, <5>1, <5>2 DEF TileInv
      <4> QED BY <4>1, <4>2
    <3> QED BY <3>1
  <2>4. Reached' = start'
    BY <2>1, <2>0 DEF Written, Reached
  <2>5. now' - start' \in MinSize .. MaxSize /\ start' < end'
    BY <1>0, <1>2, <2>1 DEF Cut, end
  <2> QED BY <2>1, <2>3, <2>4, <2>5 DEF TileInv
<1>3. CASE Slide
  <2>1. UNCHANGED <<blocks, start, end, Reached>> /\ pc = "cut" /\ pc' = "cut" /\ now' = now + 1
    BY <1>3 DEF Slide, end, Reached
  <2>2. now - start < MaxSize
    BY <1>0, <1>3 DEF Slide, Boundary
  <2>3. now' - start' \in MinSize .. MaxSize /\ start' < end'
    BY <1>0, <2>1, <2>2 DEF TileInv
  <2> QED BY <2>1, <2>3 DEF TileInv
<1>4. CASE LastBlock
  <2>1. pc = "cut" /\ pc' = "done" /\ now >= end /\ Write(end) /\ end' = end
    BY <1>4 DEF LastBlock, AtEnd, end
  <2>2. end - start \in 1 .. MaxSize
    BY <1>0, <2>1 DEF TileInv
  <2>0. Written(end)
    BY <1>0, <2>1, <2>2, WriteBlock
  <2>3. \A i \in 1 .. Len(blocks') :
          /\ blocks'[i].at = IF i = 1 THEN 0 ELSE After(blocks'[i - 1])
          /\ blocks'[i].len \in (IF i = Len(blocks') THEN 1 ELSE MinSize) .. MaxSize
    <3>1. ASSUME NEW i \in 1 .. Len(blocks')
          PROVE  /\ blocks'[i].at = IF i = 1 THEN 0 ELSE After(blocks'[i - 1])
                 /\ blocks'[i].len \in (IF i = Len(blocks') THEN 1 ELSE MinSize) .. MaxSize
      <4>1. CASE i = Len(blocks')
        BY <2>2, <2>0, <4>1 DEF Written
      <4>2. CASE i # Len(blocks')
        <5>1. i \in 1 .. Len(blocks) /\ (i # 1 => i - 1 \in 1 .. Len(blocks))
          BY <2>0, <4>2 DEF Written
        <5>2. blocks'[i] = blocks[i] /\ (i # 1 => blocks'[i - 1] = blocks[i - 1])
          BY <2>0, <5>1 DEF Written
        <5> QED BY <2>1, <4>2, <5>1, <5>2 DEF TileInv
      <4> QED BY <4>1, <4>2
    <3> QED BY <3>1
  <2>4. blocks' # <<>> /\ Reached' = end'
    BY <2>1, <2>0 DEF Written, Reached
  <2> QED BY <2>1, <2>3, <2>4 DEF TileInv
<1>5. CASE UNCHANGED vars
  BY <1>5 DEF vars, TileInv, Reached, end
<1> QED BY <1>1, <1>2, <1>3, <1>4, <1>5 DEF Next

LEMMA InitOK == Init => TypeOK /\ TileInv
<1> SUFFICES ASSUME Init PROVE TypeOK /\ TileInv
  OBVIOUS
<1>1. TypeOK
  BY ChunksAssumption DEF Init, TypeOK, Blocks
<1>2. TileInv
  BY DEF Init, TileInv, Reached
<1> QED BY <1>1, <1>2

\* The loop's variables keep their types.
THEOREM ChunksTypeCorrect == Spec => []TypeOK
BY InitOK, TypeOKNext, TileInvNext, PTL DEF Spec

\* A file of any size and content is cut into blocks that lie end to end, none of them too
\* long and only the last one possibly short, and that make up the whole of it.
THEOREM ChunksTile == Spec => []Tiles
<1>1. TypeOK /\ TileInv => Tiles
  <2> SUFFICES ASSUME TypeOK, TileInv PROVE Tiles
    OBVIOUS
  <2>1. blocks \in Seq(Blocks)
    BY DEF TypeOK
  <2> QED BY <2>1 DEF TileInv, Tiles, Reached
<1> QED BY <1>1, InitOK, TypeOKNext, TileInvNext, PTL DEF Spec

----------------------------------------------------------------------------
(* What the window holds *)

\* Before the loop nothing has been read.
WindowInv == ContentDefined /\ (pc = "divide" => win = [i \in 1 .. Win |-> 0])

LEMMA WindowInvNext ==
  ASSUME TypeOK, TileInv, WindowInv, [Next]_vars
  PROVE  WindowInv'
<1>0. /\ end \in Nat /\ MinSize \in Nat /\ start \in Nat /\ now \in Nat /\ Win \in Nat
      /\ MinSize > 0 /\ Win <= MinSize
  BY FileType, Sizes DEF TypeOK
<1>1. CASE Divide
  <2> SUFFICES ASSUME pc' = "cut", NEW i \in 1 .. Win
               PROVE  win'[i] = IF now + i <= end THEN file[now + i] ELSE 0
    BY <1>0, <1>1 DEF Divide, TileInv, WindowInv, ContentDefined, end
  <2>1. pc = "divide" /\ win' = Read(now)
    BY <1>1 DEF Divide
  <2> QED BY <2>1 DEF Read, WindowInv
<1>2. CASE Cut
  <2>1. /\ pc = "cut" /\ pc' = "cut" /\ now < end /\ start' = now /\ now' = now + MinSize
        /\ win' = Read(now + MinSize) /\ file' = file /\ end' = end
    BY <1>2 DEF Cut, FromCut, end
  <2> SUFFICES ASSUME now' < end, NEW i \in 1 .. Win
               PROVE  win'[i] = IF now' + i <= end THEN file[now' + i]
                                ELSE IF start' + MinSize + i <= end THEN file[end]
                                ELSE IF start' > 0 THEN file[start' + i] ELSE 0
    BY <2>1 DEF WindowInv, ContentDefined
  <2>2. CASE now' + i <= end
    BY <2>1, <2>2 DEF Read
  <2>3. CASE ~(now' + i <= end)
    <3>1. win'[i] = win[i]
      BY <2>1, <2>3 DEF Read
    <3>2. now + i <= end /\ start' > 0
      BY <1>0, <2>1 DEF TileInv
    <3>3. win[i] = file[now + i]
      BY <2>1, <3>2 DEF WindowInv, ContentDefined
    <3> QED BY <2>1, <2>3, <3>1, <3>2, <3>3
  <2> QED BY <2>2, <2>3
<1>3. CASE Slide
  <2>1. /\ pc = "cut" /\ pc' = "cut" /\ now < end /\ start' = start /\ now' = now + 1
        /\ win' = Read(now + 1) /\ file' = file /\ end' = end
    BY <1>3 DEF Slide, end
  <2> SUFFICES ASSUME NEW i \in 1 .. Win
               PROVE  win'[i] = IF now' + i <= end THEN file[now' + i]
                                ELSE IF start + MinSize + i <= end THEN file[end]
                                ELSE IF start > 0 THEN file[start + i] ELSE 0
    BY <2>1 DEF WindowInv, ContentDefined
  <2>2. CASE now' + i <= end
    BY <2>1, <2>2 DEF Read
  <2>3. CASE ~(now' + i <= end)
    <3>1. win'[i] = win[i]
      BY <2>1, <2>3 DEF Read
    <3>2. win[i] = IF now + i <= end THEN file[now + i]
                   ELSE IF start + MinSize + i <= end THEN file[end]
                   ELSE IF start > 0 THEN file[start + i] ELSE 0
      BY <2>1 DEF WindowInv, ContentDefined
    <3>3. start + MinSize <= now
      BY <1>0, <2>1 DEF TileInv
    <3>4. now + i <= end => now + i = end /\ start + MinSize + i <= end
      BY <1>0, <2>1, <2>3, <3>3
    <3> QED BY <2>3, <3>1, <3>2, <3>4
  <2> QED BY <2>2, <2>3
<1>4. CASE LastBlock
  BY <1>4 DEF LastBlock, WindowInv, ContentDefined
<1>5. CASE UNCHANGED vars
  BY <1>5 DEF vars, WindowInv, ContentDefined, end
<1> QED BY <1>1, <1>2, <1>3, <1>4, <1>5 DEF Next

\* Where a block ends depends on the bytes from its beginning on alone, given that the
\* window is not longer than the shortest block (64 bytes and 80 K).
THEOREM ChunksContentDefined == Spec => []ContentDefined
<1>1. Init => WindowInv
  BY DEF Init, WindowInv, ContentDefined
<1>2. WindowInv => ContentDefined
  BY DEF WindowInv
<1> QED BY <1>1, <1>2, InitOK, TypeOKNext, TileInvNext, WindowInvNext, PTL DEF Spec

----------------------------------------------------------------------------
(* Where the cuts are *)

\* The window at p in a block of g that begins at a, and whether the block may end there.
Window(g, a, p) ==
  [i \in 1 .. Win |-> IF p + i <= Len(g) THEN g[p + i]
                      ELSE IF a + MinSize + i <= Len(g) THEN g[Len(g)]
                      ELSE IF a > 0 THEN g[a + i] ELSE 0]
Ends(g, a, p) == p - a >= MaxSize \/ Window(g, a, p) \in Digest

\* It may not end before z.
Uncut(g, a, z) == \A p \in a + MinSize .. z - 1 : ~Ends(g, a, p)

\* The inductive invariant: each block ends at the first place where it may, if there is one.
CutInv ==
  /\ pc \in {"divide", "failed"} => blocks = <<>>
  /\ pc = "cut" => Uncut(file, start, now)
  /\ \A i \in 1 .. Len(blocks) :
       /\ Uncut(file, blocks[i].at, After(blocks[i]))
       /\ ~(i = Len(blocks) /\ pc = "done") =>
            Ends(file, blocks[i].at, After(blocks[i])) /\ After(blocks[i]) < end

\* What is in the window is what Window says: see ContentDefined.
LEMMA WindowIs ==
  ASSUME TypeOK, WindowInv, pc = "cut", now < end
  PROVE  win = Window(file, start, now) /\ (Boundary <=> Ends(file, start, now))
<1>1. win \in [1 .. Win -> Bytes]
  BY DEF TypeOK
<1>2. \A i \in 1 .. Win : win[i] = Window(file, start, now)[i]
  BY DEF WindowInv, ContentDefined, Window, end
<1>3. win = Window(file, start, now)
  BY <1>1, <1>2 DEF Window
<1> QED BY <1>3 DEF Boundary, Ends

LEMMA CutInvNext ==
  ASSUME TypeOK, TileInv, WindowInv, CutInv, [Next]_vars
  PROVE  CutInv'
<1>0. /\ end \in Nat /\ MinSize \in Nat /\ start \in Nat /\ now \in Nat /\ blocks \in Seq(Blocks)
      /\ MinSize > 0
  BY FileType, Sizes DEF TypeOK
<1>1. CASE Divide
  <2>1. /\ UNCHANGED <<file, blocks, start, now, end>> /\ pc' \in {"cut", "failed"} /\ pc = "divide"
        /\ blocks = <<>> /\ start = 0 /\ now = MinSize
    BY <1>1 DEF Divide, end, CutInv, TileInv
  <2>2. Uncut(file, start, now)
    BY <1>0, <2>1 DEF Uncut
  <2> QED BY <2>1, <2>2 DEF CutInv
<1>2. CASE Cut
  <2>1. /\ pc = "cut" /\ pc' = "cut" /\ now < end /\ Boundary /\ Write(now) /\ start' = now
        /\ now' = now + MinSize /\ file' = file /\ end' = end
    BY <1>2 DEF Cut, FromCut, end
  <2>2. Written(now)
    BY <1>0, <2>1, WriteBlock DEF TileInv
  <2>3. Ends(file, start, now) /\ Uncut(file, start, now)
    BY <2>1, WindowIs DEF CutInv
  <2>4. Uncut(file, now, now + MinSize)
    BY <1>0 DEF Uncut
  <2>5. ASSUME NEW i \in 1 .. Len(blocks')
        PROVE  /\ Uncut(file, blocks'[i].at, After(blocks'[i]))
               /\ Ends(file, blocks'[i].at, After(blocks'[i])) /\ After(blocks'[i]) < end
    <3>1. CASE i = Len(blocks')
      <4>1. blocks'[i].at = start /\ After(blocks'[i]) = now
        BY <2>2, <3>1 DEF Written
      <4> QED BY <2>1, <2>3, <4>1
    <3>2. CASE i # Len(blocks')
      <4>1. i \in 1 .. Len(blocks) /\ blocks'[i] = blocks[i]
        BY <2>2, <3>2 DEF Written
      <4> QED BY <2>1, <4>1 DEF CutInv
    <3> QED BY <3>1, <3>2
  <2> QED BY <2>1, <2>4, <2>5 DEF CutInv
<1>3. CASE Slide
  <2>1. /\ UNCHANGED <<file, blocks, start, end>> /\ pc = "cut" /\ pc' = "cut" /\ now' = now + 1
        /\ now < end /\ ~Boundary
    BY <1>3 DEF Slide, end
  <2>2. ~Ends(file, start, now) /\ Uncut(file, start, now)
    BY <2>1, WindowIs DEF CutInv
  <2>3. Uncut(file, start, now + 1)
    BY <1>0, <2>2 DEF Uncut
  <2> QED BY <2>1, <2>3 DEF CutInv
<1>4. CASE LastBlock
  <2>1. pc = "cut" /\ pc' = "done" /\ now >= end /\ Write(end) /\ file' = file /\ end' = end
    BY <1>4 DEF LastBlock, AtEnd, end
  <2>2. Written(end)
    BY <1>0, <2>1, WriteBlock DEF TileInv
  <2>3. Uncut(file, start, end)
    BY <1>0, <2>1 DEF CutInv, Uncut
  <2>4. ASSUME NEW i \in 1 .. Len(blocks')
        PROVE  /\ Uncut(file, blocks'[i].at, After(blocks'[i]))
               /\ i # Len(blocks') =>
                    Ends(file, blocks'[i].at, After(blocks'[i])) /\ After(blocks'[i]) < end
    <3>1. CASE i = Len(blocks')
      <4>1. blocks'[i].at = start /\ After(blocks'[i]) = end
        BY <2>2, <3>1 DEF Written
      <4> QED BY <2>3, <3>1, <4>1
    <3>2. CASE i # Len(blocks')
      <4>1. i \in 1 .. Len(blocks) /\ blocks'[i] = blocks[i]
        BY <2>2, <3>2 DEF Written
      <4> QED BY <2>1, <4>1 DEF CutInv
    <3> QED BY <3>1, <3>2
  <2> QED BY <2>1, <2>4 DEF CutInv
<1>5. CASE UNCHANGED vars
  BY <1>5 DEF vars, CutInv, end
<1> QED BY <1>1, <1>2, <1>3, <1>4, <1>5 DEF Next

----------------------------------------------------------------------------
(* Two files that end alike *)

\* Every set of numbers has a least one: the induction of this section.
Below == {ss \in Nat \X Nat : ss[1] < ss[2]}

LEMMA BelowWellFounded == IsWellFoundedOn(Below, Nat)
<1>1. IsWellFoundedOn(OpToRel(<, Nat), Nat)
  BY NatLessThanWellFounded
<1> QED BY <1>1 DEF OpToRel, Below

LEMMA Least ==
  ASSUME NEW T \in SUBSET Nat, T # {}
  PROVE  \E x \in T : \A y \in T : x <= y
<1>1. PICK x \in T : \A y \in T : <<y, x>> \notin Below
  BY BelowWellFounded, WFMin
<1>2. ASSUME NEW y \in T PROVE x <= y
  <2>1. x \in Nat /\ y \in Nat
    OBVIOUS
  <2>2. ~(y < x)
    BY <1>1, <2>1 DEF Below
  <2> QED BY <2>1, <2>2
<1> QED BY <1>2

\* What a division is when it is over: TileInv and CutInv, of a file and its blocks. There
\* are none when it has failed.
Over(g, bs) ==
  /\ g \in Seq(Bytes) /\ bs \in Seq(Blocks)
  /\ \A i \in 1 .. Len(bs) :
       /\ bs[i].at = IF i = 1 THEN 0 ELSE After(bs[i - 1])
       /\ bs[i].len >= (IF i = Len(bs) THEN 1 ELSE MinSize)
       /\ Uncut(g, bs[i].at, After(bs[i]))
       /\ IF i = Len(bs) THEN After(bs[i]) = Len(g)
                         ELSE Ends(g, bs[i].at, After(bs[i])) /\ After(bs[i]) < Len(g)

LEMMA WhenOver ==
  ASSUME TypeOK, TileInv, CutInv, pc \in {"done", "failed"}
  PROVE  Over(file, blocks)
<1>0. /\ file \in Seq(Bytes) /\ blocks \in Seq(Blocks) /\ end = Len(file)
      /\ MinSize \in Nat /\ MaxSize \in Nat
  BY FileType, Sizes DEF TypeOK, end
<1>1. CASE pc = "failed"
  BY <1>0, <1>1 DEF CutInv, Over
<1>2. CASE pc = "done"
  <2> SUFFICES ASSUME NEW i \in 1 .. Len(blocks)
               PROVE  /\ blocks[i].at = IF i = 1 THEN 0 ELSE After(blocks[i - 1])
                      /\ blocks[i].len >= (IF i = Len(blocks) THEN 1 ELSE MinSize)
                      /\ Uncut(file, blocks[i].at, After(blocks[i]))
                      /\ IF i = Len(blocks) THEN After(blocks[i]) = end
                         ELSE Ends(file, blocks[i].at, After(blocks[i])) /\ After(blocks[i]) < end
    BY <1>0 DEF Over
  <2>1. blocks[i].at = IF i = 1 THEN 0 ELSE After(blocks[i - 1])
    BY DEF TileInv
  <2>2. blocks[i].len >= (IF i = Len(blocks) THEN 1 ELSE MinSize)
    BY <1>0, <1>2 DEF TileInv
  <2>3. i = Len(blocks) => After(blocks[i]) = end
    BY <1>0, <1>2 DEF TileInv, Reached
  <2>4. Uncut(file, blocks[i].at, After(blocks[i]))
    BY DEF CutInv
  <2>5. i # Len(blocks) => Ends(file, blocks[i].at, After(blocks[i])) /\ After(blocks[i]) < end
    BY DEF CutInv
  <2> QED BY <2>1, <2>2, <2>3, <2>4, <2>5
<1> QED BY <1>1, <1>2

\* Where a block of a finished division begins, and where the next one does.
LEMMA OneBlock ==
  ASSUME NEW g, NEW bs, Over(g, bs), NEW i \in 1 .. Len(bs)
  PROVE  /\ bs[i].at \in Nat /\ After(bs[i]) \in Nat /\ bs[i].at < After(bs[i])
         /\ Len(g) \in Nat /\ After(bs[i]) <= Len(g)
         /\ i < Len(bs) => /\ i + 1 \in 1 .. Len(bs) /\ bs[i + 1].at = After(bs[i])
                           /\ After(bs[i]) >= bs[i].at + MinSize
         /\ i > 1 => bs[i].at > 0
<1>0. MinSize \in Nat /\ MinSize > 0 /\ Len(g) \in Nat /\ Len(bs) \in Nat
  BY Sizes DEF Over
<1>1. \A k \in 1 .. Len(bs) : bs[k].at \in Nat /\ bs[k].len \in Nat
  <2>1. bs \in Seq(Blocks)
    BY DEF Over
  <2>2. \A k \in 1 .. Len(bs) : bs[k] \in Blocks
    BY <2>1
  <2> QED BY <2>2 DEF Blocks
<1>2. \A k \in 1 .. Len(bs) : bs[k].len > 0 /\ (k < Len(bs) => bs[k].len >= MinSize)
  <2> SUFFICES ASSUME NEW k \in 1 .. Len(bs)
               PROVE  bs[k].len > 0 /\ (k < Len(bs) => bs[k].len >= MinSize)
    OBVIOUS
  <2>1. bs[k].len >= (IF k = Len(bs) THEN 1 ELSE MinSize)
    BY DEF Over
  <2> QED BY <1>0, <1>1, <2>1
<1>3. After(bs[i]) = bs[i].at + bs[i].len
  BY DEF After
<1>4. After(bs[i]) <= Len(g)
  BY <1>0, <1>1, <1>3 DEF Over
<1>5. i < Len(bs) => i + 1 \in 1 .. Len(bs) /\ bs[i + 1].at = After(bs[i])
  <2> SUFFICES ASSUME i < Len(bs) PROVE i + 1 \in 1 .. Len(bs) /\ bs[i + 1].at = After(bs[i])
    OBVIOUS
  <2>1. i + 1 \in 1 .. Len(bs) /\ i + 1 # 1 /\ (i + 1) - 1 = i
    BY <1>0
  <2> QED BY <2>1 DEF Over
<1>6. i > 1 => bs[i].at > 0
  <2> SUFFICES ASSUME i > 1 PROVE bs[i].at > 0
    OBVIOUS
  <2>1. i - 1 \in 1 .. Len(bs) /\ i # 1
    BY <1>0
  <2>2. bs[i].at = bs[i - 1].at + bs[i - 1].len
    BY <2>1 DEF Over, After
  <2> QED BY <1>1, <1>2, <2>1, <2>2
<1> QED BY <1>0, <1>1, <1>2, <1>3, <1>4, <1>5, <1>6

\* Later blocks begin later.
LEMMA Increasing ==
  ASSUME NEW g, NEW bs, Over(g, bs), NEW i \in 1 .. Len(bs), NEW j \in 1 .. Len(bs), i < j
  PROVE  bs[i].at < bs[j].at
<1> DEFINE T == {k \in 1 .. Len(bs) : i < k /\ ~(bs[i].at < bs[k].at)}
<1> SUFFICES ASSUME T # {} PROVE FALSE
  OBVIOUS
<1>0. Len(bs) \in Nat /\ T \in SUBSET Nat
  BY DEF Over
<1>1. PICK k \in T : \A y \in T : k <= y
  BY <1>0, Least
<1>2. PICK e \in 1 .. Len(bs) : e = k - 1
  BY <1>0, <1>1
<1>3. e \notin T /\ e < Len(bs) /\ e + 1 = k /\ i <= e
  BY <1>0, <1>1, <1>2
<1>4. /\ bs[k].at = After(bs[e]) /\ bs[e].at < After(bs[e])
      /\ bs[e].at \in Nat /\ After(bs[e]) \in Nat /\ bs[i].at \in Nat
  BY <1>3, OneBlock
<1>5. bs[i].at <= bs[e].at
  BY <1>2, <1>3, <1>4
<1>6. ~(bs[i].at < bs[k].at)
  BY <1>1
<1> QED BY <1>4, <1>5, <1>6

\* In blocks that begin at the same distance k from the end, both behind the first cut, the
\* same places are good for a cut, if the files are the same from there on.
LEMMA SameEnds ==
  ASSUME NEW f \in Seq(Bytes), NEW g \in Seq(Bytes), NEW a \in Nat, NEW b \in Nat, NEW n \in Nat,
         a > 0, b > 0, Len(f) - a = Len(g) - b, Len(f) - a <= n, Alike(f, g, n),
         NEW m \in Nat, m > 0, m + MinSize <= Len(f) - a
  PROVE  Ends(f, a, Len(f) - m) <=> Ends(g, b, Len(g) - m)
<1>0. /\ Len(f) \in Nat /\ Len(g) \in Nat /\ MinSize \in Nat /\ Win \in Nat /\ Win <= MinSize
      /\ MaxSize \in Nat
  BY Sizes
<1>1. \A i \in Nat : i < n => f[Len(f) - i] = g[Len(g) - i]
  BY <1>0 DEF Alike
<1>2. ASSUME NEW i \in 1 .. Win
      PROVE  Window(f, a, Len(f) - m)[i] = Window(g, b, Len(g) - m)[i]
  <2>1. CASE i <= m
    <3>0. m - i \in Nat /\ m - i < n
      BY <1>0, <2>1
    <3>1. f[Len(f) - (m - i)] = g[Len(g) - (m - i)]
      BY <1>1, <3>0
    <3>2. Len(f) - (m - i) = (Len(f) - m) + i /\ Len(g) - (m - i) = (Len(g) - m) + i
      BY <1>0
    <3>3. (Len(f) - m) + i <= Len(f) /\ (Len(g) - m) + i <= Len(g)
      BY <1>0, <2>1
    <3> QED BY <3>1, <3>2, <3>3 DEF Window
  <2>2. CASE ~(i <= m) /\ a + MinSize + i <= Len(f)
    <3>0. 0 \in Nat /\ 0 < n
      BY <1>0
    <3>1. f[Len(f) - 0] = g[Len(g) - 0]
      BY <1>1, <3>0
    <3>2. ~((Len(f) - m) + i <= Len(f)) /\ ~((Len(g) - m) + i <= Len(g))
      BY <1>0, <2>2
    <3>3. b + MinSize + i <= Len(g) /\ Len(f) - 0 = Len(f) /\ Len(g) - 0 = Len(g)
      BY <1>0, <2>2
    <3> QED BY <2>2, <3>1, <3>2, <3>3 DEF Window
  <2>3. CASE ~(i <= m) /\ ~(a + MinSize + i <= Len(f))
    <3>1. ~((Len(f) - m) + i <= Len(f)) /\ ~((Len(g) - m) + i <= Len(g))
      BY <1>0, <2>3
    <3>2. ~(b + MinSize + i <= Len(g))
      BY <1>0, <2>3
    <3>3. f[a + i] = g[b + i]
      <4>1. (Len(f) - a) - i \in Nat /\ (Len(f) - a) - i < n
        BY <1>0
      <4>2. f[Len(f) - ((Len(f) - a) - i)] = g[Len(g) - ((Len(f) - a) - i)]
        BY <1>1, <4>1
      <4>3. Len(f) - ((Len(f) - a) - i) = a + i /\ Len(g) - ((Len(f) - a) - i) = b + i
        BY <1>0
      <4> QED BY <4>2, <4>3
    <3> QED BY <2>3, <3>1, <3>2, <3>3 DEF Window
  <2> QED BY <2>1, <2>2, <2>3
<1>3. Window(f, a, Len(f) - m) = Window(g, b, Len(g) - m)
  BY <1>2 DEF Window
<1>4. (Len(f) - m) - a = (Len(g) - m) - b
  BY <1>0
<1> QED BY <1>3, <1>4 DEF Ends

LEMMA AlikeSymmetric ==
  ASSUME NEW f, NEW g, NEW n, Alike(f, g, n)
  PROVE  Alike(g, f, n)
BY DEF Alike

\* Where both have a cut, in what they have in common, the one has no cut next that the
\* other one has not.
LEMMA NextCut ==
  ASSUME NEW f, NEW bs, Over(f, bs), NEW g, NEW cs, Over(g, cs), NEW n \in Nat, Alike(f, g, n),
         NEW i \in 2 .. Len(bs), NEW j \in 2 .. Len(cs),
         Len(f) - bs[i].at = Len(g) - cs[j].at, Len(f) - bs[i].at <= n, i < Len(bs)
  PROVE  j < Len(cs) /\ Len(f) - bs[i + 1].at = Len(g) - cs[j + 1].at
<1> DEFINE a == bs[i].at
           b == cs[j].at
           y == After(bs[i])
           z == After(cs[j])
<1>1. /\ f \in Seq(Bytes) /\ g \in Seq(Bytes) /\ Len(f) \in Nat /\ Len(g) \in Nat
      /\ Len(bs) \in Nat /\ Len(cs) \in Nat /\ MinSize \in Nat
      /\ i \in 1 .. Len(bs) /\ j \in 1 .. Len(cs)
  BY Sizes DEF Over
<1>2. /\ a \in Nat /\ y \in Nat /\ a > 0 /\ b \in Nat /\ z \in Nat /\ b > 0 /\ z <= Len(g) /\ b < z
      /\ i + 1 \in 1 .. Len(bs) /\ bs[i + 1].at = y /\ y >= a + MinSize
      /\ j < Len(cs) => j + 1 \in 1 .. Len(cs) /\ cs[j + 1].at = z /\ z >= b + MinSize
  BY <1>1, OneBlock
<1>3. Ends(f, a, y) /\ y < Len(f) /\ Uncut(f, a, y)
  BY <1>1 DEF Over
<1>4. Uncut(g, b, z) /\ (j = Len(cs) => z = Len(g)) /\ (j # Len(cs) => Ends(g, b, z) /\ z < Len(g))
  BY <1>1 DEF Over
<1> HIDE DEF a, b, y, z
<1>5. Len(f) - a = Len(g) - b /\ Len(f) - a <= n
  BY DEF a, b
\* The cut of f is a place where g may be cut.
<1>6. Ends(g, b, Len(g) - (Len(f) - y))
  <2>1. PICK m \in Nat : m = Len(f) - y
    BY <1>1, <1>2, <1>3
  <2>2. m > 0 /\ m + MinSize <= Len(f) - a /\ Len(f) - m = y
    BY <1>1, <1>2, <1>3, <2>1
  <2>3. Ends(f, a, Len(f) - m) <=> Ends(g, b, Len(g) - m)
    BY <1>1, <1>2, <1>5, <2>2, SameEnds
  <2> QED BY <1>3, <2>1, <2>2, <2>3
<1>7. Len(g) - (Len(f) - y) \in Nat /\ Len(g) - (Len(f) - y) >= b + MinSize
  <2>1. /\ Len(f) \in Nat /\ Len(g) \in Nat /\ MinSize \in Nat /\ a \in Nat /\ b \in Nat /\ y \in Nat
        /\ y >= a + MinSize /\ Len(f) - a = Len(g) - b
    BY <1>1, <1>2, <1>5
  <2> QED BY <2>1
<1>8. ~(Len(g) - (Len(f) - y) < z)
  BY <1>1, <1>2, <1>4, <1>6, <1>7 DEF Uncut
<1>9. j < Len(cs)
  BY <1>1, <1>2, <1>3, <1>4, <1>8
\* And the other way round.
<1>10. z < Len(g) /\ Ends(g, b, z)
  BY <1>1, <1>4, <1>9
<1>11. z >= b + MinSize
  BY <1>2, <1>9
<1>12. Ends(f, a, Len(f) - (Len(g) - z))
  <2>1. PICK m \in Nat : m = Len(g) - z
    BY <1>1, <1>2, <1>10
  <2>2. m > 0 /\ m + MinSize <= Len(f) - a /\ Len(g) - m = z
    BY <1>1, <1>2, <1>5, <1>10, <1>11, <2>1
  <2>3. Ends(f, a, Len(f) - m) <=> Ends(g, b, Len(g) - m)
    BY <1>1, <1>2, <1>5, <2>2, SameEnds
  <2> QED BY <1>10, <2>1, <2>2, <2>3
<1>13. Len(f) - (Len(g) - z) \in Nat /\ Len(f) - (Len(g) - z) >= a + MinSize
  <2>1. /\ Len(f) \in Nat /\ Len(g) \in Nat /\ MinSize \in Nat /\ a \in Nat /\ b \in Nat /\ z \in Nat
        /\ Len(f) - a = Len(g) - b
    BY <1>1, <1>2, <1>5
  <2> QED BY <1>11, <2>1
<1>14. ~(Len(f) - (Len(g) - z) < y)
  BY <1>1, <1>2, <1>3, <1>12, <1>13 DEF Uncut
<1>15. Len(f) - y = Len(g) - z
  BY <1>1, <1>2, <1>8, <1>14
<1> QED BY <1>2, <1>9, <1>15 DEF y, z

\* So none of the later ones either: take the first that is missing.
LEMMA LaterCuts ==
  ASSUME NEW f, NEW bs, Over(f, bs), NEW g, NEW cs, Over(g, cs),
         NEW n \in Cuts(bs, Len(f)) \cap Cuts(cs, Len(g)), Alike(f, g, n),
         NEW m \in Cuts(bs, Len(f)), m < n
  PROVE  m \in Cuts(cs, Len(g))
<1>1. PICK i \in 2 .. Len(bs) : n = Len(f) - bs[i].at
  BY DEF Cuts
<1>2. PICK h \in 2 .. Len(bs) : m = Len(f) - bs[h].at
  BY DEF Cuts
<1> DEFINE T == {k \in 1 .. Len(bs) : i < k /\ Len(f) - bs[k].at \notin Cuts(cs, Len(g))}
<1> SUFFICES ASSUME m \notin Cuts(cs, Len(g)) PROVE FALSE
  OBVIOUS
<1>3. /\ Len(f) \in Nat /\ Len(bs) \in Nat /\ T \in SUBSET Nat /\ i \in 1 .. Len(bs) /\ h \in 1 .. Len(bs)
      /\ \A k \in 1 .. Len(bs) : bs[k].at \in Nat /\ bs[k].at <= Len(f)
  <2>1. \A k \in 1 .. Len(bs) : bs[k].at \in Nat /\ bs[k].at < After(bs[k]) /\ After(bs[k]) <= Len(f)
                                /\ After(bs[k]) \in Nat /\ Len(f) \in Nat
    BY OneBlock
  <2> QED BY <2>1 DEF Over
<1>4. i < h
  <2>1. bs[i].at < bs[h].at
    BY <1>1, <1>2, <1>3
  <2>2. h < i => bs[h].at < bs[i].at
    BY <1>3, Increasing
  <2> QED BY <1>3, <2>1, <2>2
<1>5. h \in T
  BY <1>2, <1>3, <1>4
<1>6. PICK k \in T : \A y \in T : k <= y
  BY <1>3, <1>5, Least
<1>7. PICK e \in 2 .. Len(bs) : e = k - 1
  BY <1>3, <1>6
<1>8. e \in 1 .. Len(bs) /\ e < Len(bs) /\ e + 1 = k /\ i <= e /\ e \notin T
  BY <1>3, <1>6, <1>7
<1>9. Len(f) - bs[e].at \in Cuts(cs, Len(g))
  BY <1>1, <1>3, <1>8
<1>10. PICK j \in 2 .. Len(cs) : Len(f) - bs[e].at = Len(g) - cs[j].at
  BY <1>9 DEF Cuts
<1>11. n \in Nat /\ Len(f) - bs[e].at <= n
  <2>1. bs[i].at <= bs[e].at
    BY <1>3, <1>8, Increasing
  <2>2. /\ bs[i].at \in Nat /\ bs[e].at \in Nat /\ Len(f) \in Nat /\ bs[i].at <= Len(f)
        /\ n = Len(f) - bs[i].at
    BY <1>1, <1>3, <1>8
  <2>3. \A p, q, r \in Nat : p <= q /\ p <= r => r - p \in Nat /\ r - q <= r - p
    OBVIOUS
  <2> QED BY <2>1, <2>2, <2>3
<1>12. j < Len(cs) /\ Len(f) - bs[k].at = Len(g) - cs[j + 1].at
  BY <1>10, <1>11, <1>8, NextCut
<1>13. j + 1 \in 2 .. Len(cs)
  BY <1>12 DEF Over
<1> QED BY <1>6, <1>12, <1>13 DEF Cuts

\* The uploads before this one are divisions that are over.
BeforeInv == \A d \in before : Over(d.file, d.blocks)

ResyncInv == TypeOK /\ TileInv /\ WindowInv /\ CutInv /\ BeforeInv

LEMMA InitInv == Init => TypeOK /\ TileInv /\ WindowInv /\ CutInv
<1>1. Init => WindowInv
  BY DEF Init, WindowInv, ContentDefined
<1>2. Init => CutInv
  BY DEF Init, CutInv
<1> QED BY <1>1, <1>2, InitOK

LEMMA ResyncInvNext == ResyncInv /\ [VersionsNext]_<<vars, before>> => ResyncInv'
<1> SUFFICES ASSUME ResyncInv, [VersionsNext]_<<vars, before>> PROVE ResyncInv'
  OBVIOUS
<1> USE DEF ResyncInv
<1>1. CASE [Next]_vars /\ UNCHANGED before
  BY <1>1, TypeOKNext, TileInvNext, WindowInvNext, CutInvNext DEF BeforeInv
<1>2. CASE Again
  <2>1. Init'
    BY <1>2 DEF Again, Init
  <2>2. TypeOK' /\ TileInv' /\ WindowInv' /\ CutInv'
    BY <2>1, InitInv, PTL
  <2>3. Over(file, blocks)
    BY <1>2, WhenOver DEF Again
  <2>4. before' = before \cup {[file |-> file, blocks |-> blocks]}
    BY <1>2 DEF Again
  <2>5. BeforeInv'
    BY <2>3, <2>4 DEF BeforeInv
  <2> QED BY <2>2, <2>5
<1> QED BY <1>1, <1>2 DEF VersionsNext

\* However two files begin: once they have a cut in common in what they share at the end,
\* they share all further ones, however many uploads lie between the two.
THEOREM ChunksResync == VersionsSpec => []Resync
<1>1. VersionsInit => ResyncInv
  BY InitInv DEF VersionsInit, ResyncInv, BeforeInv
<1>2. ResyncInv => Resync
  <2> SUFFICES ASSUME ResyncInv, pc = "done", NEW d \in before,
                      NEW n \in Cuts(d.blocks, Len(d.file)) \cap Cuts(blocks, end),
                      Alike(d.file, file, n)
               PROVE  {m \in Cuts(d.blocks, Len(d.file)) : m < n} = {m \in Cuts(blocks, end) : m < n}
    BY DEF Resync
  <2>1. Over(d.file, d.blocks) /\ Over(file, blocks) /\ end = Len(file)
    BY WhenOver DEF ResyncInv, BeforeInv, end
  <2>2. \A m \in Cuts(d.blocks, Len(d.file)) : m < n => m \in Cuts(blocks, end)
    BY <2>1, LaterCuts
  <2>3. Alike(file, d.file, n)
    BY AlikeSymmetric
  <2>4. \A m \in Cuts(blocks, end) : m < n => m \in Cuts(d.blocks, Len(d.file))
    BY <2>1, <2>3, LaterCuts
  <2> QED BY <2>2, <2>4
<1> QED BY <1>1, <1>2, ResyncInvNext, PTL DEF VersionsSpec
=============================================================================
