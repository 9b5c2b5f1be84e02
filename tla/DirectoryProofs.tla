-------------------------- MODULE DirectoryProofs --------------------------
(***************************************************************************)
(* Theorems about the blocks of a directory, for every block size, every   *)
(* set of names and widths and every sequence of insertions, removals and  *)
(* moves: the chains tile their blocks, the directory is a map, and the    *)
(* room of a removed name can be used again.                               *)
(***************************************************************************)
EXTENDS Directory, WellFoundedInduction, TLAPS

\* Leaves are tried with the SMT solver and then with Zenon, within 30 seconds.
USE SMTT(30), ZenonT(30)

Block == UNION {[cursors -> Entry] : cursors \in SUBSET (0 .. BLOCK_SIZE - 1)}

\* What WellFormed says of one block.
Fits(c) ==
    /\ Tiles(c)
    /\ \A o \in DOMAIN c : true_size(c[o]) <= c[o].size
    /\ \A o \in DOMAIN c : c[o].inode = 0 => o = 0

\* What WellFormed says of the directory bs.
Good(bs) ==
    /\ bs \in Seq(Block) /\ Len(bs) \in 1 .. MaxBlocks
    /\ \A i \in DOMAIN bs : Fits(bs[i])

\* A name is in the directory at most once.
Unique(bs) == \A p, q \in Live(bs) : At(bs, p).name = At(bs, q).name => p = q

\* "." and ".." are in the directory.
Dotted(bs) == \A x \in {".", ".."} : name_in(bs, x)

IInv == Good(blocks) /\ Unique(blocks) /\ Dotted(blocks)

-----------------------------------------------------------------------------
(* Blocks, positions and the order of a scan.                              *)

\* A block is a function from cursors within it to entries.
LEMMA BlockIs ==
    ASSUME NEW c
    PROVE  c \in Block <=> /\ DOMAIN c \subseteq 0 .. BLOCK_SIZE - 1
                           /\ c \in [DOMAIN c -> Entry]
<1>1. ASSUME c \in Block
      PROVE  DOMAIN c \subseteq 0 .. BLOCK_SIZE - 1 /\ c \in [DOMAIN c -> Entry]
  <2>1. PICK cursors \in SUBSET (0 .. BLOCK_SIZE - 1) : c \in [cursors -> Entry]
    BY <1>1 DEF Block
  <2> QED BY <2>1
<1>2. ASSUME DOMAIN c \subseteq 0 .. BLOCK_SIZE - 1, c \in [DOMAIN c -> Entry]
      PROVE  c \in Block
  BY <1>2 DEF Block
<1> QED BY <1>1, <1>2

\* Every entry takes room, also one without a name.
LEMMA TrueSize ==
    ASSUME NEW e \in Entry
    PROVE  true_size(e) \in Nat /\ true_size(e) > 0
<1>1. e.name \in Names \/ e.name = NoName
  BY DEF Entry
<1>2. e.name \in Names => Width(e.name) \in Nat /\ Width(e.name) > Header
  BY EntryAssumption
<1>3. Header \in Nat /\ Header > 0
  BY EntryAssumption
<1> QED BY <1>1, <1>2, <1>3 DEF true_size

\* What an entry needs depends on its name only.
LEMMA SameTrueSize ==
    ASSUME NEW d, NEW e, d.name = e.name
    PROVE  true_size(d) = true_size(e)
BY DEF true_size

\* The positions of a directory are the cursors of its blocks.
LEMMA PositionIs ==
    ASSUME NEW bs
    PROVE  /\ \A i, o : <<i, o>> \in Positions(bs) <=> i \in DOMAIN bs /\ o \in DOMAIN bs[i]
           /\ \A p \in Positions(bs) :
                p = <<p[1], p[2]>> /\ p[1] \in DOMAIN bs /\ p[2] \in DOMAIN bs[p[1]]
<1>1. ASSUME NEW p \in Positions(bs)
      PROVE  p = <<p[1], p[2]>> /\ p[1] \in DOMAIN bs /\ p[2] \in DOMAIN bs[p[1]]
  <2>1. PICK i \in DOMAIN bs : p \in {i} \X DOMAIN bs[i]
    BY DEF Positions
  <2> QED BY <2>1
<1>2. ASSUME NEW i, NEW o, i \in DOMAIN bs, o \in DOMAIN bs[i]
      PROVE  <<i, o>> \in Positions(bs)
  BY <1>2 DEF Positions
<1>3. ASSUME NEW i, NEW o, <<i, o>> \in Positions(bs)
      PROVE  i \in DOMAIN bs /\ o \in DOMAIN bs[i]
  <2>1. PICK k \in DOMAIN bs : <<i, o>> \in {k} \X DOMAIN bs[k]
    BY <1>3 DEF Positions
  <2> QED BY <2>1
<1> QED BY <1>1, <1>2, <1>3

\* A set of natural numbers has a least element.
LEMMA LeastOf ==
    ASSUME NEW S \in SUBSET Nat, S # {}
    PROVE  \E x \in S : \A y \in S : x <= y
<1>1. PICK x \in S : \A y \in S : ~(<<y, x>> \in OpToRel(<, Nat))
  BY NatLessThanWellFounded, WFMin
<1>2. ASSUME NEW y \in S PROVE x <= y
  <2>1. x \in Nat /\ y \in Nat
    OBVIOUS
  <2>2. ~(y < x)
    <3>1. y < x => <<y, x>> \in {ss \in Nat \X Nat : ss[1] < ss[2]}
      BY <2>1
    <3> QED BY <1>1, <3>1 DEF OpToRel
  <2> QED BY <2>1, <2>2
<1> QED BY <1>2

\* A scan that has something to find finds it.
LEMMA FirstIn ==
    ASSUME NEW ps, ps # {}, ps \subseteq Nat \X Nat
    PROVE  First(ps) \in ps
<1>1. PICK i \in {p[1] : p \in ps} : \A k \in {p[1] : p \in ps} : i <= k
  <2>1. {p[1] : p \in ps} \in SUBSET Nat /\ {p[1] : p \in ps} # {}
    OBVIOUS
  <2> QED BY ZenonT(30), <2>1, LeastOf
<1>2. PICK o \in {p[2] : p \in {r \in ps : r[1] = i}} :
            \A k \in {p[2] : p \in {r \in ps : r[1] = i}} : o <= k
  <2>1. /\ {p[2] : p \in {r \in ps : r[1] = i}} \in SUBSET Nat
        /\ {p[2] : p \in {r \in ps : r[1] = i}} # {}
    OBVIOUS
  <2> QED BY ZenonT(30), <2>1, LeastOf
<1>3. PICK p \in ps : p[1] = i /\ p[2] = o
  OBVIOUS
<1>4. ASSUME NEW q \in ps PROVE p[1] < q[1] \/ (p[1] = q[1] /\ p[2] <= q[2])
  <2>1. p[1] \in Nat /\ q[1] \in Nat /\ p[1] <= q[1]
    BY <1>1, <1>3
  <2>2. q[1] = i => p[2] <= q[2]
    BY <1>2, <1>3
  <2> QED BY <2>1, <2>2, <1>3
<1> QED BY <1>3, <1>4 DEF First

\* The positions of a directory are pairs of numbers.
LEMMA PositionNat ==
    ASSUME NEW bs \in Seq(Block)
    PROVE  /\ Positions(bs) \subseteq Nat \X Nat
           /\ \A p \in Positions(bs) : At(bs, p) \in Entry
           /\ Live(bs) \subseteq Positions(bs)
<1>1. ASSUME NEW p \in Positions(bs) PROVE p \in Nat \X Nat /\ At(bs, p) \in Entry
  <2>1. p = <<p[1], p[2]>> /\ p[1] \in DOMAIN bs /\ p[2] \in DOMAIN bs[p[1]]
    BY PositionIs
  <2>2. p[1] \in Nat /\ bs[p[1]] \in Block
    BY <2>1
  <2>3. p[2] \in 0 .. BLOCK_SIZE - 1 /\ bs[p[1]][p[2]] \in Entry
    BY <2>1, <2>2, BlockIs
  <2> QED BY <2>1, <2>2, <2>3 DEF At
<1> QED BY <1>1 DEF Live
-----------------------------------------------------------------------------
(* What the calls do to one block.                                         *)

\* Block d has the entries of c and, at cursor q, a new one.
Gains(c, d, q, name, n) ==
    /\ DOMAIN d = DOMAIN c \cup {q}
    /\ q \in DOMAIN c => c[q].inode = 0
    /\ d[q].inode = n /\ d[q].name = name
    /\ \A x \in DOMAIN c \ {q} : d[x].inode = c[x].inode /\ d[x].name = c[x].name

\* Block d has the entries of c but the one at cursor o.
Loses(c, d, o) ==
    /\ DOMAIN d = DOMAIN c \ {o}
    /\ \A x \in DOMAIN d : d[x].inode = c[x].inode /\ d[x].name = c[x].name

\* Block d is c with another inode number at cursor o.
Rewrites(c, d, o, n) ==
    /\ DOMAIN d = DOMAIN c /\ d[o].inode = n /\ d[o].name = c[o].name /\ d[o].size = c[o].size
    /\ \A x \in DOMAIN c \ {o} : d[x] = c[x]

\* The arithmetic of a chain: entries are not empty and end within the block.
LEMMA ChainFacts ==
    ASSUME NEW c \in Block, Fits(c), NEW o \in DOMAIN c
    PROVE  /\ o \in Nat /\ c[o] \in Entry /\ c[o].size \in Nat /\ true_size(c[o]) \in Nat
           /\ 0 < true_size(c[o]) /\ true_size(c[o]) <= c[o].size
           /\ o + c[o].size <= BLOCK_SIZE
<1>1. o \in 0 .. BLOCK_SIZE - 1 /\ c[o] \in Entry
  BY BlockIs
<1>2. c[o].size \in Nat
  BY <1>1 DEF Entry
<1>3. true_size(c[o]) \in Nat /\ true_size(c[o]) > 0
  BY <1>1, TrueSize
<1>4. true_size(c[o]) <= c[o].size
  BY DEF Fits
<1>5. o + c[o].size <= BLOCK_SIZE
  <2>1. o + c[o].size \in DOMAIN c \cup {BLOCK_SIZE}
    BY DEF Fits, Tiles
  <2>2. DOMAIN c \subseteq 0 .. BLOCK_SIZE - 1
    BY BlockIs
  <2> QED BY <1>1, <1>2, <2>1, <2>2, EntryAssumption
<1> QED BY <1>1, <1>2, <1>3, <1>4, <1>5

\* An unused entry is taken over whole.
LEMMA TakeoverFits ==
    ASSUME NEW c \in Block, Fits(c), NEW o \in DOMAIN c, NEW name \in Names,
           NEW n \in Inode, NEW d, c[o].inode = 0, Width(name) <= c[o].size,
           d = [c EXCEPT ![o] = [inode |-> n, name |-> name, size |-> c[o].size]]
    PROVE  d \in Block /\ Fits(d) /\ Gains(c, d, o, name, n)
<1>1. DOMAIN c \subseteq 0 .. BLOCK_SIZE - 1 /\ c \in [DOMAIN c -> Entry]
  BY BlockIs
<1>2. /\ DOMAIN d = DOMAIN c /\ d[o] = [inode |-> n, name |-> name, size |-> c[o].size]
      /\ \A x \in DOMAIN c \ {o} : d[x] = c[x]
  BY <1>1
<1>3. c[o].size \in Nat
  BY ChainFacts
<1>4. d[o] \in Entry
  BY <1>2, <1>3 DEF Entry
<1>5. d \in Block
  <2>1. d \in [DOMAIN d -> Entry]
    BY <1>1, <1>2, <1>3 DEF Entry
  <2> QED BY ZenonT(30), <1>1, <1>2, <2>1, BlockIs
<1>6. \A x \in DOMAIN c : d[x].size = c[x].size
  BY <1>2
<1>7. Tiles(d)
  BY <1>2, <1>6, ZenonT(30) DEF Fits, Tiles
<1>8. \A x \in DOMAIN d : true_size(d[x]) <= d[x].size
  <2>1. true_size(d[o]) = Width(name)
    <3>1. name # NoName
      BY EntryAssumption DEF Names, NoName
    <3> QED BY <1>2, <3>1 DEF true_size
  <2>2. \A x \in DOMAIN c \ {o} : true_size(d[x]) <= d[x].size
    BY <1>2 DEF Fits
  <2> QED BY <1>2, <2>1, <2>2
<1>9. \A x \in DOMAIN d : d[x].inode = 0 => x = 0
  <2>1. d[o].inode # 0
    BY <1>2, EntryAssumption
  <2> QED BY <1>2, <2>1 DEF Fits
<1> QED BY <1>2, <1>5, <1>7, <1>8, <1>9 DEF Fits, Gains

\* An entry with slack is cut to its true size, and the new one is the slack.
LEMMA CutFits ==
    ASSUME NEW c \in Block, Fits(c), NEW o \in DOMAIN c, NEW name \in Names,
           NEW n \in Inode, NEW d, NEW t \in Nat, t = true_size(c[o]),
           Width(name) <= c[o].size - t,
           d = [x \in DOMAIN c \cup {o + t} |->
                  IF x = o + t THEN [inode |-> n, name |-> name, size |-> c[o].size - t]
                  ELSE IF x = o THEN [c[o] EXCEPT !.size = t] ELSE c[x]]
    PROVE  d \in Block /\ Fits(d) /\ Gains(c, d, o + t, name, n)
<1> DEFINE new == o + t
<1>1. DOMAIN c \subseteq 0 .. BLOCK_SIZE - 1 /\ c \in [DOMAIN c -> Entry]
  BY BlockIs
<1>2. /\ o \in Nat /\ c[o] \in Entry /\ c[o].size \in Nat /\ 0 < t /\ t <= c[o].size
      /\ o + c[o].size <= BLOCK_SIZE
  BY ChainFacts
<1>3. Width(name) \in Nat /\ 0 < Width(name)
  BY EntryAssumption
<1>4. new \in 0 .. BLOCK_SIZE - 1 /\ new # o /\ o < new /\ new < o + c[o].size
      /\ c[o].size - t \in Nat /\ t < c[o].size
  BY <1>2, <1>3, EntryAssumption
<1>5. \A x \in DOMAIN c : x \in Nat /\ c[x] \in Entry /\ c[x].size \in Nat
  BY ChainFacts
<1>6. new \notin DOMAIN c
  <2>1. new \in DOMAIN c => o + c[o].size <= new
    BY <1>4 DEF Fits, Tiles
  <2> QED BY <2>1, <1>2, <1>4
<1>7. /\ DOMAIN d = DOMAIN c \cup {new}
      /\ d[new] = [inode |-> n, name |-> name, size |-> c[o].size - t]
      /\ d[o] = [c[o] EXCEPT !.size = t]
      /\ \A x \in DOMAIN c \ {o} : d[x] = c[x]
  BY <1>4, <1>6
<1> HIDE DEF new
<1>8. d[o] = [inode |-> c[o].inode, name |-> c[o].name, size |-> t]
  BY <1>2, <1>7 DEF Entry
<1>9. d \in Block
  <2>1. d[new] \in Entry /\ d[o] \in Entry
    BY <1>2, <1>4, <1>7, <1>8 DEF Entry
  <2>2. \A x \in DOMAIN d : d[x] \in Entry
    BY <1>5, <1>7, <2>1
  <2>3. d = [x \in DOMAIN d |-> d[x]]
    OBVIOUS
  <2>4. d \in [DOMAIN d -> Entry]
    BY <2>2, <2>3, ZenonT(30)
  <2>5. DOMAIN d \subseteq 0 .. BLOCK_SIZE - 1
    BY <1>1, <1>4, <1>7
  <2> QED BY <2>4, <2>5, BlockIs
<1>10. /\ d[new].size = c[o].size - t /\ d[o].size = t /\ new = o + t
       /\ \A x \in DOMAIN c \ {o} : d[x].size = c[x].size
  BY <1>7, <1>8 DEF new
<1>11. Tiles(d)
  <2>1. 0 \in DOMAIN d
    BY <1>7 DEF Fits, Tiles
  <2>2. ASSUME NEW x \in DOMAIN d PROVE x + d[x].size \in DOMAIN d \cup {BLOCK_SIZE}
    <3>1. CASE x = o
      BY <3>1, <1>7, <1>10
    <3>2. CASE x = new
      <4>1. x + d[x].size = o + c[o].size
        BY <3>2, <1>2, <1>10
      <4> QED BY <4>1, <1>7 DEF Fits, Tiles
    <3>3. CASE x \in DOMAIN c \ {o}
      BY <3>3, <1>7, <1>10 DEF Fits, Tiles
    <3> QED BY <3>1, <3>2, <3>3, <1>7
  <2>3. ASSUME NEW x \in DOMAIN d \ {0} PROVE \E q \in DOMAIN d : q + d[q].size = x
    <3>1. CASE x = new
      BY ZenonT(30), <3>1, <1>7, <1>10
    <3>2. CASE x \in DOMAIN c
      <4>1. PICK q \in DOMAIN c : q + c[q].size = x
        BY <3>2 DEF Fits, Tiles
      <4>2. CASE q = o
        <5>1. new + d[new].size = x
          BY <4>1, <4>2, <1>2, <1>10
        <5> QED BY <5>1, <1>7
      <4>3. CASE q # o
        BY <4>1, <4>3, <1>7, <1>10
      <4> QED BY <4>2, <4>3
    <3> QED BY <3>1, <3>2, <1>7
  <2>4. ASSUME NEW a \in DOMAIN d, NEW b \in DOMAIN d, a < b
        PROVE  a + d[a].size <= b
    <3>0. \A x, y \in DOMAIN c : x < y => x + c[x].size <= y
      BY DEF Fits, Tiles
    <3>1. CASE a \in DOMAIN c /\ b \in DOMAIN c
      <4>1. a + c[a].size <= b
        BY <3>0, <3>1, <2>4
      <4>2. a = o => a + d[a].size <= b
        BY <4>1, <1>2, <1>5, <1>10, <3>1
      <4> QED BY <4>1, <4>2, <1>10, <3>1
    <3>2. CASE a = new /\ b \in DOMAIN c
      <4>1. o < b /\ b \in Nat
        BY <3>2, <2>4, <1>2, <1>4, <1>5
      <4>2. o + c[o].size <= b
        BY <4>1, <3>0, <3>2
      <4> QED BY <4>1, <4>2, <3>2, <1>2, <1>10
    <3>3. CASE a \in DOMAIN c /\ b = new
      <4>1. CASE a = o
        BY <4>1, <3>3, <1>2, <1>10
      <4>2. CASE a # o
        <5>1. a \in Nat /\ c[a].size \in Nat /\ d[a].size = c[a].size
          BY <1>5, <1>10, <3>3, <4>2
        <5>2. a < o
          <6>1. o < a => o + c[o].size <= a
            BY <3>0, <3>3
          <6> QED BY <6>1, <5>1, <4>2, <3>3, <2>4, <1>2, <1>4
        <5>3. a + c[a].size <= o
          BY <5>2, <3>0, <3>3
        <5> QED BY <5>1, <5>3, <3>3, <1>2, <1>4
      <4> QED BY <4>1, <4>2
    <3>4. ~(a = new /\ b = new)
      BY <2>4, <1>4
    <3> QED BY <3>1, <3>2, <3>3, <3>4, <1>7
  <2> QED BY <2>1, <2>2, <2>3, <2>4 DEF Tiles
<1>12. \A x \in DOMAIN d : true_size(d[x]) <= d[x].size
  <2>1. true_size(d[new]) = Width(name)
    <3>1. name # NoName
      BY EntryAssumption DEF Names, NoName
    <3> QED BY <1>7, <3>1 DEF true_size
  <2>2. true_size(d[o]) = t
    BY <1>8 DEF true_size
  <2>3. \A x \in DOMAIN c \ {o} : true_size(d[x]) <= d[x].size
    BY <1>7 DEF Fits
  <2>4. true_size(d[new]) <= d[new].size /\ true_size(d[o]) <= d[o].size
    BY <1>2, <1>10, <2>1, <2>2
  <2> QED BY <1>7, <2>3, <2>4, ZenonT(30)
<1>13. \A x \in DOMAIN d : d[x].inode = 0 => x = 0
  <2>1. d[new].inode # 0
    BY <1>7, EntryAssumption
  <2>2. \A x \in DOMAIN c : d[x].inode = c[x].inode
    BY ZenonT(30), <1>7, <1>8
  <2>3. \A x \in DOMAIN c : c[x].inode = 0 => x = 0
    BY DEF Fits
  <2> QED BY <1>7, <2>1, <2>2, <2>3, ZenonT(30)
<1>14. Gains(c, d, new, name, n)
  BY ZenonT(30), <1>6, <1>7, <1>8 DEF Gains
<1> QED BY <1>9, <1>11, <1>12, <1>13, <1>14 DEF Fits, new

\* The entry with room that dir_insert found gets the new one.
LEMMA SplitFits ==
    ASSUME NEW c \in Block, Fits(c), NEW o \in DOMAIN c, NEW name \in Names,
           NEW n \in Inode, HasRoom(c[o], Width(name)), NEW d, d = Split(c, o, name, n)
    PROVE  d \in Block /\ Fits(d) /\ \E q : Gains(c, d, q, name, n)
<1>1. CASE c[o].inode = 0 /\ c[o].size >= Width(name)
  <2>1. d = [c EXCEPT ![o] = [inode |-> n, name |-> name, size |-> c[o].size]]
    BY <1>1 DEF Split
  <2>2. Width(name) <= c[o].size
    BY <1>1, ChainFacts, EntryAssumption
  <2> QED BY <1>1, <2>1, <2>2, TakeoverFits, ZenonT(30)
<1>2. CASE ~(c[o].inode = 0 /\ c[o].size >= Width(name))
  <2>1. PICK t \in Nat : t = true_size(c[o])
    BY ChainFacts
  <2>2. d = [x \in DOMAIN c \cup {o + t} |->
               IF x = o + t THEN [inode |-> n, name |-> name, size |-> c[o].size - t]
               ELSE IF x = o THEN [c[o] EXCEPT !.size = t] ELSE c[x]]
    BY <1>2, <2>1, ZenonT(30) DEF Split
  <2>3. c[o].size - t >= Width(name)
    BY <1>2, <2>1, ZenonT(30) DEF HasRoom
  <2>4. Width(name) <= c[o].size - t
    BY <2>3, <2>1, ChainFacts, EntryAssumption
  <2>5. d \in Block /\ Fits(d) /\ Gains(c, d, o + t, name, n)
    BY <2>1, <2>2, <2>4, CutFits
  <2> QED BY <2>5, ZenonT(30)
<1> QED BY <1>1, <1>2

\* The predecessor of an entry absorbs it.
LEMMA MergeFits ==
    ASSUME NEW c \in Block, Fits(c), NEW o \in DOMAIN c, o # 0, NEW d, d = Merge(c, o)
    PROVE  /\ d \in Block /\ Fits(d) /\ Loses(c, d, o)
           /\ \E q \in DOMAIN d : HasRoom(d[q], c[o].size)
<1>0. \A x, y \in DOMAIN c : x < y => x + c[x].size <= y
  BY DEF Fits, Tiles
<1>1. DOMAIN c \subseteq 0 .. BLOCK_SIZE - 1 /\ c \in [DOMAIN c -> Entry]
  BY BlockIs
<1>2. \A x \in DOMAIN c : /\ x \in Nat /\ c[x] \in Entry /\ c[x].size \in Nat
                          /\ 0 < c[x].size /\ true_size(c[x]) \in Nat
                          /\ true_size(c[x]) <= c[x].size
  BY ChainFacts
<1>3. PICK q \in DOMAIN c : q + c[q].size = o
  BY DEF Fits, Tiles
<1>4. q < o /\ q # o
  BY <1>2, <1>3
<1>5. \A x \in DOMAIN c : x < o => x <= q
  BY <1>0, <1>2, <1>3, <1>4
<1>6. Max({x \in DOMAIN c : x < o}) = q
  <2> DEFINE S == {x \in DOMAIN c : x < o}
  <2>1. q \in S /\ \A y \in S : q >= y
    BY <1>2, <1>4, <1>5
  <2>2. \A x \in S : (\A y \in S : x >= y) => x = q
    BY <1>2, <2>1
  <2> HIDE DEF S
  <2>3. Max(S) \in S /\ \A y \in S : Max(S) >= y
    BY <2>1, ZenonT(30) DEF Max
  <2> QED BY <2>2, <2>3, ZenonT(30) DEF S
<1>7. d = [x \in DOMAIN c \ {o} |->
             IF x = q THEN [c[x] EXCEPT !.size = c[x].size + c[o].size] ELSE c[x]]
  BY <1>6, ZenonT(30) DEF Merge
<1>8. /\ DOMAIN d = DOMAIN c \ {o} /\ q \in DOMAIN d
      /\ d[q] = [c[q] EXCEPT !.size = c[q].size + c[o].size]
      /\ \A x \in DOMAIN d \ {q} : d[x] = c[x]
  BY <1>4, <1>7
<1>9. d[q] = [inode |-> c[q].inode, name |-> c[q].name, size |-> c[q].size + c[o].size]
  BY <1>2, <1>8 DEF Entry
<1>10. d \in Block
  <2>1. d[q] \in Entry
    BY <1>2, <1>9 DEF Entry
  <2>2. \A x \in DOMAIN d : d[x] \in Entry
    BY <1>2, <1>8, <2>1
  <2>3. d = [x \in DOMAIN d |-> d[x]]
    BY <1>7
  <2>4. d \in [DOMAIN d -> Entry]
    BY <2>2, <2>3, ZenonT(30)
  <2> QED BY <1>1, <1>8, <2>4, BlockIs
<1>11. d[q].size = c[q].size + c[o].size /\ \A x \in DOMAIN d \ {q} : d[x].size = c[x].size
  BY <1>8, <1>9
<1>12. Tiles(d)
  <2>1. 0 \in DOMAIN d
    BY <1>8 DEF Fits, Tiles
  <2>2. ASSUME NEW x \in DOMAIN d PROVE x + d[x].size \in DOMAIN d \cup {BLOCK_SIZE}
    <3>1. CASE x = q
      <4>1. x + d[x].size = o + c[o].size
        BY <3>1, <1>2, <1>3, <1>11
      <4>2. o + c[o].size # o
        BY <1>2
      <4> QED BY <4>1, <4>2, <1>8 DEF Fits, Tiles
    <3>2. CASE x # q
      <4>1. x \in DOMAIN c /\ x + d[x].size = x + c[x].size
        BY <3>2, <1>8, <1>11
      <4>2. x + c[x].size # o
        BY <4>1, <3>2, <1>0, <1>2, <1>3
      <4> QED BY <4>1, <4>2, <1>8 DEF Fits, Tiles
    <3> QED BY <3>1, <3>2
  <2>3. ASSUME NEW x \in DOMAIN d \ {0} PROVE \E y \in DOMAIN d : y + d[y].size = x
    <3>1. PICK y \in DOMAIN c : y + c[y].size = x
      BY <1>8 DEF Fits, Tiles
    <3>2. CASE y = o
      <4>1. q + d[q].size = x
        BY <3>1, <3>2, <1>2, <1>3, <1>11
      <4> QED BY ZenonT(30), <4>1, <1>8
    <3>3. CASE y # o
      <4>1. y # q
        BY <3>1, <1>3, <1>8
      <4> QED BY <3>1, <3>3, <4>1, <1>8, <1>11
    <3> QED BY <3>2, <3>3
  <2>4. ASSUME NEW a \in DOMAIN d, NEW b \in DOMAIN d, a < b PROVE a + d[a].size <= b
    <3>1. a \in DOMAIN c /\ b \in DOMAIN c /\ b # o /\ a + c[a].size <= b
      BY <2>4, <1>0, <1>8
    <3>2. CASE a = q
      <4>1. o < b
        BY <3>1, <3>2, <1>2, <1>3
      <4>2. o + c[o].size <= b
        BY <4>1, <3>1, <1>0
      <4> QED BY <4>2, <3>1, <3>2, <1>2, <1>3, <1>11
    <3> QED BY <3>1, <3>2, <1>11
  <2> QED BY <2>1, <2>2, <2>3, <2>4 DEF Tiles
<1>13. \A x \in DOMAIN d : d[x].inode = c[x].inode /\ d[x].name = c[x].name
  BY ZenonT(30), <1>8, <1>9
<1>14. \A x \in DOMAIN d : true_size(d[x]) <= d[x].size
  <2>1. \A x \in DOMAIN d : true_size(d[x]) = true_size(c[x])
    BY <1>13, SameTrueSize
  <2>2. ASSUME NEW x \in DOMAIN d PROVE c[x].size <= d[x].size /\ d[x].size \in Nat
    <3>1. x \in DOMAIN c /\ c[x].size \in Nat /\ c[o].size \in Nat
      BY <1>2, <1>8
    <3>2. d[x].size = c[x].size \/ d[x].size = c[x].size + c[o].size
      BY <1>11
    <3> QED BY <3>1, <3>2
  <2> QED BY <2>1, <2>2, <1>2, <1>8
<1>15. \A x \in DOMAIN d : d[x].inode = 0 => x = 0
  BY <1>8, <1>13, ZenonT(30) DEF Fits
<1>16. HasRoom(d[q], c[o].size)
  <2>1. true_size(d[q]) = true_size(c[q])
    BY <1>8, <1>13, SameTrueSize
  <2>2. d[q].size - true_size(d[q]) >= c[o].size
    BY <2>1, <1>2, <1>3, <1>11
  <2> QED BY <2>2, ZenonT(30) DEF HasRoom
<1>17. \E x \in DOMAIN d : HasRoom(d[x], c[o].size)
  BY <1>8, <1>16, ZenonT(30)
<1> QED BY <1>8, <1>10, <1>12, <1>13, <1>14, <1>15, <1>17 DEF Fits, Loses

\* A write of an inode number leaves the chain alone.
LEMMA RelinkFits ==
    ASSUME NEW c \in Block, Fits(c), NEW o \in DOMAIN c, NEW n \in Inode \cup {0},
           n = 0 => o = 0, NEW d, d = [c EXCEPT ![o] = [c[o] EXCEPT !.inode = n]]
    PROVE  d \in Block /\ Fits(d) /\ Rewrites(c, d, o, n)
<1>1. DOMAIN c \subseteq 0 .. BLOCK_SIZE - 1 /\ c \in [DOMAIN c -> Entry]
  BY BlockIs
<1>2. c[o] \in Entry
  BY <1>1
<1>3. /\ DOMAIN d = DOMAIN c /\ d[o] = [c[o] EXCEPT !.inode = n]
      /\ \A x \in DOMAIN c \ {o} : d[x] = c[x]
  BY <1>1
<1>4. d[o] = [inode |-> n, name |-> c[o].name, size |-> c[o].size]
  BY <1>2, <1>3 DEF Entry
<1>5. d[o] \in Entry
  BY <1>2, <1>4 DEF Entry
<1>6. d \in Block
  <2>1. \A x \in DOMAIN d : d[x] \in Entry
    BY <1>1, <1>3, <1>5
  <2>2. d = [x \in DOMAIN d |-> d[x]]
    BY ZenonT(30)
  <2>3. d \in [DOMAIN d -> Entry]
    BY <2>1, <2>2, ZenonT(30)
  <2> QED BY ZenonT(30), <1>1, <1>3, <2>3, BlockIs
<1>7. \A x \in DOMAIN c : d[x].size = c[x].size /\ d[x].name = c[x].name
  BY ZenonT(30), <1>3, <1>4
<1>8. Tiles(d)
  <2>1. \A x \in DOMAIN c : d[x].size = c[x].size
    BY <1>7
  <2> QED BY <1>3, <2>1, ZenonT(30) DEF Fits, Tiles
<1>9. \A x \in DOMAIN d : true_size(d[x]) <= d[x].size
  <2>1. \A x \in DOMAIN c : true_size(d[x]) = true_size(c[x])
    BY ZenonT(30), <1>7, SameTrueSize
  <2> QED BY <1>3, <1>7, <2>1 DEF Fits
<1>10. \A x \in DOMAIN d : d[x].inode = 0 => x = 0
  BY <1>3, <1>4 DEF Fits
<1> QED BY <1>3, <1>4, <1>6, <1>8, <1>9, <1>10 DEF Fits, Rewrites
-----------------------------------------------------------------------------
(* What the calls do to the directory.                                     *)

\* Directory b2 has the live entries of bs and, at q, a new one.
Adds(bs, b2, q, name, n) ==
    /\ Live(b2) = Live(bs) \cup {q} /\ q \notin Live(bs)
    /\ At(b2, q).inode = n /\ At(b2, q).name = name
    /\ \A r \in Live(bs) : At(b2, r).inode = At(bs, r).inode /\ At(b2, r).name = At(bs, r).name

\* Directory b2 is bs with block d for block i.
Replaced(bs, b2, i, d) ==
    /\ Len(b2) = Len(bs) /\ DOMAIN b2 = DOMAIN bs /\ b2[i] = d
    /\ \A k \in DOMAIN bs \ {i} : b2[k] = bs[k]

\* One block of a directory may be replaced by another good one.
LEMMA ReplaceBlock ==
    ASSUME NEW bs, Good(bs), NEW i \in DOMAIN bs, NEW d \in Block, Fits(d),
           NEW b2, b2 = [bs EXCEPT ![i] = d]
    PROVE  Good(b2) /\ Replaced(bs, b2, i, d)
<1>1. bs \in Seq(Block) /\ Len(bs) \in 1 .. MaxBlocks
  BY DEF Good
<1>2. /\ b2 \in Seq(Block) /\ Len(b2) = Len(bs) /\ DOMAIN b2 = DOMAIN bs /\ b2[i] = d
      /\ \A k \in DOMAIN bs \ {i} : b2[k] = bs[k]
  BY <1>1
<1>3. \A k \in DOMAIN b2 : Fits(b2[k])
  BY <1>2, ZenonT(30) DEF Good
<1> QED BY <1>1, <1>2, <1>3 DEF Good, Replaced

\* The live positions, block by block.
LEMMA LiveIs ==
    ASSUME NEW bs
    PROVE  /\ \A i, o : <<i, o>> \in Live(bs) <=>
                          i \in DOMAIN bs /\ o \in DOMAIN bs[i] /\ bs[i][o].inode # 0
           /\ \A p \in Live(bs) : \E i \in DOMAIN bs : \E o \in DOMAIN bs[i] :
                p = <<i, o>> /\ bs[i][o].inode # 0
           /\ \A i, o : At(bs, <<i, o>>) = bs[i][o]
<1>1. \A i, o : At(bs, <<i, o>>) = bs[i][o]
  BY DEF At
<1>2. \A i, o : <<i, o>> \in Live(bs) <=>
                   i \in DOMAIN bs /\ o \in DOMAIN bs[i] /\ bs[i][o].inode # 0
  BY <1>1, PositionIs, ZenonT(30) DEF Live
<1>3. ASSUME NEW p \in Live(bs)
      PROVE  \E i \in DOMAIN bs : \E o \in DOMAIN bs[i] : p = <<i, o>> /\ bs[i][o].inode # 0
  <2>1. p = <<p[1], p[2]>>
    BY PositionIs, ZenonT(30) DEF Live
  <2> QED BY <2>1, <1>2
<1> QED BY <1>1, <1>2, <1>3, ZenonT(30)

\* An entry added to a block is added to the directory.
LEMMA GainAdds ==
    ASSUME NEW bs, NEW b2, NEW i \in DOMAIN bs, NEW d, NEW name, NEW n \in Inode,
           NEW o, Gains(bs[i], d, o, name, n), Replaced(bs, b2, i, d)
    PROVE  Adds(bs, b2, <<i, o>>, name, n)
<1>1. /\ DOMAIN b2 = DOMAIN bs /\ b2[i] = d
      /\ \A k \in DOMAIN bs \ {i} : b2[k] = bs[k]
  BY DEF Replaced
<1>2. /\ DOMAIN d = DOMAIN bs[i] \cup {o} /\ d[o].inode = n /\ d[o].name = name
      /\ o \in DOMAIN bs[i] => bs[i][o].inode = 0
      /\ \A x \in DOMAIN bs[i] \ {o} : d[x].inode = bs[i][x].inode /\ d[x].name = bs[i][x].name
  BY DEF Gains
<1>3. n # 0
  BY EntryAssumption
<1>4. <<i, o>> \notin Live(bs)
  BY <1>2, LiveIs
<1>5. At(b2, <<i, o>>).inode = n /\ At(b2, <<i, o>>).name = name /\ <<i, o>> \in Live(b2)
  <2>1. i \in DOMAIN b2 /\ o \in DOMAIN b2[i] /\ b2[i][o].inode # 0
    BY <1>1, <1>2, <1>3
  <2>2. At(b2, <<i, o>>) = d[o]
    BY <1>1, LiveIs
  <2> QED BY <1>2, <2>1, <2>2, LiveIs, ZenonT(30)
<1>6. ASSUME NEW r \in Live(bs)
      PROVE  /\ r \in Live(b2)
             /\ At(b2, r).inode = At(bs, r).inode /\ At(b2, r).name = At(bs, r).name
  <2>1. PICK k, x : r = <<k, x>> /\ k \in DOMAIN bs /\ x \in DOMAIN bs[k] /\ bs[k][x].inode # 0
    BY LiveIs
  <2>2. k \in DOMAIN b2 /\ x \in DOMAIN b2[k]
        /\ b2[k][x].inode = bs[k][x].inode /\ b2[k][x].name = bs[k][x].name
    <3>1. r # <<i, o>>
      BY <1>4
    <3> QED BY <2>1, <3>1, <1>1, <1>2
  <2>3. At(b2, r) = b2[k][x] /\ At(bs, r) = bs[k][x]
    BY <2>1, LiveIs
  <2>4. r \in Live(b2)
    BY <2>1, <2>2, LiveIs, ZenonT(30)
  <2> QED BY <2>2, <2>3, <2>4
<1>7. ASSUME NEW r \in Live(b2), r # <<i, o>> PROVE r \in Live(bs)
  <2>1. PICK k, x : r = <<k, x>> /\ k \in DOMAIN b2 /\ x \in DOMAIN b2[k] /\ b2[k][x].inode # 0
    BY LiveIs
  <2>2. k \in DOMAIN bs /\ x \in DOMAIN bs[k] /\ bs[k][x].inode # 0
    BY <2>1, <1>1, <1>2, <1>7
  <2> QED BY <2>1, <2>2, LiveIs, ZenonT(30)
<1> QED BY <1>4, <1>5, <1>6, <1>7, ZenonT(30) DEF Adds

\* The block that dir_insert starts for a name.
LEMMA NewBlockFits ==
    ASSUME NEW name \in Names \cup {NoName}, NEW n \in Inode \cup {0}
    PROVE  /\ NewBlock(name, n) \in Block /\ Fits(NewBlock(name, n))
           /\ DOMAIN NewBlock(name, n) = {0}
           /\ NewBlock(name, n)[0] = [inode |-> n, name |-> name, size |-> BLOCK_SIZE]
<1> DEFINE c == NewBlock(name, n)
<1>1. DOMAIN c = {0} /\ c[0] = [inode |-> n, name |-> name, size |-> BLOCK_SIZE]
  BY DEF NewBlock
<1>2. c = [x \in DOMAIN c |-> c[x]]
  BY DEF NewBlock
<1> HIDE DEF c
<1>3. BLOCK_SIZE \in Nat /\ 0 < BLOCK_SIZE
  <2>1. "." \in Names
    BY DEF Names
  <2>2. Width(".") \in Nat /\ Width(".") > Header /\ Width(".") <= BLOCK_SIZE
    BY <2>1, EntryAssumption
  <2> QED BY <2>2, EntryAssumption
<1>4. c[0] \in Entry
  BY <1>1, <1>3 DEF Entry
<1>5. c \in Block
  <2>1. c \in [DOMAIN c -> Entry]
    BY <1>1, <1>2, <1>4
  <2>2. DOMAIN c \subseteq 0 .. BLOCK_SIZE - 1
    BY <1>1, <1>3
  <2> QED BY <2>1, <2>2, BlockIs
<1>6. Tiles(c)
  BY <1>1, <1>3 DEF Tiles
<1>7. true_size(c[0]) <= c[0].size
  <2>1. name \in Names => Width(name) <= BLOCK_SIZE
    BY EntryAssumption
  <2>2. Header <= BLOCK_SIZE
    <3>1. "." \in Names
      BY DEF Names
    <3>2. Width(".") \in Nat /\ Width(".") > Header /\ Width(".") <= BLOCK_SIZE
      BY <3>1, EntryAssumption
    <3> QED BY <3>2, EntryAssumption
  <2>3. c[0].name = name /\ c[0].size = BLOCK_SIZE
    BY <1>1
  <2> QED BY <2>1, <2>2, <2>3 DEF true_size
<1> QED BY <1>1, <1>5, <1>6, <1>7 DEF Fits, c

\* Directory b2 is bs after the insertion of the name.
Inserted(bs, b2, name, n) ==
    /\ b2 = bs \/ \E q : Adds(bs, b2, q, name, n)
    /\ b2 = bs => \A p \in Positions(bs) : ~HasRoom(At(bs, p), Width(name))

\* dir_insert adds the name in the first entry with room or in a new block,
\* or changes nothing when neither is to be had.
LEMMA InsertAdds ==
    ASSUME NEW bs, Good(bs), NEW name \in Names, NEW n \in Inode, NEW room \in BOOLEAN,
           room => Len(bs) < MaxBlocks, NEW b2, b2 = dir_insert(bs, name, n, room)
    PROVE  Good(b2) /\ Inserted(bs, b2, name, n)
<1> DEFINE fit == {p \in Positions(bs) : HasRoom(At(bs, p), Width(name))}
<1>0. bs \in Seq(Block) /\ Len(bs) \in 1 .. MaxBlocks /\ \A i \in DOMAIN bs : Fits(bs[i])
  BY DEF Good
<1>1. CASE fit # {}
  <2>1. First(fit) \in fit
    <3>1. fit \subseteq Nat \X Nat
      BY <1>0, PositionNat
    <3> HIDE DEF fit
    <3> QED BY <1>1, <3>1, FirstIn
  <2>2. PICK i, o : First(fit) = <<i, o>> /\ i \in DOMAIN bs /\ o \in DOMAIN bs[i]
                    /\ HasRoom(bs[i][o], Width(name))
    <3>1. First(fit) \in Positions(bs) /\ HasRoom(At(bs, First(fit)), Width(name))
      BY <2>1
    <3> HIDE DEF fit
    <3> QED BY <3>1, PositionIs, ZenonT(30) DEF At
  <2>3. PICK d : d = Split(bs[i], o, name, n)
    OBVIOUS
  <2>4. b2 = [bs EXCEPT ![i] = d]
    <3>1. First(fit)[1] = i /\ First(fit)[2] = o
      BY <2>2
    <3> QED BY <1>1, <2>3, <3>1, ZenonT(30) DEF dir_insert
  <2> HIDE DEF fit
  <2>5. bs[i] \in Block /\ Fits(bs[i]) /\ i \in DOMAIN bs
    BY <1>0, <2>2
  <2>6. d \in Block /\ Fits(d) /\ \E q : Gains(bs[i], d, q, name, n)
    BY <2>2, <2>3, <2>5, SplitFits
  <2>7. PICK q : Gains(bs[i], d, q, name, n)
    BY <2>6
  <2>8. Good(b2) /\ Replaced(bs, b2, i, d)
    BY <2>4, <2>5, <2>6, ReplaceBlock, ZenonT(30)
  <2>9. Adds(bs, b2, <<i, q>>, name, n)
    BY <2>5, <2>7, <2>8, GainAdds, ZenonT(30)
  <2>10. b2 # bs
    BY <2>9, ZenonT(30) DEF Adds
  <2> QED BY <2>8, <2>9, <2>10, ZenonT(30) DEF Inserted
<1>2. CASE fit = {} /\ ~room
  <2>1. b2 = bs
    BY <1>2, ZenonT(30) DEF dir_insert
  <2>2. \A p \in Positions(bs) : ~HasRoom(At(bs, p), Width(name))
    BY <1>2
  <2> QED BY <2>1, <2>2, ZenonT(30) DEF Inserted
<1>3. CASE fit = {} /\ room
  <2>2. PICK c : c = NewBlock(name, n)
    OBVIOUS
  <2>3. b2 = Append(bs, c)
    BY <1>3, <2>2, ZenonT(30) DEF dir_insert
  <2>4. /\ c \in Block /\ Fits(c) /\ DOMAIN c = {0}
        /\ c[0] = [inode |-> n, name |-> name, size |-> BLOCK_SIZE]
    BY <2>2, NewBlockFits
  <2>5. /\ b2 \in Seq(Block) /\ Len(b2) = Len(bs) + 1 /\ DOMAIN b2 = 1 .. Len(bs) + 1
        /\ b2[Len(bs) + 1] = c /\ DOMAIN bs = 1 .. Len(bs)
        /\ \A k \in 1 .. Len(bs) : b2[k] = bs[k]
    BY <1>0, <2>3, <2>4
  <2>6. Len(b2) \in 1 .. MaxBlocks
    <3>1. MaxBlocks \in Nat /\ Len(bs) < MaxBlocks /\ Len(bs) \in Nat
      BY <1>0, <1>3, EntryAssumption
    <3> QED BY <2>5, <3>1
  <2>7. Good(b2)
    BY <1>0, <2>4, <2>5, <2>6 DEF Good
  <2>8. Adds(bs, b2, <<Len(bs) + 1, 0>>, name, n)
    <3> DEFINE m == Len(bs) + 1
    <3>1. m \notin DOMAIN bs /\ m \in DOMAIN b2 /\ DOMAIN b2 = DOMAIN bs \cup {m}
      BY <2>5, <1>0
    <3>2. b2[m] = c /\ \A k \in DOMAIN bs : b2[k] = bs[k]
      BY <2>5
    <3>3. c[0].inode = n /\ c[0].name = name /\ n # 0
      BY <2>4, EntryAssumption
    <3> HIDE DEF m
    <3>4. \A k, x : <<k, x>> \in Live(b2) <=> <<k, x>> \in Live(bs) \/ (k = m /\ x = 0)
      <4> TAKE k, x
      <4>1. <<k, x>> \in Live(b2) <=> k \in DOMAIN b2 /\ x \in DOMAIN b2[k] /\ b2[k][x].inode # 0
        BY LiveIs
      <4>2. <<k, x>> \in Live(bs) <=> k \in DOMAIN bs /\ x \in DOMAIN bs[k] /\ bs[k][x].inode # 0
        BY LiveIs
      <4> QED BY <4>1, <4>2, <3>1, <3>2, <3>3, <2>4
    <3>5. <<m, 0>> \notin Live(bs)
      BY <3>1, LiveIs, ZenonT(30)
    <3>6. Live(b2) = Live(bs) \cup {<<m, 0>>}
      <4>1. \A r \in Live(b2) : r \in Live(bs) \/ r = <<m, 0>>
        BY <3>4, LiveIs
      <4>2. \A r \in Live(bs) : r \in Live(b2)
        BY <3>4, LiveIs
      <4>3. <<m, 0>> \in Live(b2)
        BY <3>4, ZenonT(30)
      <4> QED BY <4>1, <4>2, <4>3
    <3>7. \A r \in Live(bs) : At(b2, r) = At(bs, r)
      BY <3>2, LiveIs
    <3>8. At(b2, <<m, 0>>) = c[0]
      BY <3>2, LiveIs
    <3> QED BY <3>3, <3>5, <3>6, <3>7, <3>8 DEF Adds, m
  <2>9. b2 # bs
    BY <2>8, ZenonT(30) DEF Adds
  <2> QED BY <2>7, <2>8, <2>9, ZenonT(30) DEF Inserted
<1> QED BY <1>1, <1>2, <1>3

\* Directory b2 has the live entries of bs but the one at q.
Drops(bs, b2, q) ==
    /\ Live(b2) = Live(bs) \ {q}
    /\ \A r \in Live(b2) : At(b2, r).inode = At(bs, r).inode /\ At(b2, r).name = At(bs, r).name

\* Directory b2 is bs with another inode number at q.
Relinks(bs, b2, q, n) ==
    /\ Live(b2) = Live(bs) /\ At(b2, q).inode = n
    /\ \A r \in Live(bs) : At(b2, r).name = At(bs, r).name
    /\ \A r \in Live(bs) \ {q} : At(b2, r).inode = At(bs, r).inode

\* A name that is found is found at the first of its positions.
LEMMA FoundAt ==
    ASSUME NEW bs, Good(bs), NEW name, name_in(bs, name)
    PROVE  \E p \in Live(bs) : p = First(Found(bs, name)) /\ At(bs, p).name = name
<1>1. bs \in Seq(Block)
  BY DEF Good
<1>2. Found(bs, name) \subseteq Nat \X Nat
  BY <1>1, PositionNat, ZenonT(30) DEF Found
<1>3. First(Found(bs, name)) \in Found(bs, name)
  BY <1>2, FirstIn, ZenonT(30) DEF name_in
<1>4. /\ First(Found(bs, name)) \in Live(bs)
      /\ At(bs, First(Found(bs, name))).name = name
  BY <1>3, ZenonT(30) DEF Found
<1> QED BY <1>4, ZenonT(30)

\* dir_remove takes away the entry it found, and leaves its room to another.
LEMMA RemoveDrops ==
    ASSUME NEW bs, Good(bs), NEW name, name_in(bs, name),
           NEW b2, b2 = dir_remove(bs, name)
    PROVE  /\ Good(b2) /\ Len(b2) = Len(bs)
           /\ \E q \in Live(bs) :
                /\ At(bs, q).name = name /\ Drops(bs, b2, q)
                /\ \E p \in Positions(b2) : HasRoom(At(b2, p), At(bs, q).size)
<1>0. PICK p \in Live(bs) : p = First(Found(bs, name)) /\ At(bs, p).name = name
  BY FoundAt, ZenonT(30)
<1>1. PICK i, o : /\ p = <<i, o>> /\ i \in DOMAIN bs /\ o \in DOMAIN bs[i]
                  /\ bs[i][o].inode # 0 /\ bs[i][o].name = name
  <2>1. PICK i \in DOMAIN bs : \E o \in DOMAIN bs[i] : p = <<i, o>> /\ bs[i][o].inode # 0
    BY LiveIs
  <2>2. PICK o \in DOMAIN bs[i] : p = <<i, o>> /\ bs[i][o].inode # 0
    BY <2>1
  <2>3. At(bs, p) = bs[i][o]
    BY <2>2 DEF At
  <2> QED BY <1>0, <2>2, <2>3, ZenonT(30)
<1>2. bs[i] \in Block /\ Fits(bs[i])
  BY <1>1 DEF Good
<1>3. PICK d : d = IF o = 0 THEN [bs[i] EXCEPT ![0] = [bs[i][o] EXCEPT !.inode = 0]]
                   ELSE Merge(bs[i], o)
  BY ZenonT(30)
<1>4. PICK b3 : b3 = [bs EXCEPT ![i] = d]
  BY ZenonT(30)
<1>5. b2 = b3
  <2>1. p[1] = i /\ p[2] = o /\ At(bs, p) = bs[i][o]
    BY <1>1 DEF At
  <2> QED BY <1>0, <1>3, <1>4, <2>1, ZenonT(30) DEF dir_remove
<1>6. /\ d \in Block /\ Fits(d) /\ DOMAIN bs[i] \ {o} \subseteq DOMAIN d
      /\ DOMAIN d \subseteq DOMAIN bs[i] /\ (o \in DOMAIN d => d[o].inode = 0)
      /\ \A x \in DOMAIN d \ {o} : d[x].inode = bs[i][x].inode /\ d[x].name = bs[i][x].name
      /\ \E x \in DOMAIN d : HasRoom(d[x], bs[i][o].size)
  <2>1. CASE o = 0
    <3>1. d = [bs[i] EXCEPT ![o] = [bs[i][o] EXCEPT !.inode = 0]]
      BY <1>3, <2>1
    <3>2. d \in Block /\ Fits(d) /\ Rewrites(bs[i], d, o, 0)
      <4>1. 0 \in Inode \cup {0}
        OBVIOUS
      <4> QED BY <4>1, <1>1, <1>2, <2>1, <3>1, RelinkFits, ZenonT(30)
    <3>3. bs[i][o].size \in Nat
      BY <1>1, <1>2, ChainFacts
    <3>4. d[o].inode = 0 /\ d[o].size >= bs[i][o].size
      BY <3>2, <3>3 DEF Rewrites
    <3>5. HasRoom(d[o], bs[i][o].size)
      BY <3>4, ZenonT(30) DEF HasRoom
    <3> QED BY <1>1, <3>2, <3>5, ZenonT(30) DEF Rewrites
  <2>2. CASE o # 0
    <3>1. d = Merge(bs[i], o)
      BY <1>3, <2>2, ZenonT(30)
    <3>2. /\ d \in Block /\ Fits(d) /\ Loses(bs[i], d, o)
          /\ \E x \in DOMAIN d : HasRoom(d[x], bs[i][o].size)
      BY <1>1, <1>2, <2>2, <3>1, MergeFits, ZenonT(30)
    <3> QED BY <3>2, ZenonT(30) DEF Loses
  <2> QED BY <2>1, <2>2
<1>7. Good(b3) /\ Replaced(bs, b3, i, d)
  BY <1>1, <1>4, <1>6, ReplaceBlock, ZenonT(30)
<1>8. Good(b2) /\ Replaced(bs, b2, i, d)
  BY <1>5, <1>7, ZenonT(30)
<1>9. /\ DOMAIN b2 = DOMAIN bs /\ b2[i] = d
      /\ Len(b2) = Len(bs) /\ \A k \in DOMAIN bs \ {i} : b2[k] = bs[k]
  BY <1>8, ZenonT(30) DEF Replaced
<1>10. ASSUME NEW r \in Live(b2)
       PROVE  /\ r \in Live(bs) /\ r # <<i, o>>
              /\ At(b2, r).inode = At(bs, r).inode /\ At(b2, r).name = At(bs, r).name
  <2>1. PICK k, x : r = <<k, x>> /\ k \in DOMAIN b2 /\ x \in DOMAIN b2[k] /\ b2[k][x].inode # 0
    BY LiveIs
  <2>2. k \in DOMAIN bs /\ x \in DOMAIN bs[k] /\ ~(k = i /\ x = o)
        /\ b2[k][x].inode = bs[k][x].inode /\ b2[k][x].name = bs[k][x].name
    BY <2>1, <1>6, <1>9
  <2>3. At(b2, r) = b2[k][x] /\ At(bs, r) = bs[k][x]
    BY <2>1, LiveIs
  <2>4. r \in Live(bs)
    BY <2>1, <2>2, LiveIs
  <2> QED BY <2>1, <2>2, <2>3, <2>4
<1>11. ASSUME NEW r \in Live(bs), r # <<i, o>> PROVE r \in Live(b2)
  <2>1. PICK k, x : r = <<k, x>> /\ k \in DOMAIN bs /\ x \in DOMAIN bs[k] /\ bs[k][x].inode # 0
    BY LiveIs
  <2>2. k \in DOMAIN b2 /\ x \in DOMAIN b2[k] /\ b2[k][x].inode # 0
    BY <2>1, <1>6, <1>9, <1>11
  <2> QED BY <2>1, <2>2, LiveIs
<1>12. Drops(bs, b2, <<i, o>>)
  BY <1>10, <1>11 DEF Drops
<1>13. At(bs, <<i, o>>) = bs[i][o]
  BY DEF At
<1>14. \E r \in Positions(b2) : HasRoom(At(b2, r), bs[i][o].size)
  <2>1. PICK x \in DOMAIN d : HasRoom(d[x], bs[i][o].size)
    BY <1>6
  <2>2. <<i, x>> \in Positions(b2)
    BY <1>1, <1>9, <2>1, PositionIs, ZenonT(30)
  <2>3. At(b2, <<i, x>>) = d[x]
    BY <1>9 DEF At
  <2> QED BY <2>1, <2>2, <2>3, ZenonT(30)
<1> QED BY <1>0, <1>1, <1>8, <1>9, <1>12, <1>13, <1>14, ZenonT(30)

\* dir_set_parent_entry writes one inode number.
LEMMA SetParentRelinks ==
    ASSUME NEW bs, Good(bs), name_in(bs, ".."), NEW n \in Inode,
           NEW b2, b2 = dir_set_parent_entry(bs, n)
    PROVE  /\ Good(b2) /\ Len(b2) = Len(bs)
           /\ \E q \in Live(bs) : At(bs, q).name = ".." /\ Relinks(bs, b2, q, n)
<1>0. PICK p \in Live(bs) : p = First(Found(bs, "..")) /\ At(bs, p).name = ".."
  BY FoundAt, ZenonT(30)
<1>1. PICK i, o : /\ p = <<i, o>> /\ i \in DOMAIN bs /\ o \in DOMAIN bs[i]
                  /\ bs[i][o].inode # 0 /\ bs[i][o].name = ".."
  <2>1. PICK i \in DOMAIN bs : \E o \in DOMAIN bs[i] : p = <<i, o>> /\ bs[i][o].inode # 0
    BY LiveIs
  <2>2. PICK o \in DOMAIN bs[i] : p = <<i, o>> /\ bs[i][o].inode # 0
    BY <2>1
  <2>3. At(bs, p) = bs[i][o]
    BY <2>2 DEF At
  <2> QED BY <1>0, <2>2, <2>3, ZenonT(30)
<1>2. bs[i] \in Block /\ Fits(bs[i])
  BY <1>1 DEF Good
<1>3. PICK d : d = [bs[i] EXCEPT ![o] = [bs[i][o] EXCEPT !.inode = n]]
  BY ZenonT(30)
<1>4. PICK b3 : b3 = [bs EXCEPT ![i] = d]
  BY ZenonT(30)
<1>5. b2 = b3
  <2>1. p[1] = i /\ p[2] = o /\ At(bs, p) = bs[i][o]
    BY <1>1 DEF At
  <2> QED BY <1>0, <1>3, <1>4, <2>1, ZenonT(30) DEF dir_set_parent_entry
<1>6. n # 0
  BY EntryAssumption
<1>7. /\ d \in Block /\ Fits(d) /\ DOMAIN d = DOMAIN bs[i] /\ d[o].inode = n
      /\ d[o].name = bs[i][o].name /\ \A x \in DOMAIN bs[i] \ {o} : d[x] = bs[i][x]
  <2>1. n \in Inode \cup {0}
    OBVIOUS
  <2>2. d \in Block /\ Fits(d) /\ Rewrites(bs[i], d, o, n)
    BY <2>1, <1>1, <1>2, <1>3, <1>6, RelinkFits, ZenonT(30)
  <2> QED BY <2>2, ZenonT(30) DEF Rewrites
<1>8. Good(b3) /\ Replaced(bs, b3, i, d)
  BY <1>1, <1>4, <1>7, ReplaceBlock, ZenonT(30)
<1>9. Good(b2) /\ Replaced(bs, b2, i, d)
  BY <1>5, <1>8, ZenonT(30)
<1>10. /\ DOMAIN b2 = DOMAIN bs /\ b2[i] = d /\ Len(b2) = Len(bs)
       /\ \A k \in DOMAIN bs \ {i} : b2[k] = bs[k]
  BY <1>9, ZenonT(30) DEF Replaced
<1>11. \A k, x : <<k, x>> \in Live(b2) <=> <<k, x>> \in Live(bs)
  <2> TAKE k, x
  <2>1. <<k, x>> \in Live(b2) <=> k \in DOMAIN b2 /\ x \in DOMAIN b2[k] /\ b2[k][x].inode # 0
    BY LiveIs
  <2>2. <<k, x>> \in Live(bs) <=> k \in DOMAIN bs /\ x \in DOMAIN bs[k] /\ bs[k][x].inode # 0
    BY LiveIs
  <2> QED BY <2>1, <2>2, <1>1, <1>6, <1>7, <1>10
<1>12. Live(b2) = Live(bs)
  <2>1. \A r \in Live(b2) : r \in Live(bs)
    BY <1>11, LiveIs
  <2>2. \A r \in Live(bs) : r \in Live(b2)
    BY <1>11, LiveIs
  <2> QED BY <2>1, <2>2
<1>13. ASSUME NEW r \in Live(bs)
       PROVE  /\ At(b2, r).name = At(bs, r).name
              /\ r # <<i, o>> => At(b2, r).inode = At(bs, r).inode
  <2>1. PICK k, x : r = <<k, x>> /\ k \in DOMAIN bs /\ x \in DOMAIN bs[k]
    BY LiveIs
  <2>2. At(b2, r) = b2[k][x] /\ At(bs, r) = bs[k][x]
    BY <2>1, LiveIs
  <2> QED BY <2>1, <2>2, <1>7, <1>10
<1>14. At(b2, <<i, o>>).inode = n /\ At(bs, <<i, o>>).name = ".."
  BY <1>1, <1>7, <1>10 DEF At
<1>15. Relinks(bs, b2, <<i, o>>, n)
  BY <1>12, <1>13, <1>14 DEF Relinks
<1> QED BY <1>0, <1>1, <1>9, <1>10, <1>14, <1>15, ZenonT(30)
-----------------------------------------------------------------------------
(* The directory as a map.                                                 *)

\* Entries, of any directory.
Mapping(bs) ==
    [x \in {At(bs, p).name : p \in Live(bs)} |->
        At(bs, First({p \in Live(bs) : At(bs, p).name = x})).inode]

\* What an insertion, a removal and a new parent are to the map.
Extends(f, g, name, n) ==
    g = [x \in DOMAIN f \cup {name} |-> IF x = name THEN n ELSE f[x]]
Shrinks(f, g, name) == g = [x \in DOMAIN f \ {name} |-> f[x]]
Updates(f, g, name, n) == g = [f EXCEPT ![name] = n]

\* When names are unique, the map has what the entries say.
LEMMA MappingIs ==
    ASSUME NEW bs, Good(bs), Unique(bs)
    PROVE  /\ Mapping(bs) = [x \in DOMAIN Mapping(bs) |-> Mapping(bs)[x]]
           /\ \A x : x \in DOMAIN Mapping(bs) <=> name_in(bs, x)
           /\ \A x : x \in DOMAIN Mapping(bs) <=> \E p \in Live(bs) : At(bs, p).name = x
           /\ \A p \in Live(bs) : Mapping(bs)[At(bs, p).name] = At(bs, p).inode
<1>1. Mapping(bs) = [x \in DOMAIN Mapping(bs) |-> Mapping(bs)[x]]
  BY DEF Mapping
<1>2. DOMAIN Mapping(bs) = {At(bs, p).name : p \in Live(bs)}
  BY DEF Mapping
<1>3. \A x : x \in DOMAIN Mapping(bs) <=> \E p \in Live(bs) : At(bs, p).name = x
  BY <1>2
<1>4. \A x : x \in DOMAIN Mapping(bs) <=> name_in(bs, x)
  BY <1>3, ZenonT(30) DEF name_in, Found
<1>5. ASSUME NEW p \in Live(bs) PROVE Mapping(bs)[At(bs, p).name] = At(bs, p).inode
  <2>1. PICK S : S = {q \in Live(bs) : At(bs, q).name = At(bs, p).name}
    BY ZenonT(30)
  <2>2. S = {p}
    BY <2>1, ZenonT(30) DEF Unique
  <2>3. p \in Nat \X Nat
    BY PositionNat, ZenonT(30) DEF Good
  <2>4. First(S) = p
    <3>1. S # {} /\ S \subseteq Nat \X Nat
      BY <2>2, <2>3
    <3>2. First(S) \in S
      BY <3>1, FirstIn, ZenonT(30)
    <3> QED BY <3>2, <2>2, ZenonT(30)
  <2>5. At(bs, p).name \in {At(bs, q).name : q \in Live(bs)}
    OBVIOUS
  <2> QED BY <2>1, <2>4, <2>5, ZenonT(30) DEF Mapping
<1> QED BY <1>1, <1>3, <1>4, <1>5

\* A new entry is a new name in the map.
LEMMA AddsToMap ==
    ASSUME NEW bs, Good(bs), Unique(bs), NEW b2, Good(b2), NEW q, NEW name, NEW n,
           Adds(bs, b2, q, name, n), ~name_in(bs, name)
    PROVE  Unique(b2) /\ Extends(Mapping(bs), Mapping(b2), name, n)
<1>1. /\ Live(b2) = Live(bs) \cup {q} /\ q \notin Live(bs)
      /\ At(b2, q).inode = n /\ At(b2, q).name = name
      /\ \A r \in Live(bs) : At(b2, r).inode = At(bs, r).inode /\ At(b2, r).name = At(bs, r).name
  BY DEF Adds
<1>2. \A r \in Live(bs) : At(bs, r).name # name
  BY ZenonT(30) DEF name_in, Found
<1>3. Unique(b2)
  <2>1. ASSUME NEW r \in Live(b2), NEW t \in Live(b2), At(b2, r).name = At(b2, t).name
        PROVE  r = t
    <3>1. CASE r = q
      BY <3>1, <2>1, <1>1, <1>2, ZenonT(30)
    <3>2. CASE t = q
      BY <3>2, <2>1, <1>1, <1>2, ZenonT(30)
    <3>3. CASE r \in Live(bs) /\ t \in Live(bs)
      BY <3>3, <2>1, <1>1, ZenonT(30) DEF Unique
    <3> QED BY <3>1, <3>2, <3>3, <1>1, ZenonT(30)
  <2> QED BY <2>1, ZenonT(30) DEF Unique
<1>4. /\ Mapping(b2) = [x \in DOMAIN Mapping(b2) |-> Mapping(b2)[x]]
      /\ \A x : x \in DOMAIN Mapping(b2) <=> \E p \in Live(b2) : At(b2, p).name = x
      /\ \A p \in Live(b2) : Mapping(b2)[At(b2, p).name] = At(b2, p).inode
  BY <1>3, MappingIs, ZenonT(30)
<1>5. /\ \A x : x \in DOMAIN Mapping(bs) <=> \E p \in Live(bs) : At(bs, p).name = x
      /\ \A p \in Live(bs) : Mapping(bs)[At(bs, p).name] = At(bs, p).inode
  BY MappingIs, ZenonT(30)
<1>6. ASSUME NEW x PROVE x \in DOMAIN Mapping(b2) <=> x \in DOMAIN Mapping(bs) \cup {name}
  <2>1. ASSUME x \in DOMAIN Mapping(b2) PROVE x \in DOMAIN Mapping(bs) \cup {name}
    <3>1. PICK p \in Live(b2) : At(b2, p).name = x
      BY <2>1, <1>4, ZenonT(30)
    <3> QED BY <3>1, <1>1, <1>5, ZenonT(30)
  <2>2. ASSUME x \in DOMAIN Mapping(bs) PROVE x \in DOMAIN Mapping(b2)
    <3>1. PICK p \in Live(bs) : At(bs, p).name = x
      BY <2>2, <1>5, ZenonT(30)
    <3> QED BY <3>1, <1>1, <1>4, ZenonT(30)
  <2>3. name \in DOMAIN Mapping(b2)
    BY <1>1, <1>4, ZenonT(30)
  <2> QED BY <2>1, <2>2, <2>3, ZenonT(30)
<1>7. DOMAIN Mapping(b2) = DOMAIN Mapping(bs) \cup {name}
  BY <1>6
<1>8. ASSUME NEW x \in DOMAIN Mapping(b2)
      PROVE  Mapping(b2)[x] = IF x = name THEN n ELSE Mapping(bs)[x]
  <2>1. CASE x = name
    <3>1. q \in Live(b2)
      BY <1>1
    <3> QED BY <2>1, <3>1, <1>1, <1>4, ZenonT(30)
  <2>2. CASE x # name
    <3>1. x \in DOMAIN Mapping(bs)
      BY <2>2, <1>7
    <3>2. PICK p \in Live(bs) : At(bs, p).name = x
      BY <3>1, <1>5, ZenonT(30)
    <3>3. p \in Live(b2) /\ At(b2, p).name = x /\ At(b2, p).inode = At(bs, p).inode
      BY <3>2, <1>1, ZenonT(30)
    <3>4. Mapping(b2)[x] = At(bs, p).inode
      BY <3>3, <1>4, ZenonT(30)
    <3>5. Mapping(bs)[x] = At(bs, p).inode
      BY <3>2, <1>5, ZenonT(30)
    <3> QED BY <2>2, <3>4, <3>5, ZenonT(30)
  <2> QED BY <2>1, <2>2
<1> QED BY <1>3, <1>4, <1>7, <1>8, ZenonT(30) DEF Extends

\* A removed entry is a name less in the map.
LEMMA DropsFromMap ==
    ASSUME NEW bs, Good(bs), Unique(bs), NEW b2, Good(b2), NEW q \in Live(bs), NEW name,
           At(bs, q).name = name, Drops(bs, b2, q)
    PROVE  Unique(b2) /\ Shrinks(Mapping(bs), Mapping(b2), name)
<1>1. /\ Live(b2) = Live(bs) \ {q}
      /\ \A r \in Live(b2) : At(b2, r).inode = At(bs, r).inode /\ At(b2, r).name = At(bs, r).name
  BY DEF Drops
<1>2. \A r \in Live(b2) : r \in Live(bs) /\ r # q /\ At(bs, r).name # name
  BY <1>1, ZenonT(30) DEF Unique
<1>3. Unique(b2)
  BY <1>1, <1>2, ZenonT(30) DEF Unique
<1>4. /\ Mapping(b2) = [x \in DOMAIN Mapping(b2) |-> Mapping(b2)[x]]
      /\ \A x : x \in DOMAIN Mapping(b2) <=> \E p \in Live(b2) : At(b2, p).name = x
      /\ \A p \in Live(b2) : Mapping(b2)[At(b2, p).name] = At(b2, p).inode
  BY <1>3, MappingIs, ZenonT(30)
<1>5. /\ \A x : x \in DOMAIN Mapping(bs) <=> \E p \in Live(bs) : At(bs, p).name = x
      /\ \A p \in Live(bs) : Mapping(bs)[At(bs, p).name] = At(bs, p).inode
  BY MappingIs, ZenonT(30)
<1>6. ASSUME NEW x PROVE x \in DOMAIN Mapping(b2) <=> x \in DOMAIN Mapping(bs) \ {name}
  <2>1. ASSUME x \in DOMAIN Mapping(b2) PROVE x \in DOMAIN Mapping(bs) \ {name}
    <3>1. PICK p \in Live(b2) : At(b2, p).name = x
      BY <2>1, <1>4, ZenonT(30)
    <3>2. p \in Live(bs) /\ At(bs, p).name = x /\ x # name
      BY <3>1, <1>1, <1>2, ZenonT(30)
    <3>3. x \in DOMAIN Mapping(bs)
      BY <3>2, <1>5, ZenonT(30)
    <3> QED BY <3>2, <3>3
  <2>2. ASSUME x \in DOMAIN Mapping(bs), x # name PROVE x \in DOMAIN Mapping(b2)
    <3>1. PICK p \in Live(bs) : At(bs, p).name = x
      BY <2>2, <1>5, ZenonT(30)
    <3>2. p \in Live(b2)
      BY <3>1, <2>2, <1>1
    <3> QED BY <3>1, <3>2, <1>1, <1>4, ZenonT(30)
  <2> QED BY <2>1, <2>2, ZenonT(30)
<1>7. DOMAIN Mapping(b2) = DOMAIN Mapping(bs) \ {name}
  BY <1>6
<1>8. ASSUME NEW x \in DOMAIN Mapping(b2) PROVE Mapping(b2)[x] = Mapping(bs)[x]
  <2>1. PICK p \in Live(b2) : At(b2, p).name = x
    BY <1>4, ZenonT(30)
  <2>2. p \in Live(bs) /\ At(bs, p).name = x /\ At(b2, p).inode = At(bs, p).inode
    BY <2>1, <1>1, <1>2, ZenonT(30)
  <2>3. Mapping(b2)[x] = At(bs, p).inode
    BY <2>1, <2>2, <1>4, ZenonT(30)
  <2>4. Mapping(bs)[x] = At(bs, p).inode
    BY <2>2, <1>5, ZenonT(30)
  <2> QED BY <2>3, <2>4, ZenonT(30)
<1> QED BY <1>3, <1>4, <1>7, <1>8, ZenonT(30) DEF Shrinks

\* Another inode number at an entry is another value of its name in the map.
LEMMA RelinksMap ==
    ASSUME NEW bs, Good(bs), Unique(bs), NEW b2, Good(b2), NEW q \in Live(bs), NEW name,
           At(bs, q).name = name, NEW n, Relinks(bs, b2, q, n)
    PROVE  Unique(b2) /\ Updates(Mapping(bs), Mapping(b2), name, n)
<1>1. /\ Live(b2) = Live(bs) /\ At(b2, q).inode = n
      /\ \A r \in Live(bs) : At(b2, r).name = At(bs, r).name
      /\ \A r \in Live(bs) : r # q => At(b2, r).inode = At(bs, r).inode
  BY DEF Relinks
<1>2. Unique(b2)
  BY <1>1, ZenonT(30) DEF Unique
<1>3. /\ Mapping(b2) = [x \in DOMAIN Mapping(b2) |-> Mapping(b2)[x]]
      /\ \A x : x \in DOMAIN Mapping(b2) <=> \E p \in Live(b2) : At(b2, p).name = x
      /\ \A p \in Live(b2) : Mapping(b2)[At(b2, p).name] = At(b2, p).inode
  BY <1>2, MappingIs, ZenonT(30)
<1>4. /\ \A x : x \in DOMAIN Mapping(bs) <=> \E p \in Live(bs) : At(bs, p).name = x
      /\ \A p \in Live(bs) : Mapping(bs)[At(bs, p).name] = At(bs, p).inode
  BY MappingIs, ZenonT(30)
<1>5. \A x : x \in DOMAIN Mapping(b2) <=> x \in DOMAIN Mapping(bs)
  BY <1>1, <1>3, <1>4, ZenonT(30)
<1>6. DOMAIN Mapping(b2) = DOMAIN Mapping(bs)
  BY <1>5
<1>7. ASSUME NEW x \in DOMAIN Mapping(b2)
      PROVE  Mapping(b2)[x] = IF x = name THEN n ELSE Mapping(bs)[x]
  <2>1. PICK p \in Live(bs) : At(bs, p).name = x
    BY <1>4, <1>5, ZenonT(30)
  <2>2. p \in Live(b2) /\ At(b2, p).name = x
    BY <2>1, <1>1, ZenonT(30)
  <2>3. Mapping(b2)[x] = At(b2, p).inode
    BY <2>2, <1>3, ZenonT(30)
  <2>4. Mapping(bs)[x] = At(bs, p).inode
    BY <2>1, <1>4, ZenonT(30)
  <2>5. x = name <=> p = q
    BY <2>1, ZenonT(30) DEF Unique
  <2> QED BY <2>3, <2>4, <2>5, <1>1, ZenonT(30)
<1>8. Mapping(b2) = [x \in DOMAIN Mapping(bs) |-> IF x = name THEN n ELSE Mapping(bs)[x]]
  BY <1>3, <1>6, <1>7, ZenonT(30)
<1> QED BY <1>2, <1>8 DEF Updates
-----------------------------------------------------------------------------
(* The theorems.                                                           *)

\* make_dir's block is empty, and its first entry is ".".
LEMMA SelfEntry ==
    ASSUME NEW self \in Inode, NEW bs, bs = <<Seed>>,
           NEW b1, b1 = dir_insert(bs, ".", self, FALSE)
    PROVE  /\ Good(bs) /\ Live(bs) = {} /\ b1 # bs
           /\ <<1, 0>> \in Positions(b1) /\ HasRoom(At(b1, <<1, 0>>), Width(".."))
<1>1. "." \in Names /\ ".." \in Names
  BY DEF Names
<1>2. /\ Width(".") \in Nat /\ Width("..") \in Nat /\ BLOCK_SIZE \in Nat /\ MaxBlocks \in Nat \ {0}
      /\ Width(".") <= BLOCK_SIZE /\ Width(".") + Width("..") <= BLOCK_SIZE
  BY <1>1, EntryAssumption
<1>3. /\ Seed \in Block /\ Fits(Seed) /\ DOMAIN Seed = {0}
      /\ Seed[0] = [inode |-> 0, name |-> NoName, size |-> BLOCK_SIZE]
  BY NewBlockFits DEF Seed
<1>4. bs \in Seq(Block) /\ Len(bs) = 1 /\ DOMAIN bs = {1} /\ bs[1] = Seed
  BY <1>3
<1>5. Good(bs)
  BY <1>2, <1>3, <1>4 DEF Good
<1>6. Positions(bs) = {<<1, 0>>}
  BY <1>3, <1>4 DEF Positions
<1>7. Seed[0].inode = 0 /\ Seed[0].size = BLOCK_SIZE
  BY <1>3
<1>8. At(bs, <<1, 0>>) = Seed[0]
  BY <1>4 DEF At
<1>9. Live(bs) = {}
  BY <1>6, <1>7, <1>8 DEF Live
<1>10. Seed[0].size >= Width(".")
  BY <1>2, <1>7
<1>11. {p \in Positions(bs) : HasRoom(At(bs, p), Width("."))} = {<<1, 0>>}
  <2>1. HasRoom(Seed[0], Width("."))
    BY <1>7, <1>10, ZenonT(30) DEF HasRoom
  <2> QED BY <2>1, <1>6, <1>8
<1>12. First({<<1, 0>>}) = <<1, 0>>
  <2>1. {<<1, 0>>} # {} /\ {<<1, 0>>} \subseteq Nat \X Nat
    OBVIOUS
  <2> QED BY <2>1, FirstIn
<1>13. PICK d : d = Split(Seed, 0, ".", self)
  OBVIOUS
<1>14. b1 = [bs EXCEPT ![1] = d]
  <2>1. <<1, 0>>[1] = 1 /\ <<1, 0>>[2] = 0 /\ {<<1, 0>>} # {}
    OBVIOUS
  <2>2. b1 = [bs EXCEPT ![<<1, 0>>[1]] = Split(bs[<<1, 0>>[1]], <<1, 0>>[2], ".", self)]
    BY <1>11, <1>12, <2>1, ZenonT(30) DEF dir_insert
  <2> QED BY <2>1, <2>2, <1>4, <1>13, ZenonT(30)
<1>15. d = [Seed EXCEPT ![0] = [inode |-> self, name |-> ".", size |-> BLOCK_SIZE]]
  BY <1>7, <1>10, <1>13, ZenonT(30) DEF Split
<1>16. /\ DOMAIN d = {0}
       /\ d[0] = [inode |-> self, name |-> ".", size |-> BLOCK_SIZE]
  BY <1>3, <1>15
<1>17. DOMAIN b1 = {1} /\ b1[1] = d
  BY ZenonT(30), <1>4, <1>14
<1>18. <<1, 0>> \in Positions(b1)
  BY ZenonT(30), <1>16, <1>17, PositionIs
<1>19. HasRoom(At(b1, <<1, 0>>), Width(".."))
  <2>1. At(b1, <<1, 0>>) = d[0]
    BY ZenonT(30), <1>17 DEF At
  <2>2. d[0].size = BLOCK_SIZE /\ d[0].name = "."
    BY <1>16
  <2>3. true_size(d[0]) = Width(".")
    BY <2>2 DEF true_size, NoName
  <2>4. d[0].size - true_size(d[0]) >= Width("..")
    BY <2>2, <2>3, <1>2
  <2> QED BY <2>1, <2>4, ZenonT(30) DEF HasRoom
<1>20. b1 # bs
  <2>1. d[0].inode # 0
    BY <1>16, EntryAssumption
  <2> QED BY ZenonT(30), <2>1, <1>4, <1>7, <1>17
<1> QED BY ZenonT(30), <1>5, <1>9, <1>18, <1>19, <1>20

\* A new directory is a map with "." and "..".
LEMMA MakeDirIs ==
    ASSUME NEW self \in Inode, NEW up \in Inode, NEW b2, b2 = make_dir(self, up)
    PROVE  Good(b2) /\ Unique(b2) /\ Mapping(b2) \in [{".", ".."} -> Inode]
<1>1. PICK bs : bs = <<Seed>>
  BY ZenonT(30)
<1>2. PICK b1 : b1 = dir_insert(bs, ".", self, FALSE)
  BY ZenonT(30)
<1>3. b2 = dir_insert(b1, "..", up, FALSE)
  BY <1>1, <1>2, ZenonT(30) DEF make_dir
<1>4. "." \in Names /\ ".." \in Names
  BY DEF Names
<1>5. /\ Good(bs) /\ Live(bs) = {} /\ b1 # bs
      /\ <<1, 0>> \in Positions(b1) /\ HasRoom(At(b1, <<1, 0>>), Width(".."))
  BY <1>1, <1>2, SelfEntry, ZenonT(30)
<1>6. Good(b1) /\ \E q : Adds(bs, b1, q, ".", self)
  <2>1. Good(b1) /\ Inserted(bs, b1, ".", self)
    BY <1>2, <1>4, <1>5, InsertAdds, ZenonT(30)
  <2> QED BY <2>1, <1>5, ZenonT(30) DEF Inserted
<1>7. Good(b2) /\ \E q : Adds(b1, b2, q, "..", up)
  <2>1. Good(b2) /\ Inserted(b1, b2, "..", up)
    BY <1>3, <1>4, <1>6, InsertAdds, ZenonT(30)
  <2> QED BY <2>1, <1>5, ZenonT(30) DEF Inserted
<1>8. Unique(bs) /\ ~name_in(bs, ".") /\ DOMAIN Mapping(bs) = {}
  <2>1. Unique(bs) /\ ~name_in(bs, ".")
    BY <1>5 DEF Unique, name_in, Found
  <2>2. DOMAIN Mapping(bs) = {}
    BY <1>5 DEF Mapping
  <2> QED BY <2>1, <2>2
<1>9. PICK q : Adds(bs, b1, q, ".", self)
  BY <1>6
<1>10. Unique(b1) /\ Extends(Mapping(bs), Mapping(b1), ".", self)
  BY <1>5, <1>6, <1>8, <1>9, AddsToMap, ZenonT(30)
<1>11. DOMAIN Mapping(b1) = {"."} /\ Mapping(b1)["."] = self
  BY <1>8, <1>10 DEF Extends
<1>12. ~name_in(b1, "..")
  <2>1. ".." \notin DOMAIN Mapping(b1)
    BY <1>11
  <2> QED BY <2>1, <1>6, <1>10, MappingIs, ZenonT(30)
<1>13. PICK r : Adds(b1, b2, r, "..", up)
  BY <1>7
<1>14. Unique(b2) /\ Extends(Mapping(b1), Mapping(b2), "..", up)
  BY <1>6, <1>7, <1>10, <1>12, <1>13, AddsToMap, ZenonT(30)
<1>15. Mapping(b2) \in [{".", ".."} -> Inode]
  BY <1>11, <1>14 DEF Extends
<1> QED BY <1>7, <1>14, <1>15

\* What the invariant says of the map: "." and ".." are in it.
LEMMA DotsInMap ==
    ASSUME NEW bs, Good(bs), Unique(bs)
    PROVE  Dotted(bs) <=> {".", ".."} \subseteq DOMAIN Mapping(bs)
<1>1. \A x : x \in DOMAIN Mapping(bs) <=> name_in(bs, x)
  BY MappingIs, ZenonT(30)
<1> QED BY <1>1 DEF Dotted

\* What a step does to the blocks and to the map.
StepOf(b1, b2) ==
    \/ b2 = b1
    \/ \E name \in Name, n \in Inode :
         name \notin DOMAIN Mapping(b1) /\ Extends(Mapping(b1), Mapping(b2), name, n)
    \/ \E name \in Name :
         name \in DOMAIN Mapping(b1) /\ Shrinks(Mapping(b1), Mapping(b2), name)
    \/ \E n \in Inode : Updates(Mapping(b1), Mapping(b2), "..", n)

\* Every step keeps the invariant, and is a step of the map.
LEMMA StepsKeep ==
    ASSUME IInv, Next
    PROVE  /\ Good(blocks') /\ Unique(blocks') /\ Dotted(blocks')
           /\ StepOf(blocks, blocks')
<1>1. PICK b1, b2 : b1 = blocks /\ b2 = blocks'
  OBVIOUS
<1>2. Good(b1) /\ Unique(b1) /\ {".", ".."} \subseteq DOMAIN Mapping(b1)
  BY <1>1, DotsInMap DEF IInv
<1>3. \A name \in Name : name \in Names /\ name \notin {".", ".."}
  BY EntryAssumption DEF Names
<1>4. \A x : x \in DOMAIN Mapping(b1) <=> name_in(b1, x)
  BY <1>2, MappingIs, ZenonT(30)
<1> SUFFICES /\ Good(b2) /\ Unique(b2) /\ {".", ".."} \subseteq DOMAIN Mapping(b2)
             /\ StepOf(b1, b2)
  BY <1>1, DotsInMap
<1>5. ASSUME NEW name \in Name, NEW n \in Inode, InsertName(name, n)
      PROVE  /\ Good(b2) /\ Unique(b2) /\ {".", ".."} \subseteq DOMAIN Mapping(b2)
             /\ StepOf(b1, b2)
  <2>1. PICK room \in {TRUE, FALSE} :
           ~name_in(b1, name) /\ (room => Len(b1) < MaxBlocks) /\ b2 = dir_insert(b1, name, n, room)
    BY ZenonT(30), <1>1, <1>5 DEF InsertName
  <2>2. name \in Names /\ room \in BOOLEAN
    BY ZenonT(30), <1>3
  <2>3. Good(b2) /\ Inserted(b1, b2, name, n)
    BY <1>2, <2>1, <2>2, InsertAdds, ZenonT(30)
  <2>5. CASE b2 = b1
    BY <2>5, <1>2, ZenonT(30) DEF StepOf
  <2>6. ASSUME NEW q, Adds(b1, b2, q, name, n)
        PROVE  Unique(b2) /\ {".", ".."} \subseteq DOMAIN Mapping(b2) /\ StepOf(b1, b2)
    <3>1. Unique(b2) /\ Extends(Mapping(b1), Mapping(b2), name, n)
      BY <1>2, <2>1, <2>3, <2>6, AddsToMap, ZenonT(30)
    <3>2. {".", ".."} \subseteq DOMAIN Mapping(b2)
      BY <1>2, <3>1 DEF Extends
    <3>3. name \notin DOMAIN Mapping(b1)
      BY <1>4, <2>1, ZenonT(30)
    <3> QED BY <3>1, <3>2, <3>3, ZenonT(30) DEF StepOf
  <2> QED BY <2>3, <2>5, <2>6, ZenonT(30) DEF Inserted
<1>6. ASSUME NEW name \in Name, RemoveName(name)
      PROVE  /\ Good(b2) /\ Unique(b2) /\ {".", ".."} \subseteq DOMAIN Mapping(b2)
             /\ StepOf(b1, b2)
  <2>1. name_in(b1, name) /\ b2 = dir_remove(b1, name)
    BY <1>1, <1>6 DEF RemoveName
  <2>2. Good(b2) /\ Len(b2) = Len(b1)
        /\ \E q \in Live(b1) : At(b1, q).name = name /\ Drops(b1, b2, q)
    BY <1>2, <2>1, RemoveDrops, ZenonT(30)
  <2>3. Unique(b2) /\ Shrinks(Mapping(b1), Mapping(b2), name)
    BY <1>2, <2>2, DropsFromMap, ZenonT(30)
  <2>4. {".", ".."} \subseteq DOMAIN Mapping(b2)
    BY <1>2, <1>3, <2>3 DEF Shrinks
  <2>5. StepOf(b1, b2)
    BY <1>4, <2>1, <2>3, ZenonT(30) DEF StepOf
  <2> QED BY <2>2, <2>3, <2>4, <2>5
<1>7. ASSUME NEW n \in Inode, SetParent(n)
      PROVE  /\ Good(b2) /\ Unique(b2) /\ {".", ".."} \subseteq DOMAIN Mapping(b2)
             /\ StepOf(b1, b2)
  <2>1. name_in(b1, "..") /\ b2 = dir_set_parent_entry(b1, n)
    BY <1>1, <1>2, <1>4, <1>7 DEF SetParent
  <2>2. Good(b2) /\ Len(b2) = Len(b1)
        /\ \E q \in Live(b1) : At(b1, q).name = ".." /\ Relinks(b1, b2, q, n)
    BY <1>2, <2>1, SetParentRelinks, ZenonT(30)
  <2>3. Unique(b2) /\ Updates(Mapping(b1), Mapping(b2), "..", n)
    BY <1>2, <2>2, RelinksMap, ZenonT(30)
  <2>4. {".", ".."} \subseteq DOMAIN Mapping(b2)
    BY <1>2, <2>3 DEF Updates
  <2>5. StepOf(b1, b2)
    BY <2>3, ZenonT(30) DEF StepOf
  <2> QED BY <2>2, <2>3, <2>4, <2>5
<1> QED BY <1>5, <1>6, <1>7 DEF Next

\* IInv is an inductive invariant.
LEMMA DirectoryInv == Spec => []IInv
<1>1. Init => IInv
  <2> SUFFICES ASSUME Init PROVE IInv
    OBVIOUS
  <2>1. PICK self \in Inode, up \in Inode : blocks = make_dir(self, up)
    BY DEF Init
  <2>2. PICK b : b = blocks
    OBVIOUS
  <2>3. Good(b) /\ Unique(b) /\ Mapping(b) \in [{".", ".."} -> Inode]
    BY <2>1, <2>2, MakeDirIs, ZenonT(30)
  <2>4. {".", ".."} \subseteq DOMAIN Mapping(b)
    BY <2>3
  <2> QED BY <2>2, <2>3, <2>4, DotsInMap DEF IInv
<1>2. IInv /\ [Next]_blocks => IInv'
  <2> SUFFICES ASSUME IInv, [Next]_blocks PROVE IInv'
    OBVIOUS
  <2>1. CASE Next
    BY <2>1, StepsKeep DEF IInv
  <2>2. CASE UNCHANGED blocks
    BY <2>2 DEF IInv
  <2> QED BY <2>1, <2>2
<1> QED BY <1>1, <1>2, PTL DEF Spec

\* After any sequence of splits, takeovers and merges the chains tile their
\* blocks, no entry is smaller than what it holds, and only the first entry of
\* a block is ever unused: the "corrupted chain" branches of name_in,
\* dir_insert and dir_remove are never taken.
THEOREM ChainsTile == Spec => []WellFormed
<1>1. IInv => WellFormed
  <2> SUFFICES ASSUME IInv PROVE WellFormed
    OBVIOUS
  <2>1. /\ blocks \in Seq(Block) /\ Len(blocks) \in 1 .. MaxBlocks
        /\ \A i \in DOMAIN blocks : Fits(blocks[i])
    BY DEF IInv, Good
  <2>2. ASSUME NEW i \in DOMAIN blocks
        PROVE  /\ DOMAIN blocks[i] \subseteq 0 .. BLOCK_SIZE - 1
               /\ blocks[i] \in [DOMAIN blocks[i] -> Entry]
    BY <2>1, BlockIs
  <2>3. TypeOK
    BY <2>1, <2>2 DEF TypeOK
  <2> QED BY <2>1, <2>3, ZenonT(30) DEF WellFormed, Fits
<1> QED BY <1>1, DirectoryInv, PTL

\* A directory is a map from names to inode numbers, whatever the layout: an
\* insertion adds its name or nothing, a removal takes away exactly its name.
THEOREM DirectoryIsMap == Spec => ActsAsMap
<1>1. Init => Map!Init
  <2> SUFFICES ASSUME Init PROVE Map!Init
    OBVIOUS
  <2>1. PICK self \in Inode, up \in Inode : blocks = make_dir(self, up)
    BY DEF Init
  <2>2. PICK b : b = blocks
    OBVIOUS
  <2>3. Mapping(b) \in [{".", ".."} -> Inode]
    BY <2>1, <2>2, MakeDirIs, ZenonT(30)
  <2> QED BY <2>2, <2>3 DEF Map!Init, Entries, Mapping
<1>2. IInv /\ [Next]_blocks => [Map!Next]_Entries
  <2> SUFFICES ASSUME IInv, [Next]_blocks PROVE Map!Next \/ Entries' = Entries
    OBVIOUS
  <2>1. CASE UNCHANGED blocks
    BY <2>1 DEF Entries
  <2>2. CASE Next
    <3>1. StepOf(blocks, blocks')
      BY <2>2, StepsKeep
    <3>2. Mapping(blocks) = Entries /\ Mapping(blocks') = Entries'
      BY DEF Mapping, Entries
    <3>3. CASE blocks' = blocks
      BY <3>3 DEF Entries
    <3>4. ASSUME NEW name \in Name, NEW n \in Inode, name \notin DOMAIN Mapping(blocks),
                 Extends(Mapping(blocks), Mapping(blocks'), name, n)
          PROVE  Map!Next
      <4>1. Map!Insert(name, n)
        BY <3>2, <3>4 DEF Map!Insert, Extends
      <4> QED BY <4>1, ZenonT(30) DEF Map!Next
    <3>5. ASSUME NEW name \in Name, name \in DOMAIN Mapping(blocks),
                 Shrinks(Mapping(blocks), Mapping(blocks'), name)
          PROVE  Map!Next
      BY <3>2, <3>5, ZenonT(30) DEF Map!Next, Map!Remove, Map!Restrict, Shrinks
    <3>6. ASSUME NEW n \in Inode, Updates(Mapping(blocks), Mapping(blocks'), "..", n)
          PROVE  Map!Next
      BY <3>2, <3>6, ZenonT(30) DEF Map!Next, Map!SetParent, Updates
    <3> QED BY <3>1, <3>3, <3>4, <3>5, <3>6, ZenonT(30) DEF StepOf
  <2> QED BY <2>1, <2>2
<1> QED BY <1>1, <1>2, DirectoryInv, PTL DEF Spec, ActsAsMap, Map!Spec

\* dir_remove leaves room for every name that is no longer than the removed one.
LEMMA RemovalLeavesRoom ==
    ASSUME NEW b1, Good(b1), NEW x \in Name, name_in(b1, x),
           NEW y \in Name, Width(y) <= Width(x), NEW n \in Inode,
           NEW b2, b2 = dir_remove(b1, x), NEW b3, b3 = dir_insert(b2, y, n, FALSE)
    PROVE  name_in(b3, y)
<1>1. /\ Good(b2) /\ Len(b2) = Len(b1)
      /\ \E q \in Live(b1) :
           /\ At(b1, q).name = x /\ Drops(b1, b2, q)
           /\ \E p \in Positions(b2) : HasRoom(At(b2, p), At(b1, q).size)
  BY RemoveDrops, ZenonT(30)
<1>2. PICK q \in Live(b1) :
        At(b1, q).name = x /\ \E p \in Positions(b2) : HasRoom(At(b2, p), At(b1, q).size)
  BY <1>1, ZenonT(30)
<1>3. PICK p \in Positions(b2) : HasRoom(At(b2, p), At(b1, q).size)
  BY <1>2
<1>4. x \in Names /\ y \in Names /\ x # NoName
  BY EntryAssumption DEF Names
<1>5. Width(x) \in Nat /\ Width(y) \in Nat
  BY <1>4, EntryAssumption
<1>6. At(b1, q).size \in Nat /\ Width(x) <= At(b1, q).size
  <2>1. \E i \in DOMAIN b1 : \E o \in DOMAIN b1[i] : q = <<i, o>> /\ b1[i][o].inode # 0
    BY LiveIs, ZenonT(30)
  <2>2. PICK i, o : i \in DOMAIN b1 /\ o \in DOMAIN b1[i] /\ q = <<i, o>>
    BY <2>1, ZenonT(30)
  <2>3. b1[i] \in Block /\ Fits(b1[i])
    BY <2>2 DEF Good
  <2>4. b1[i][o].size \in Nat /\ true_size(b1[i][o]) <= b1[i][o].size
    BY <2>2, <2>3, ChainFacts
  <2>5. At(b1, q) = b1[i][o]
    BY <2>2 DEF At
  <2>6. true_size(b1[i][o]) = Width(x)
    BY <1>2, <1>4, <2>5, ZenonT(30) DEF true_size
  <2> QED BY <2>4, <2>5, <2>6
<1>7. HasRoom(At(b2, p), Width(y))
  <2>1. PICK e : e = At(b2, p)
    OBVIOUS
  <2>2. e \in Entry
    BY <1>1, <1>3, <2>1, PositionNat, ZenonT(30) DEF Good
  <2>3. e.size \in Nat /\ true_size(e) \in Nat
    BY <2>2, TrueSize DEF Entry
  <2>4. PICK s \in Nat : s = At(b1, q).size
    BY <1>6
  <2>5. HasRoom(e, s) /\ Width(y) <= s
    BY <1>3, <1>5, <1>6, <2>1, <2>4
  <2>6. CASE e.inode = 0 /\ e.size >= s
    <3>1. e.size >= Width(y)
      BY <1>5, <2>3, <2>5, <2>6
    <3> QED BY <2>1, <2>6, <3>1, ZenonT(30) DEF HasRoom
  <2>7. CASE e.size - true_size(e) >= s
    <3>1. e.size - true_size(e) >= Width(y)
      BY <1>5, <2>3, <2>5, <2>7
    <3> QED BY <2>1, <3>1, ZenonT(30) DEF HasRoom
  <2> QED BY <2>5, <2>6, <2>7, ZenonT(30) DEF HasRoom
<1>8. Inserted(b2, b3, y, n)
  <2>1. FALSE \in BOOLEAN /\ (FALSE => Len(b2) < MaxBlocks)
    OBVIOUS
  <2> QED BY <1>1, <1>4, <2>1, InsertAdds, ZenonT(30)
<1>9. PICK r : Adds(b2, b3, r, y, n)
  BY <1>7, <1>8, ZenonT(30) DEF Inserted
<1>10. r \in Live(b3) /\ At(b3, r).name = y
  BY <1>9, ZenonT(30) DEF Adds
<1> QED BY <1>10, ZenonT(30) DEF name_in, Found

\* The room of a removed name is not lost: a name that is no longer finds a
\* place without a new block, wherever the removed one stood.
THEOREM RoomIsReused == Spec => []ReusesRoom
<1>1. IInv => ReusesRoom
  BY RemovalLeavesRoom, ZenonT(30) DEF IInv, ReusesRoom
<1> QED BY <1>1, DirectoryInv, PTL
=============================================================================
