-------------------------- MODULE Ext2BitmapProofs --------------------------
(***************************************************************************)
(* Proofs about the bitmap allocators for every number of groups, every    *)
(* group size and every number of power failures.                          *)
(***************************************************************************)
EXTENDS Ext2Bitmap, FiniteSetTheorems, TLAPS

\* Leaves are tried with the SMT solver and then with Zenon, within 30 seconds.
USE SMTT(30), ZenonT(30)

\* The bitmaps as the call in progress will leave them.
Target == IF op = Idle THEN bits ELSE [bits EXCEPT ![op.kind] = op.bitmap]

\* The call in progress turns one bit that is not what it wants: a clear one
\* for alloc_*, one the caller no longer owns for free_*.
CallOK ==
    op # Idle =>
      \/ /\ op.call = "alloc"
         /\ op.item \notin bits[op.kind]
         /\ op.bitmap = bits[op.kind] \cup {op.item}
      \/ /\ op.call = "free"
         /\ op.item \in bits[op.kind]
         /\ op.item \notin held[op.kind]
         /\ op.bitmap = bits[op.kind] \ {op.item}

\* How far the disk has caught up with memory.
Synced ==
    /\ power = "on" => cnt = mcnt /\ total = mtotal /\ valid = mvalid
    /\ power = "mounted" /\ op = Idle => cnt = mcnt /\ total = mtotal
    /\ op.write \in {"superblk", "bitmap"} => cnt = mcnt
    /\ op.write = "bitmap" => total = mtotal

\* A mounted partition is marked so; before any dirty mount its counters in
\* memory are exact for the bitmaps the call in progress will leave.
Accurate ==
    /\ power = "mounted" => ~valid /\ ~mvalid
    /\ power = "mounted" /\ ~dirtyMount => Exact(mcnt, mtotal, Target)

IInv ==
    /\ TypeOK
    /\ Marked
    /\ CallOK
    /\ Synced
    /\ Accurate
    /\ CleanIsConsistent
    /\ NoPanic

-----------------------------------------------------------------------------
\* A group, and the partition, have finitely many items.
LEMMA FiniteSizes ==
    ASSUME NEW b, NEW g
    PROVE  /\ IsFiniteSet(FreeIn(b, g))
           /\ Cardinality(FreeIn(b, g)) \in Nat
           /\ IsFiniteSet(FreeItems(b))
           /\ Cardinality(FreeItems(b)) \in Nat
<1>1. IsFiniteSet(Index) /\ IsFiniteSet(Group)
  BY FS_Interval, SizeAssumption DEF Index, Group
<1>2. IsFiniteSet(Item)
  BY <1>1, FS_Product DEF Item
<1>3. FreeIn(b, g) \in SUBSET Index /\ FreeItems(b) \in SUBSET Item
  BY DEF FreeIn, FreeItems
<1>4. IsFiniteSet(FreeIn(b, g)) /\ IsFiniteSet(FreeItems(b))
  BY <1>1, <1>2, <1>3, FS_Subset
<1> QED BY <1>4, FS_CardinalityType

\* Setting one bit lowers the number of free items of its group, and of the
\* partition, by one.
LEMMA SetBit ==
    ASSUME NEW b, NEW g \in Group, NEW i \in Index, <<g, i>> \notin b
    PROVE  /\ \A h \in Group : Cardinality(FreeIn(b \cup {<<g, i>>}, h))
                = IF h = g THEN Cardinality(FreeIn(b, h)) - 1
                           ELSE Cardinality(FreeIn(b, h))
           /\ Cardinality(FreeItems(b \cup {<<g, i>>}))
                = Cardinality(FreeItems(b)) - 1
<1>1. FreeIn(b \cup {<<g, i>>}, g) = FreeIn(b, g) \ {i} /\ i \in FreeIn(b, g)
  BY DEF FreeIn
<1>2. Cardinality(FreeIn(b \cup {<<g, i>>}, g)) = Cardinality(FreeIn(b, g)) - 1
  BY <1>1, FiniteSizes, FS_RemoveElement, ZenonT(30)
<1>3. \A h \in Group : h # g => FreeIn(b \cup {<<g, i>>}, h) = FreeIn(b, h)
  BY DEF FreeIn
<1>4. /\ FreeItems(b \cup {<<g, i>>}) = FreeItems(b) \ {<<g, i>>}
      /\ <<g, i>> \in FreeItems(b)
  BY DEF FreeItems, Item
<1>5. Cardinality(FreeItems(b \cup {<<g, i>>})) = Cardinality(FreeItems(b)) - 1
  BY <1>4, FiniteSizes, FS_RemoveElement, ZenonT(30)
<1> QED BY <1>2, <1>3, <1>5

\* Clearing one raises them by one.
LEMMA ClearBit ==
    ASSUME NEW b, NEW g \in Group, NEW i \in Index, <<g, i>> \in b
    PROVE  /\ \A h \in Group : Cardinality(FreeIn(b \ {<<g, i>>}, h))
                = IF h = g THEN Cardinality(FreeIn(b, h)) + 1
                           ELSE Cardinality(FreeIn(b, h))
           /\ Cardinality(FreeItems(b \ {<<g, i>>}))
                = Cardinality(FreeItems(b)) + 1
<1>1. FreeIn(b \ {<<g, i>>}, g) = FreeIn(b, g) \cup {i} /\ i \notin FreeIn(b, g)
  BY DEF FreeIn
<1>2. Cardinality(FreeIn(b \ {<<g, i>>}, g)) = Cardinality(FreeIn(b, g)) + 1
  BY <1>1, FiniteSizes, FS_AddElement, ZenonT(30)
<1>3. \A h \in Group : h # g => FreeIn(b \ {<<g, i>>}, h) = FreeIn(b, h)
  BY DEF FreeIn
<1>4. /\ FreeItems(b \ {<<g, i>>}) = FreeItems(b) \cup {<<g, i>>}
      /\ <<g, i>> \notin FreeItems(b)
  BY DEF FreeItems, Item
<1>5. Cardinality(FreeItems(b \ {<<g, i>>})) = Cardinality(FreeItems(b)) + 1
  BY <1>4, FiniteSizes, FS_AddElement, ZenonT(30)
<1> QED BY <1>2, <1>3, <1>5

CountType == [Kind -> [Group -> Nat]]
TotalType == [Kind -> Int]
BitsType == [Kind -> SUBSET Item]

\* Adjusting the counters of one group keeps them exact for a bitmap in which
\* the number of free items changed by the same amount.
LEMMA AdjustExact ==
    ASSUME NEW c \in CountType, NEW t \in TotalType, NEW b \in BitsType,
           NEW k \in Kind, NEW g \in Group, NEW d \in Int,
           NEW m \in SUBSET Item, Exact(c, t, b),
           \A h \in Group : Cardinality(FreeIn(m, h))
                = IF h = g THEN Cardinality(FreeIn(b[k], h)) + d
                           ELSE Cardinality(FreeIn(b[k], h)),
           Cardinality(FreeItems(m)) = Cardinality(FreeItems(b[k])) + d
    PROVE  Exact([c EXCEPT ![k] = [c[k] EXCEPT ![g] = c[k][g] + d]],
                 [t EXCEPT ![k] = t[k] + d],
                 [b EXCEPT ![k] = m])
<1> DEFINE c2 == [c EXCEPT ![k] = [c[k] EXCEPT ![g] = c[k][g] + d]]
           t2 == [t EXCEPT ![k] = t[k] + d]
           b2 == [b EXCEPT ![k] = m]
<1>1. SUFFICES ASSUME NEW l \in Kind
               PROVE  /\ \A h \in Group : c2[l][h] = Cardinality(FreeIn(b2[l], h))
                      /\ t2[l] = Cardinality(FreeItems(b2[l]))
  BY DEF Exact
<1>2. CASE l = k
  <2>1. b2[l] = m /\ t2[l] = t[k] + d /\ c2[l] = [c[k] EXCEPT ![g] = c[k][g] + d]
    BY <1>2 DEF CountType, TotalType, BitsType
  <2>2. \A h \in Group : c2[l][h] = IF h = g THEN c[k][h] + d ELSE c[k][h]
    BY <2>1 DEF CountType
  <2> QED BY <2>1, <2>2 DEF Exact
<1>3. CASE l # k
  BY <1>3 DEF Exact, CountType, TotalType, BitsType
<1> QED BY <1>2, <1>3

-----------------------------------------------------------------------------
\* A call under way is not mistaken for none.
LEMMA CallIsNotIdle == \A c \in Call : c # Idle
BY DEF Call, Idle

\* The invariant holds of a freshly made file system.
LEMMA InitIInv == Init => IInv
<1> SUFFICES ASSUME Init PROVE IInv
  OBVIOUS
<1>1. /\ \A k \in Kind : cnt[k] \in [Group -> Nat]
      /\ \A k \in Kind : total[k] \in Int
  BY FiniteSizes DEF Init
<1>2. cnt \in [Kind -> [Group -> Nat]] /\ total \in [Kind -> Int]
  BY <1>1 DEF Init
<1>3. crashes \in 0 .. MaxCrashes
  BY SizeAssumption DEF Init
<1>4. TypeOK
  BY <1>2, <1>3, ZenonT(30) DEF Init, TypeOK
<1>5. Exact(cnt, total, bits)
  BY DEF Init, Exact
<1> QED BY <1>4, <1>5 DEF Init, IInv, Marked, CallOK, Synced, Accurate,
                          CleanIsConsistent, NoPanic, Idle

\* Starting, mounting, releasing and losing power.
LEMMA PowerPreserves ==
    IInv /\ (BlockInit \/ Mount \/ Umount \/ SysHalt \/ Crash) => IInv'
<1> SUFFICES ASSUME IInv, BlockInit \/ Mount \/ Umount \/ SysHalt \/ Crash
             PROVE  IInv'
  OBVIOUS
<1> USE DEF IInv, disk, memory
<1>1. bits' = bits /\ held' = held
  BY DEF BlockInit, Mount, Umount, SysHalt, Release, Crash, mark_fs_state
<1>2. Marked'
  BY <1>1 DEF Marked
<1>3. op' = Idle
  BY CallIsNotIdle, ZenonT(30) DEF BlockInit, Mount, Umount, SysHalt, Release, Crash, TypeOK
<1>4. CallOK'
  BY <1>3 DEF CallOK
<1>5. CASE BlockInit
  <2>1. TypeOK'
    BY <1>3, <1>5 DEF BlockInit, TypeOK
  <2>2. Synced' /\ NoPanic'
    BY <1>3, <1>5 DEF BlockInit, Synced, NoPanic, Idle
  <2>3. Accurate' /\ CleanIsConsistent'
    BY <1>5 DEF BlockInit, Accurate, CleanIsConsistent, Exact
  <2> QED BY <1>2, <1>4, <2>1, <2>2, <2>3
<1>6. CASE Mount
  <2>1. TypeOK'
    BY <1>3, <1>6, ZenonT(30) DEF Mount, mark_fs_state, TypeOK
  <2>2. Synced' /\ NoPanic'
    BY <1>3, <1>6, ZenonT(30) DEF Mount, mark_fs_state, Synced, NoPanic, Idle
  <2>3. ~dirtyMount' => Exact(cnt, total, bits)
    BY <1>6 DEF Mount, Synced, CleanIsConsistent
  <2>4. Accurate'
    BY <1>3, <1>6, <2>3 DEF Mount, mark_fs_state, Accurate, Synced, Target, Exact
  <2>5. CleanIsConsistent'
    BY <1>6 DEF Mount, mark_fs_state, CleanIsConsistent
  <2> QED BY <1>2, <1>4, <2>1, <2>2, <2>4, <2>5
<1>7. CASE Umount \/ SysHalt
  <2>1. /\ op = Idle /\ power = "mounted" /\ power' \in {"on", "off"}
        /\ mark_fs_state(TRUE)
        /\ UNCHANGED <<op, held, panicked, crashes, dirtyMount>>
    BY <1>7 DEF Umount, SysHalt, Release
  <2>2. TypeOK'
    BY <2>1 DEF mark_fs_state, TypeOK
  <2>3. Synced' /\ NoPanic'
    BY <2>1 DEF mark_fs_state, Synced, NoPanic, Idle
  <2>4. ~dirtyMount => Exact(cnt, total, bits)
    BY <2>1 DEF Accurate, Synced, Target
  <2>5. Accurate' /\ CleanIsConsistent'
    BY <2>1, <2>4 DEF mark_fs_state, Accurate, Synced, CleanIsConsistent, Exact
  <2> QED BY <1>2, <1>4, <2>2, <2>3, <2>5
<1>8. CASE Crash
  <2>1. crashes' \in 0 .. MaxCrashes
    BY <1>8, SizeAssumption DEF Crash, TypeOK
  <2>2. TypeOK'
    BY <1>8, <2>1, ZenonT(30) DEF Crash, TypeOK
  <2>3. Synced' /\ NoPanic'
    BY <1>8 DEF Crash, Synced, NoPanic, Idle
  <2>4. Accurate' /\ CleanIsConsistent'
    BY <1>8 DEF Crash, Accurate, CleanIsConsistent, Exact
  <2> QED BY <1>2, <1>4, <2>2, <2>3, <2>4
<1> QED BY <1>5, <1>6, <1>7, <1>8

\* What alloc_* and free_* have done before their first write: one bit of m
\* differs from the bitmap on disk, and the counters in memory agree with m.
Started(k, g, i, d, name, m) ==
    /\ Ready /\ Adjust(k, g, d)
    /\ op' = [write |-> "bgdt", call |-> name, kind |-> k,
              item |-> <<g, i>>, bitmap |-> m]
    /\ UNCHANGED <<disk, power, panicked, crashes, dirtyMount>>
    /\ held' \in BitsType /\ mcnt[k][g] + d \in Nat
    /\ \A h \in Group : Cardinality(FreeIn(m, h))
            = IF h = g THEN Cardinality(FreeIn(bits[k], h)) + d
                       ELSE Cardinality(FreeIn(bits[k], h))
    /\ Cardinality(FreeItems(m)) = Cardinality(FreeItems(bits[k])) + d

\* Starting a call breaks nothing the other bitmap, the disk or the flag
\* promise.
LEMMA StartPreserves ==
    ASSUME IInv,
           NEW k \in Kind, NEW g \in Group, NEW i \in Index, NEW d \in Int,
           NEW name \in {"alloc", "free"}, NEW m \in SUBSET Item,
           Started(k, g, i, d, name, m)
    PROVE  /\ TypeOK' /\ Synced' /\ Accurate' /\ CleanIsConsistent' /\ NoPanic'
           /\ op' # Idle
<1> USE DEF IInv, disk, Started
<1>1. power = "mounted" /\ op = Idle /\ ~panicked
  BY DEF Ready
<1>2. mcnt \in CountType /\ mtotal \in TotalType /\ bits \in BitsType
  BY DEF TypeOK, CountType, TotalType, BitsType
<1>3. /\ mcnt' = [mcnt EXCEPT ![k] = [mcnt[k] EXCEPT ![g] = mcnt[k][g] + d]]
      /\ mtotal' = [mtotal EXCEPT ![k] = mtotal[k] + d]
      /\ mvalid' = mvalid
  BY DEF Adjust
<1>4. mcnt' \in CountType /\ mtotal' \in TotalType
  BY <1>2, <1>3 DEF CountType, TotalType
<1>5. <<g, i>> \in Item
  BY DEF Item
<1>6. op' \in Call
  BY <1>5 DEF Call
<1>7. op' # Idle
  BY <1>6, CallIsNotIdle
<1>8. TypeOK'
  BY <1>1, <1>3, <1>4, <1>6 DEF TypeOK, CountType, TotalType, BitsType
<1>9. Synced' /\ NoPanic' /\ CleanIsConsistent'
  BY <1>1, <1>7 DEF Synced, NoPanic, CleanIsConsistent, Exact
<1>10. ~dirtyMount => Exact(mcnt, mtotal, bits)
  BY <1>1 DEF Accurate, Target
<1>11. ~dirtyMount => Exact(mcnt', mtotal', [bits EXCEPT ![k] = m])
  BY <1>2, <1>3, <1>10, AdjustExact, ZenonT(30)
<1>12. Target' = [bits EXCEPT ![k] = m]
  BY <1>7 DEF Target
<1>13. Accurate'
  BY <1>1, <1>3, <1>11, <1>12 DEF Accurate
<1> QED BY <1>7, <1>8, <1>9, <1>13

\* alloc_inode and alloc_block up to their first write.
LEMMA AllocPreserves == ASSUME NEW k \in Kind PROVE IInv /\ Alloc(k) => IInv'
<1> SUFFICES ASSUME IInv, Alloc(k) PROVE IInv'
  OBVIOUS
<1> USE DEF IInv, disk, memory
<1>1. PICK g \in Group :
         /\ FirstGroup(k, g)
         /\ \/ /\ FreeIn(bits[k], g) = {}
               /\ panicked' = TRUE
               /\ UNCHANGED <<memory, op>>
            \/ \E i \in Index :
                 /\ FirstClear(k, g, i)
                 /\ op' = [write |-> "bgdt", call |-> "alloc", kind |-> k,
                           item |-> <<g, i>>, bitmap |-> bits[k] \cup {<<g, i>>}]
                 /\ Adjust(k, g, -1)
                 /\ UNCHANGED panicked
  BY DEF Alloc
<1>2. /\ Ready /\ power = "mounted" /\ op = Idle
      /\ UNCHANGED <<disk, power, held, crashes, dirtyMount>>
  BY DEF Alloc, Ready
<1>3. Marked'
  BY <1>2 DEF Marked
<1>4. CASE FreeIn(bits[k], g) = {} /\ panicked' = TRUE /\ UNCHANGED <<memory, op>>
  <2>1. TypeOK'
    BY <1>2, <1>4 DEF TypeOK
  <2>2. CallOK' /\ Synced' /\ CleanIsConsistent'
    BY <1>2, <1>4 DEF CallOK, Synced, CleanIsConsistent, Exact
  <2>3. Accurate'
    BY <1>2, <1>4 DEF Accurate, Target, Exact
  <2>4. Cardinality(FreeIn(bits[k], g)) = 0
    BY <1>4, FS_EmptySet
  <2>5. ~dirtyMount => Exact(mcnt, mtotal, bits)
    BY <1>2 DEF Accurate, Target
  <2>6. dirtyMount
    BY <1>1, <2>4, <2>5 DEF FirstGroup, Exact
  <2> QED BY <1>2, <1>3, <2>1, <2>2, <2>3, <2>6 DEF NoPanic
<1>5. ASSUME NEW i \in Index, FirstClear(k, g, i), Adjust(k, g, -1),
             op' = [write |-> "bgdt", call |-> "alloc", kind |-> k,
                    item |-> <<g, i>>, bitmap |-> bits[k] \cup {<<g, i>>}],
             UNCHANGED panicked
      PROVE  IInv'
  <2>1. <<g, i>> \in Item /\ <<g, i>> \notin bits[k]
    BY <1>5 DEF FirstClear, FreeIn, Item
  <2>2. bits[k] \cup {<<g, i>>} \in SUBSET Item /\ held' \in BitsType
    BY <1>2, <2>1, ZenonT(30) DEF TypeOK, BitsType
  <2>3. /\ \A h \in Group : Cardinality(FreeIn(bits[k] \cup {<<g, i>>}, h))
              = IF h = g THEN Cardinality(FreeIn(bits[k], h)) + (-1)
                         ELSE Cardinality(FreeIn(bits[k], h))
        /\ Cardinality(FreeItems(bits[k] \cup {<<g, i>>}))
              = Cardinality(FreeItems(bits[k])) + (-1)
    BY <2>1, SetBit, FiniteSizes
  <2>4. /\ TypeOK' /\ Synced' /\ Accurate' /\ CleanIsConsistent' /\ NoPanic'
        /\ op' # Idle
    <3>1. mcnt[k][g] + (-1) \in Nat
      BY <1>1 DEF FirstGroup, TypeOK
    <3>2. Started(k, g, i, -1, "alloc", bits[k] \cup {<<g, i>>})
      BY <1>2, <1>5, <2>2, <2>3, <3>1, ZenonT(30) DEF Started
    <3> HIDE DEF IInv
    <3> QED BY <2>2, <3>2, -1 \in Int, StartPreserves
  <2>5. CallOK'
    BY <1>2, <1>5, <2>1 DEF CallOK
  <2> QED BY <1>3, <2>4, <2>5
<1> QED BY <1>1, <1>4, <1>5, ZenonT(30)

\* free_inode and free_block up to their first write.
LEMMA FreePreserves ==
    ASSUME NEW k \in Kind, NEW item \in Item PROVE IInv /\ Free(k, item) => IInv'
<1> SUFFICES ASSUME IInv, Free(k, item) PROVE IInv'
  OBVIOUS
<1> USE DEF IInv, disk, memory
<1>1. /\ Ready /\ power = "mounted" /\ op = Idle
      /\ held' = [held EXCEPT ![k] = held[k] \ {item}]
      /\ UNCHANGED <<disk, power, panicked, crashes, dirtyMount>>
  BY DEF Free, Ready
<1>2. held' \in BitsType /\ held'[k] = held[k] \ {item}
  BY <1>1 DEF TypeOK, BitsType
<1>3. Marked'
  BY <1>1 DEF Marked, TypeOK
<1>4. CASE item \notin bits[k]
  <2>1. UNCHANGED <<memory, op>>
    BY <1>4 DEF Free
  <2>2. TypeOK'
    BY <1>1, <1>2, <2>1 DEF TypeOK, BitsType
  <2>3. CallOK' /\ Synced' /\ CleanIsConsistent' /\ NoPanic'
    BY <1>1, <2>1 DEF CallOK, Synced, CleanIsConsistent, NoPanic, Exact
  <2>4. Accurate'
    BY <1>1, <2>1 DEF Accurate, Target, Exact
  <2> QED BY <1>3, <2>2, <2>3, <2>4
<1>5. CASE item \in bits[k]
  <2>1. PICK g \in Group, i \in Index : item = <<g, i>>
    BY DEF Item
  <2>2. /\ op' = [write |-> "bgdt", call |-> "free", kind |-> k,
                  item |-> <<g, i>>, bitmap |-> bits[k] \ {<<g, i>>}]
        /\ Adjust(k, g, 1)
    BY <1>5, <2>1 DEF Free
  <2>3. bits[k] \ {<<g, i>>} \in SUBSET Item
    BY DEF TypeOK
  <2>4. /\ \A h \in Group : Cardinality(FreeIn(bits[k] \ {<<g, i>>}, h))
              = IF h = g THEN Cardinality(FreeIn(bits[k], h)) + 1
                         ELSE Cardinality(FreeIn(bits[k], h))
        /\ Cardinality(FreeItems(bits[k] \ {<<g, i>>}))
              = Cardinality(FreeItems(bits[k])) + 1
    BY <1>5, <2>1, ClearBit
  <2>5. TypeOK' /\ Synced' /\ Accurate' /\ CleanIsConsistent' /\ NoPanic'
    <3>1. mcnt[k][g] + 1 \in Nat
      BY DEF TypeOK
    <3>2. Started(k, g, i, 1, "free", bits[k] \ {<<g, i>>})
      BY <1>1, <1>2, <2>2, <2>4, <3>1, ZenonT(30) DEF Started
    <3> HIDE DEF IInv
    <3> QED BY <2>3, <3>2, StartPreserves
  <2>6. CallOK'
    BY <1>1, <1>2, <1>5, <2>1, <2>2 DEF CallOK
  <2> QED BY <1>3, <2>5, <2>6
<1> QED BY <1>4, <1>5

\* The three writes.
LEMMA WritePreserves ==
    IInv /\ (WriteBgdt \/ WriteSuperblk \/ WriteBitmap) => IInv'
<1> SUFFICES ASSUME IInv, WriteBgdt \/ WriteSuperblk \/ WriteBitmap PROVE IInv'
  OBVIOUS
<1> USE DEF IInv, disk, memory
<1>1. op \in Call /\ op # Idle /\ power = "mounted"
  BY CallIsNotIdle DEF WriteBgdt, WriteSuperblk, WriteBitmap, TypeOK, Idle
<1>2. ~valid /\ ~mvalid /\ (~dirtyMount => Exact(mcnt, mtotal, Target))
  BY <1>1 DEF Accurate
<1>3. CASE WriteBgdt \/ WriteSuperblk
  <2>1. PICK w \in {"superblk", "bitmap"} : op' = [op EXCEPT !.write = w]
    BY <1>3 DEF WriteBgdt, WriteSuperblk
  <2>2. /\ op' \in Call /\ op'.call = op.call /\ op'.kind = op.kind
        /\ op'.item = op.item /\ op'.bitmap = op.bitmap
    BY <1>1, <2>1 DEF Call
  <2>3. op' # Idle
    BY <2>2, CallIsNotIdle
  <2>4. UNCHANGED <<bits, memory, power, held, panicked, crashes, dirtyMount>>
    BY <1>3 DEF WriteBgdt, WriteSuperblk
  <2>5. Target' = Target
    BY <1>1, <2>2, <2>3, <2>4 DEF Target
  <2>6. valid' = FALSE
    BY <1>2, <1>3 DEF WriteBgdt, WriteSuperblk, TypeOK
  <2>7. cnt' \in [Kind -> [Group -> Nat]] /\ total' \in [Kind -> Int]
    BY <1>3 DEF WriteBgdt, WriteSuperblk, TypeOK
  <2>8. TypeOK'
    BY <1>1, <2>2, <2>4, <2>6, <2>7, ZenonT(30) DEF TypeOK
  <2>9. Marked' /\ CallOK' /\ NoPanic' /\ CleanIsConsistent'
    BY <1>1, <2>2, <2>4, <2>6 DEF Marked, CallOK, NoPanic, CleanIsConsistent
  <2>10. Synced'
    BY <1>1, <1>3, <2>1, <2>3, <2>4 DEF WriteBgdt, WriteSuperblk, Synced, Call
  <2>11. Accurate'
    BY <1>2, <2>4, <2>5, <2>6 DEF Accurate, Exact
  <2> QED BY <2>8, <2>9, <2>10, <2>11
<1>4. CASE WriteBitmap
  <2>1. /\ bits' = [bits EXCEPT ![op.kind] = op.bitmap]
        /\ op' = Idle /\ op.write = "bitmap"
        /\ UNCHANGED <<cnt, total, valid, memory, power, panicked, crashes,
                       dirtyMount>>
    BY <1>4 DEF WriteBitmap
  <2>2. bits' = Target /\ Target' = bits'
    BY <1>1, <2>1 DEF Target
  <2>3. /\ op.kind \in Kind /\ op.item \in Item /\ op.bitmap \in SUBSET Item
        /\ op.call \in {"alloc", "free"}
    BY <1>1 DEF Call
  <2>4. bits' \in BitsType /\ held' \in BitsType
    BY <1>4, <2>1, <2>3 DEF WriteBitmap, TypeOK, BitsType
  <2>5. TypeOK'
    BY <2>1, <2>4 DEF TypeOK, BitsType
  <2>6. Marked'
    <3>1. SUFFICES ASSUME NEW l \in Kind PROVE held'[l] \subseteq bits'[l]
      BY DEF Marked
    <3>2. held[l] \subseteq bits[l]
      BY DEF Marked
    <3>3. CASE op.call = "alloc"
      BY <1>1, <1>4, <2>1, <2>3, <3>2, <3>3 DEF WriteBitmap, CallOK, TypeOK
    <3>4. CASE op.call = "free"
      BY <1>1, <1>4, <2>1, <2>3, <3>2, <3>4 DEF WriteBitmap, CallOK, TypeOK
    <3> QED BY <2>3, <3>3, <3>4
  <2>7. CallOK' /\ NoPanic' /\ CleanIsConsistent'
    BY <1>2, <2>1 DEF CallOK, NoPanic, CleanIsConsistent
  <2>8. Synced'
    BY <1>1, <2>1 DEF Synced, Idle
  <2>9. Accurate'
    BY <1>2, <2>1, <2>2 DEF Accurate, Exact
  <2> QED BY <2>5, <2>6, <2>7, <2>8, <2>9
<1> QED BY <1>3, <1>4

\* Every step of the specification preserves the invariant.
LEMMA Invariance == Spec => []IInv
<1>1. ASSUME IInv, [Next]_vars PROVE IInv'
  <2>1. CASE UNCHANGED vars
    BY <1>1, <2>1 DEF IInv, vars, disk, memory, TypeOK, Marked, CallOK,
                      Synced, Accurate, CleanIsConsistent, NoPanic, Exact, Target
  <2>2. CASE AllocInode \/ AllocBlock
    BY <1>1, <2>2, AllocPreserves DEF AllocInode, AllocBlock, Kind
  <2>3. CASE \E item \in Item : FreeInode(item) \/ FreeBlock(item)
    BY <1>1, <2>3, FreePreserves DEF FreeInode, FreeBlock, Kind
  <2> QED BY <1>1, <2>1, <2>2, <2>3, PowerPreserves, WritePreserves DEF Next
<1> QED BY <1>1, InitIInv, PTL DEF Spec

\* For every number of groups, group size and number of power failures: what
\* the allocators handed out stays marked on disk, so that neither alloc_block
\* nor alloc_inode ever hands it out a second time.
THEOREM AllocationIsExclusive == Spec => []HeldIsMarked
BY Invariance, PTL DEF IInv, HeldIsMarked

\* A partition that says it is clean, and was never mounted dirty, has exact
\* counters on disk.
THEOREM CleanMeansConsistent == Spec => []CleanIsConsistent
BY Invariance, PTL DEF IInv

\* Without a dirty mount, neither "CORRUPTED UNALLOC_BLOCK_CNT" nor
\* "CORRUPTED UNALLOC_INODE_CNT" is raised.
THEOREM CountersNeverPanic == Spec => []NoPanic
BY Invariance, PTL DEF IInv

\* The variables keep their types.
THEOREM TypeCorrect == Spec => []TypeOK
BY Invariance, PTL DEF IInv
=============================================================================
