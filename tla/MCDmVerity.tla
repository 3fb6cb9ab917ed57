------------------------------- MODULE MCDmVerity -------------------------------
(***************************************************************************)
(* DmVerityProtectedFile on small trees: two digests per hash block, two   *)
(* bytes per data block.  Besides the blocks of the image a pread may      *)
(* return a bad data block and the hash blocks that vouch for it, so that  *)
(* only the comparison with the root hash tells the two trees apart.       *)
(***************************************************************************)
EXTENDS DmVerityProtectedFile

CONSTANTS
  DataBlocks,     \* data blocks of the image, 1 to 5
  a, b, x, zero   \* bytes; x never occurs in the image

MCsha256(block) == <<"sha256", block>>

\* The data blocks of the image are all different.
ImageBlocks == << <<a, b>>, <<b, a>>, <<a, a>>, <<b, b>>, <<b, zero>> >>
Data == [i \in 0 .. DataBlocks - 1 |-> [k \in 0 .. 1 |-> ImageBlocks[i + 1][k + 1]]]
BadData == [Data EXCEPT ![0] = [k \in 0 .. 1 |-> x]]

Half(n) == (n + 1) \div 2
HashBlockCounts == <<DataBlocks, Half(DataBlocks), Half(Half(DataBlocks)), Half(Half(Half(DataBlocks)))>>
MCTop == CHOOSE l \in 0 .. 3 : /\ HashBlockCounts[l + 1] = 1
                              /\ \A m \in 0 .. l - 1 : HashBlockCounts[m + 1] > 1
MCLevelBlocks == [l \in 0 .. MCTop |-> HashBlockCounts[l + 1]]

\* The hash blocks over a level of the tree.
HashLevel(level) ==
  LET count == Cardinality(DOMAIN level) IN
  [i \in 0 .. Half(count) - 1 |->
     [j \in 0 .. 1 |-> IF 2 * i + j < count THEN MCsha256(level[2 * i + j]) ELSE zero]]
TreeOver(data) ==
  LET one   == HashLevel(data)
      two   == HashLevel(one)
      three == HashLevel(two)
  IN  [l \in 0 .. MCTop |-> <<data, one, two, three>>[l + 1]]

MCTree == TreeOver(Data)
MCContent ==
  UNION {{tree[l][i] : i \in 0 .. MCLevelBlocks[l] - 1} :
           tree \in {MCTree, TreeOver(BadData)}, l \in 0 .. MCTop}
=============================================================================
